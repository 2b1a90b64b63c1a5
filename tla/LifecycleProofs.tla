--------------------------- MODULE LifecycleProofs ---------------------------
(***************************************************************************)
(* Theorems about Lifecycle, for any set of processes started on the same  *)
(* directory: what holds however they race for lock, marker and guard.     *)
(***************************************************************************)
EXTENDS Lifecycle, TLAPS

Holding == {"recovering", "starting", "serving", "draining", "unmarking", "unlocking"}
Marking == {"serving", "draining", "unmarking"}

(* A process that has not been killed is where the files say: it has made   *)
(* the guard file exactly while it reclaims, the lock names it only between *)
(* acquiring and releasing, the marker only between writing and removing.   *)
GuardPlace == \A p \in Proc : guard = p => pc[p] \in Reclaiming \cup {"killed"}
LockPlace == \A p \in Proc : lock = p => pc[p] \in Holding \cup {"killed"}
RecordPlace == \A p \in Proc : lock = p /\ pc[p] # "killed" => record[p]
MarkerPlace == \A p \in Proc : marker = p => pc[p] \in Marking \cup {"killed"}

Places == GuardPlace /\ LockPlace /\ RecordPlace /\ MarkerPlace

-----------------------------------------------------------------------------
LEMMA InitTyped == Init => TypeOK
<1> SUFFICES ASSUME Init PROVE TypeOK
    OBVIOUS
<1>1. /\ {"off", "over", "killed", "unmarking"} \subseteq At
      /\ {"off", "over"} \subseteq LoopState
      /\ 1 \in 1..MaxBackoff
    BY LifecycleAssumption DEF At, Gone, LoopState
<1>2. lock \in Owner /\ marker \in Owner /\ guard \in Proc \cup {Nobody} /\ unfinished \in BOOLEAN
    BY LifecycleAssumption DEF Init, Owner
<1>3. Nothing \in [lock : Owner, marker : Owner]
    BY DEF Nothing, Owner
<1>4. seen \in [Proc -> [lock : Owner, marker : Owner]] /\ overtaken \in BOOLEAN
    BY <1>3 DEF Init
<1>5. loop \in [Proc -> [Loop -> LoopState]]
    BY <1>1 DEF Init
<1>6. pc \in [Proc -> At] /\ backoff \in [Proc -> 1..MaxBackoff]
    BY <1>1 DEF Init, Before
<1>7. /\ record \in [Proc -> BOOLEAN] /\ ready \in [Proc -> BOOLEAN]
      /\ failure \in [Proc -> BOOLEAN] /\ halting \in [Proc -> BOOLEAN]
      /\ gate \in [Proc -> BOOLEAN]
    BY DEF Init, Stopping
<1> QED BY <1>2, <1>4, <1>5, <1>6, <1>7 DEF TypeOK

(* Doubling stays within the cap. *)
LEMMA DoubledFacts ==
    ASSUME NEW p \in Proc, backoff \in [Proc -> 1..MaxBackoff]
    PROVE  Doubled(p) \in 1..MaxBackoff
<1>1. backoff[p] \in 1..MaxBackoff /\ MaxBackoff \in Nat
    BY LifecycleAssumption
<1> QED BY <1>1 DEF Doubled

(* However reclaiming ends, what it touches keeps its type. *)
LEMMA ReclaimedTyped ==
    ASSUME TypeOK, NEW p \in Proc, NEW where \in At, Reclaimed(p, where)
    PROVE  /\ pc' \in [Proc -> At]
           /\ guard' \in Proc \cup {Nobody}
           /\ seen' \in [Proc -> [lock : Owner, marker : Owner]]
<1>1. Nothing \in [lock : Owner, marker : Owner]
    BY DEF Nothing, Owner
<1> QED BY <1>1 DEF TypeOK, Reclaimed, Go

LEMMA ReadTyped ==
    ASSUME TypeOK, NEW p \in Proc, Read(p)
    PROVE  TypeOK'
<1>1. {"over", "logging in", "probing"} \subseteq At
    BY DEF At, Gone, Reclaiming
<1>2. /\ pc' \in [Proc -> At]
      /\ guard' \in Proc \cup {Nobody}
      /\ seen' \in [Proc -> [lock : Owner, marker : Owner]]
    <2>1. CASE Reclaimed(p, "over") BY <1>1, <2>1, ReclaimedTyped
    <2>2. CASE Reclaimed(p, "logging in") BY <1>1, <2>2, ReclaimedTyped
    <2>3. CASE /\ Go(p, "probing")
               /\ seen' = [seen EXCEPT ![p] = [lock |-> lock, marker |-> marker]]
               /\ UNCHANGED guard
        <3>1. [lock |-> lock, marker |-> marker] \in [lock : Owner, marker : Owner]
            BY DEF TypeOK
        <3> QED BY <1>1, <2>3, <3>1 DEF TypeOK, Go
    <2> QED BY <2>1, <2>2, <2>3 DEF Read
<1> QED BY <1>2 DEF Read, TypeOK, domain, reading

LEMMA ProbeTyped ==
    ASSUME TypeOK, NEW p \in Proc, Probe(p)
    PROVE  TypeOK'
<1>1. {"over", "logging in", "archiving"} \subseteq At
    BY DEF At, Gone, Reclaiming
<1>2. /\ pc' \in [Proc -> At]
      /\ guard' \in Proc \cup {Nobody}
      /\ seen' \in [Proc -> [lock : Owner, marker : Owner]]
    <2>1. CASE \E where \in {"over", "logging in"} : Reclaimed(p, where)
        BY <1>1, <2>1, ReclaimedTyped
    <2>2. CASE Go(p, "archiving") /\ UNCHANGED <<guard, seen>>
        BY <1>1, <2>2 DEF TypeOK, Go
    <2> QED BY <2>1, <2>2 DEF Probe
<1>3. overtaken' \in BOOLEAN
    BY DEF Probe, TypeOK
<1> QED BY <1>2, <1>3 DEF Probe, TypeOK, domain

(* A process that ends leaves what the types allow. *)
LEMMA ForgottenTyped ==
    ASSUME TypeOK, NEW p \in Proc, NEW where \in At, Go(p, where), Forgotten(p),
           UNCHANGED <<files, unfinished, overtaken>>
    PROVE  TypeOK'
<1>1. Nothing \in [lock : Owner, marker : Owner]
    BY DEF Nothing, Owner
<1>2. [l \in Loop |-> "over"] \in [Loop -> LoopState] /\ 1 \in 1..MaxBackoff
    BY LifecycleAssumption DEF LoopState
<1>3. /\ seen' \in [Proc -> [lock : Owner, marker : Owner]]
      /\ loop' \in [Proc -> [Loop -> LoopState]]
      /\ backoff' \in [Proc -> 1..MaxBackoff]
    BY <1>1, <1>2 DEF Forgotten, TypeOK
<1>4. /\ record' \in [Proc -> BOOLEAN] /\ ready' \in [Proc -> BOOLEAN]
      /\ failure' \in [Proc -> BOOLEAN] /\ halting' \in [Proc -> BOOLEAN]
      /\ gate' \in [Proc -> BOOLEAN]
    BY DEF Forgotten, TypeOK
<1>5. pc' \in [Proc -> At]
    BY DEF Go, TypeOK
<1> QED BY <1>3, <1>4, <1>5 DEF TypeOK, files

LEMMA MainTyped ==
    ASSUME TypeOK, NEW p \in Proc, Begin(p) \/ Main(p) \/ Interrupt(p) \/ Kill(p)
    PROVE  TypeOK'
<1> USE DEF TypeOK, Owner, At, Reclaiming, Gone, Go, files, domain, reading
<1>1. CASE Begin(p) BY <1>1 DEF Begin
<1>2. CASE Read(p) BY <1>2, ReadTyped
<1>3. CASE Probe(p) BY <1>3, ProbeTyped
<1>4. CASE ArchiveMarker(p) BY <1>4 DEF ArchiveMarker
<1>5. CASE ArchiveLock(p) BY <1>5 DEF ArchiveLock, Reclaimed, Nothing
<1>6. CASE LogIn(p) BY <1>6 DEF LogIn
<1>7. CASE Acquire(p) BY <1>7 DEF Acquire, Abandon
<1>8. CASE Recover(p)
    <2>1. [l \in Loop |-> IF l = "ws" THEN "connecting" ELSE "fresh"] \in [Loop -> LoopState]
        BY DEF LoopState
    <2>2. loop' \in [Proc -> [Loop -> LoopState]]
        BY <1>8, <2>1 DEF Recover
    <2>3. pc' \in [Proc -> At]
        <3>1. Go(p, "starting") \/ Go(p, "unmarking")
            <4> HIDE DEF Go
            <4> QED BY <1>8 DEF Recover, Abandon
        <3> QED BY <3>1
    <2>4. UNCHANGED <<files, unfinished, reading, record, ready, failure, halting, gate, backoff>>
        BY <1>8 DEF Recover
    <2> HIDE DEF At, Go
    <2> QED BY <2>2, <2>3, <2>4
<1>9. CASE Serve(p) BY <1>9 DEF Serve, Abandon
<1>10. CASE StartFails(p) BY <1>10 DEF StartFails
<1>11. CASE StartTimesOut(p) BY <1>11 DEF StartTimesOut, Fail
<1>12. CASE Wake(p) BY <1>12 DEF Wake
<1>13. CASE Drained(p) BY <1>13 DEF Drained
<1>14. CASE Unmark(p) BY <1>14 DEF Unmark
<1>15. CASE Unlock(p) BY <1>15 DEF Unlock
<1>16. CASE Exit(p)
    <2>1. "over" \in At
        OBVIOUS
    <2> HIDE DEF At, Go, TypeOK
    <2> QED BY <1>16, <2>1, ForgottenTyped DEF Exit
<1>17. CASE Interrupt(p) BY <1>17 DEF Interrupt
<1>18. CASE Kill(p)
    <2>1. "killed" \in At
        OBVIOUS
    <2> HIDE DEF At, Go, TypeOK
    <2> QED BY <1>18, <2>1, ForgottenTyped DEF Kill
<1> QED
    BY <1>1, <1>2, <1>3, <1>4, <1>5, <1>6, <1>7, <1>8, <1>9, <1>10, <1>11, <1>12, <1>13,
       <1>14, <1>15, <1>16, <1>17, <1>18
    DEF Main, Reclaim, Start, Stop

LEMMA LoopTyped ==
    ASSUME TypeOK, NEW p \in Proc,
           \/ Stream(p)
           \/ \E l \in Workers : Worker(p, l)
           \/ \E l \in Loop : Cancelled(p, l)
    PROVE  TypeOK'
<1> USE DEF TypeOK, files, reading
<1>1. ASSUME NEW l \in Loop, NEW s \in LoopState, Move(p, l, s)
      PROVE  loop' \in [Proc -> [Loop -> LoopState]]
    BY <1>1 DEF Move
<1>2. ASSUME Latch(p)
      PROVE  ready' \in [Proc -> BOOLEAN]
    BY <1>2 DEF Latch
<1>3. ASSUME Fail(p)
      PROVE  failure' \in [Proc -> BOOLEAN] /\ halting' \in [Proc -> BOOLEAN]
    BY <1>3 DEF Fail
<1>4. CASE Stream(p)
    <2>1. \A from, s : WsStep(p, from, s) => Move(p, "ws", s) /\ UNCHANGED <<files, pc, reading, record, gate>>
        BY DEF WsStep
    <2>2. "ws" \in Loop /\ {"up", "waiting", "connecting", "over", "handling"} \subseteq LoopState
        BY DEF Loop, LoopState
    <2>3. CASE Connect(p) BY <2>1, <2>2, <2>3, <1>1, <1>2 DEF Connect
    <2>4. CASE Disconnect(p) BY <2>1, <2>2, <2>4, <1>1, DoubledFacts DEF Disconnect
    <2>5. CASE Reconnect(p) BY <2>1, <2>2, <2>5, <1>1 DEF Reconnect
    <2>6. CASE StreamBreaks(p) BY <2>1, <2>2, <2>6, <1>1, <1>3 DEF StreamBreaks
    <2>7. CASE StreamEnds(p) BY <2>1, <2>2, <2>7, <1>1, <1>3 DEF StreamEnds
    <2>8. CASE Receive(p) BY <2>1, <2>2, <2>8, <1>1 DEF Receive
    <2>9. CASE Handled(p) BY <2>1, <2>2, <2>9, <1>1 DEF Handled
    <2> QED BY <1>4, <2>3, <2>4, <2>5, <2>6, <2>7, <2>8, <2>9 DEF Stream
<1>5. ASSUME NEW l \in Workers, Worker(p, l)
      PROVE  TypeOK'
    <2>1. \A from, s : WorkerStep(p, l, from, s) =>
             Move(p, l, s) /\ UNCHANGED <<files, unfinished, pc, reading, record, gate, backoff>>
        BY DEF WorkerStep
    <2>2. l \in Loop /\ {"idle", "working", "over"} \subseteq LoopState
        BY DEF Loop, LoopState
    <2>3. CASE FirstPass(p, l) BY <2>1, <2>2, <2>3, <1>1, <1>2 DEF FirstPass
    <2>4. CASE Work(p, l) BY <2>1, <2>2, <2>4, <1>1 DEF Work
    <2>5. CASE Worked(p, l) BY <2>1, <2>2, <2>5, <1>1 DEF Worked
    <2>6. CASE WorkerFails(p, l) BY <2>1, <2>2, <2>6, <1>1, <1>3 DEF WorkerFails
    <2> QED BY <1>5, <2>3, <2>4, <2>5, <2>6 DEF Worker
<1>6. ASSUME NEW l \in Loop, Cancelled(p, l)
      PROVE  TypeOK'
    <2>1. "over" \in LoopState BY DEF LoopState
    <2> QED BY <1>6, <1>1, <2>1 DEF Cancelled
<1> QED BY <1>4, <1>5, <1>6

LEMMA NextTyped == TypeOK /\ [Next]_vars => TypeOK'
<1> SUFFICES ASSUME TypeOK, [Next]_vars PROVE TypeOK'
    OBVIOUS
<1>1. CASE Next BY <1>1, MainTyped, LoopTyped DEF Next
<1>2. CASE UNCHANGED vars BY <1>2 DEF vars, files, domain, reading, TypeOK
<1> QED BY <1>1, <1>2

(* Every variable has its type, for any number of processes. *)
THEOREM TypeCorrect == Spec => []TypeOK
<1> QED BY InitTyped, NextTyped, PTL DEF Spec

-----------------------------------------------------------------------------
LEMMA InitPlaced == Init => Places
<1> SUFFICES ASSUME Init PROVE Places
    OBVIOUS
<1>1. guard = Nobody /\ Old \in Proc /\ Nobody \notin Proc
    BY LifecycleAssumption DEF Init
<1>2. \/ lock = Nobody /\ marker = Nobody
      \/ lock = Old /\ marker \in {Old, Nobody} /\ pc[Old] = "killed"
      \/ lock = Old /\ marker = Old /\ pc[Old] = "unmarking" /\ record[Old]
    BY <1>1 DEF Init, Before, Stopping
<1> QED
    BY <1>1, <1>2 DEF Places, GuardPlace, LockPlace, RecordPlace, MarkerPlace, Holding, Marking

(* A step of p that gives the files to nobody else keeps Places, if p goes  *)
(* where its files say.                                                     *)
Keeps(p, where) ==
    /\ Go(p, where)
    /\ \A q \in Proc \ {p} :
         /\ guard' = q => guard = q
         /\ lock' = q => lock = q
         /\ marker' = q => marker = q
         /\ record'[q] = record[q]
    /\ guard' = p => where \in Reclaiming \cup {"killed"}
    /\ lock' = p => where \in Holding \cup {"killed"}
    /\ lock' = p /\ where # "killed" => record'[p]
    /\ marker' = p => where \in Marking \cup {"killed"}

LEMMA KeepsPlaces ==
    ASSUME TypeOK, Places, NEW p \in Proc, NEW where, Keeps(p, where)
    PROVE  Places'
<1>1. pc'[p] = where /\ \A q \in Proc \ {p} : pc'[q] = pc[q]
    BY DEF Keeps, Go, TypeOK
<1>2. GuardPlace'
    BY <1>1 DEF Keeps, Places, GuardPlace
<1>3. LockPlace'
    BY <1>1 DEF Keeps, Places, LockPlace
<1>4. RecordPlace'
    BY <1>1 DEF Keeps, Places, RecordPlace
<1>5. MarkerPlace'
    BY <1>1 DEF Keeps, Places, MarkerPlace
<1> QED BY <1>2, <1>3, <1>4, <1>5 DEF Places

(* What Places says of p alone. *)
LEMMA PlacesOf ==
    ASSUME Places, NEW p \in Proc
    PROVE  /\ guard = p => pc[p] \in Reclaiming \cup {"killed"}
           /\ lock = p => pc[p] \in Holding \cup {"killed"}
           /\ lock = p /\ pc[p] # "killed" => record[p]
           /\ marker = p => pc[p] \in Marking \cup {"killed"}
BY DEF Places, GuardPlace, LockPlace, RecordPlace, MarkerPlace

(* The main task moves a file only together with itself. *)
LEMMA MainPlaced ==
    ASSUME TypeOK, Places, NEW p \in Proc, Begin(p) \/ Main(p) \/ Interrupt(p) \/ Kill(p)
    PROVE  Places'
<1> USE LifecycleAssumption DEF Holding, Marking, Reclaiming, files
<1>0. ASSUME NEW where, Keeps(p, where) PROVE Places' BY <1>0, KeepsPlaces
<1>p. /\ guard = p => pc[p] \in Reclaiming \cup {"killed"}
      /\ lock = p => pc[p] \in Holding \cup {"killed"}
      /\ lock = p /\ pc[p] # "killed" => record[p]
      /\ marker = p => pc[p] \in Marking \cup {"killed"}
    BY PlacesOf
<1>r. \A v : record' = [record EXCEPT ![p] = v] =>
        record'[p] = v /\ \A q \in Proc \ {p} : record'[q] = record[q]
    BY DEF TypeOK
<1>1. CASE Begin(p)
    <2>1. \E where \in {"logging in", "reading", "over"} : Keeps(p, where)
        BY <1>1, <1>p, <1>r DEF Begin, GuardFree, Keeps
    <2> QED BY <1>0, <2>1
<1>2. CASE Read(p)
    <2>1. \E where \in {"over", "logging in", "probing"} : Keeps(p, where)
        BY <1>2, <1>p, <1>r DEF Read, Reclaimed, Keeps
    <2> QED BY <1>0, <2>1
<1>3. CASE Probe(p)
    <2>1. \E where \in {"over", "logging in", "archiving"} : Keeps(p, where)
        BY <1>3, <1>p, <1>r DEF Probe, Reclaimed, Keeps
    <2> QED BY <1>0, <2>1
<1>4. CASE ArchiveMarker(p)
    <2>1. Keeps(p, "locking")
        BY <1>4, <1>p, <1>r DEF ArchiveMarker, Keeps
    <2> QED BY <1>0, <2>1
<1>5. CASE ArchiveLock(p)
    <2>1. Keeps(p, "logging in")
        BY <1>5, <1>p, <1>r DEF ArchiveLock, Reclaimed, Keeps
    <2> QED BY <1>0, <2>1
<1>6. CASE LogIn(p)
    <2>1. \E where \in {"acquiring", "over"} : Keeps(p, where)
        BY <1>6, <1>p, <1>r DEF LogIn, Keeps
    <2> QED BY <1>0, <2>1
<1>7. CASE Acquire(p)
    <2>1. \E where \in {"recovering", "unmarking"} : Keeps(p, where)
        BY <1>7, <1>p, <1>r DEF Acquire, Abandon, Keeps
    <2> QED BY <1>0, <2>1
<1>8. CASE Recover(p)
    <2>1. \E where \in {"starting", "unmarking"} : Keeps(p, where)
        BY <1>8, <1>p, <1>r DEF Recover, Abandon, Keeps
    <2> QED BY <1>0, <2>1
<1>9. CASE Serve(p)
    <2>1. \E where \in {"serving", "unmarking"} : Keeps(p, where)
        BY <1>9, <1>p, <1>r DEF Serve, Abandon, Keeps
    <2> QED BY <1>0, <2>1
<1>10. CASE StartFails(p)
    <2>1. Keeps(p, "draining")
        BY <1>10, <1>p, <1>r DEF StartFails, Keeps
    <2> QED BY <1>0, <2>1
<1>11. CASE StartTimesOut(p)
    <2>1. Keeps(p, "draining")
        BY <1>11, <1>p, <1>r DEF StartTimesOut, Keeps
    <2> QED BY <1>0, <2>1
<1>12. CASE Wake(p)
    <2>1. Keeps(p, "draining")
        BY <1>12, <1>p, <1>r DEF Wake, Keeps
    <2> QED BY <1>0, <2>1
<1>13. CASE Drained(p)
    <2>1. Keeps(p, "unmarking")
        BY <1>13, <1>p, <1>r DEF Drained, Keeps
    <2> QED BY <1>0, <2>1
<1>14. CASE Unmark(p)
    <2>1. Keeps(p, "unlocking")
        BY <1>14, <1>p, <1>r DEF Unmark, Keeps
    <2> QED BY <1>0, <2>1
<1>15. CASE Unlock(p)
    <2>1. Keeps(p, "closing")
        BY <1>15, <1>p, <1>r DEF Unlock, Keeps
    <2> QED BY <1>0, <2>1
<1>16. CASE Exit(p)
    <2>1. Keeps(p, "over")
        BY <1>16, <1>p, <1>r DEF Exit, Forgotten, Keeps
    <2> QED BY <1>0, <2>1
<1>17. CASE Interrupt(p)
    <2>1. \E where \in {"over", "draining"} : Keeps(p, where)
        BY <1>17, <1>p, <1>r DEF Interrupt, Keeps
    <2> QED BY <1>0, <2>1
<1>18. CASE Kill(p)
    <2>1. Keeps(p, "killed")
        BY <1>18, <1>p, <1>r DEF Kill, Forgotten, Runs, Gone, Keeps
    <2> QED BY <1>0, <2>1
<1> QED
    BY <1>1, <1>2, <1>3, <1>4, <1>5, <1>6, <1>7, <1>8, <1>9, <1>10, <1>11, <1>12, <1>13,
       <1>14, <1>15, <1>16, <1>17, <1>18
    DEF Main, Reclaim, Start, Stop

(* The loops touch none of what Places speaks of. *)
LEMMA LoopsLeaveFiles ==
    ASSUME NEW p \in Proc,
           \/ Stream(p)
           \/ \E l \in Workers : Worker(p, l)
           \/ \E l \in Loop : Cancelled(p, l)
    PROVE  UNCHANGED <<lock, marker, guard, pc, record>>
<1>1. CASE Stream(p)
    BY <1>1 DEF Stream, Connect, Disconnect, Reconnect, StreamBreaks, StreamEnds, Receive,
                Handled, WsStep, files
<1>2. CASE \E l \in Workers : Worker(p, l)
    BY <1>2 DEF Worker, FirstPass, Work, Worked, WorkerFails, WorkerStep, files
<1>3. CASE \E l \in Loop : Cancelled(p, l)
    BY <1>3 DEF Cancelled, files
<1> QED BY <1>1, <1>2, <1>3

LEMMA NextPlaced == TypeOK /\ Places /\ [Next]_vars => Places'
<1> SUFFICES ASSUME TypeOK, Places, [Next]_vars PROVE Places'
    OBVIOUS
<1>1. CASE UNCHANGED <<lock, marker, guard, pc, record>>
    BY <1>1 DEF Places, GuardPlace, LockPlace, RecordPlace, MarkerPlace
<1>2. CASE Next BY <1>1, <1>2, MainPlaced, LoopsLeaveFiles DEF Next
<1>3. CASE UNCHANGED vars BY <1>1, <1>3 DEF vars, files
<1> QED BY <1>2, <1>3

(* A process that ended by itself left no file behind, whichever way it     *)
(* ended and however many others raced with it over the same files.         *)
THEOREM NothingLeft == Spec => []LeavesNothing
<1>1. Places => LeavesNothing
    BY DEF Places, GuardPlace, LockPlace, MarkerPlace, LeavesNothing, Holding, Marking, Reclaiming
<1> QED BY <1>1, InitTyped, NextTyped, InitPlaced, NextPlaced, PTL DEF Spec
-----------------------------------------------------------------------------
(* One instance, however many processes are started.                       *)

(* Reclaiming goes on behind the guard file. *)
GuardHeld == \A p \in Proc : pc[p] \in Reclaiming => guard = p

(* InstanceLock.record is kept from acquiring to releasing. *)
RecordHeld == \A p \in Proc : record[p] => pc[p] \in Holding

(* The marker of a process stands for its record and its open gate; an open *)
(* gate stands for the record, and but for the gap for the marker, until    *)
(* the loops have been drained.                                             *)
MarkerHeld == \A p \in Proc : marker = p /\ pc[p] # "killed" => record[p] /\ gate[p]
GateHeld ==
    \A p \in Proc : gate[p] =>
        \/ pc[p] \in {"serving", "draining"} /\ record[p] /\ (marker = p \/ overtaken)
        \/ pc[p] \in {"unmarking", "unlocking", "closing"}

AllOver(p) == \A l \in Loop : loop[p][l] = "over"

(* Behind the gate there is no way out but through the drained loops. *)
DrainedFirst ==
    \A p \in Proc :
        gate[p] /\ pc[p] \in {"unmarking", "unlocking", "closing"} => AllOver(p)

WorksBehindGate == \A p \in Proc, l \in Workers : loop[p][l] = "working" => gate[p]

(* Until a reclaimer judges by an outdated reading: a record stands for the *)
(* lock, and a marker is never without the lock of the same process.        *)
LockKept == \A p \in Proc : record[p] => lock = p
MarkerBacked == marker \in {Nobody, lock}

(* What is judged is a lock; the lock that is archived is the one that was  *)
(* judged and its owner is gone; the marker is archived before it.          *)
LockRead ==
    \A p \in Proc : pc[p] \in {"probing", "archiving", "locking"} => seen[p].lock # Nobody
JudgedGone ==
    \A p \in Proc : pc[p] \in {"archiving", "locking"} =>
        lock = seen[p].lock /\ lock \in Proc /\ pc[lock] \in Gone
MarkerFirst == \A p \in Proc : pc[p] = "locking" => marker = Nobody

Orderly == LockKept /\ MarkerBacked /\ LockRead /\ JudgedGone /\ MarkerFirst

Held ==
    /\ GuardHeld /\ RecordHeld /\ MarkerHeld /\ GateHeld
    /\ DrainedFirst /\ WorksBehindGate
    /\ ~overtaken => Orderly

IInv == TypeOK /\ Places /\ Held

-----------------------------------------------------------------------------
LEMMA InitHeld == Init => Held
<1> SUFFICES ASSUME Init PROVE Held
    OBVIOUS
<1>1. Old \in Proc /\ Nobody \notin Proc
    BY LifecycleAssumption
<1>2. \A p \in Proc : pc[p] = IF p = Old THEN pc[Old] ELSE "off"
    BY <1>1 DEF Init, Before
<1>3. /\ pc[Old] \in {"over", "killed", "unmarking"}
      /\ \/ lock = Nobody /\ marker = Nobody
         \/ lock = Old /\ marker \in {Old, Nobody}
      /\ pc[Old] = "unmarking" => lock = Old /\ marker = Old
      /\ pc[Old] = "over" => lock = Nobody /\ marker = Nobody
    BY <1>1 DEF Init, Before
<1>4. \A p \in Proc :
        /\ record[p] = (pc[p] = "unmarking")
        /\ gate[p] = (pc[p] = "unmarking")
    BY DEF Init, Stopping
<1>5. \A p \in Proc, l \in Loop : loop[p][l] = IF p = Old THEN "over" ELSE "off"
    BY DEF Init
<1>6. \A p \in Proc : record[p] \/ gate[p] => p = Old /\ pc[p] = "unmarking"
    BY <1>2, <1>4
<1>7. GuardHeld /\ RecordHeld /\ GateHeld /\ LockRead /\ JudgedGone /\ MarkerFirst
    BY <1>2, <1>3, <1>6 DEF GuardHeld, RecordHeld, GateHeld, LockRead, JudgedGone, MarkerFirst,
                            Reclaiming, Holding
<1>8. MarkerHeld /\ LockKept /\ MarkerBacked
    BY <1>1, <1>3, <1>4, <1>6 DEF MarkerHeld, LockKept, MarkerBacked
<1>9. DrainedFirst
    BY <1>5, <1>6 DEF DrainedFirst, AllOver
<1>10. WorksBehindGate
    BY <1>5 DEF WorksBehindGate, Loop
<1> QED BY <1>7, <1>8, <1>9, <1>10 DEF Held, Orderly

(* What the invariant says of p alone. *)
LEMMA HeldOf ==
    ASSUME IInv, NEW p \in Proc
    PROVE  /\ pc[p] \in Reclaiming => guard = p
           /\ record[p] => pc[p] \in Holding
           /\ marker = p /\ pc[p] # "killed" => record[p] /\ gate[p]
           /\ gate[p] =>
                \/ pc[p] \in {"serving", "draining"} /\ record[p] /\ (marker = p \/ overtaken)
                \/ pc[p] \in {"unmarking", "unlocking", "closing"}
           /\ lock = p => pc[p] \in Holding \cup {"killed"}
           /\ lock = p /\ pc[p] # "killed" => record[p]
           /\ marker = p => pc[p] \in Marking \cup {"killed"}
BY PlacesOf DEF IInv, Held, GuardHeld, RecordHeld, MarkerHeld, GateHeld

(* A step of the main task of p; most move nothing but the task. *)
MainStep(p) == Begin(p) \/ Main(p) \/ Interrupt(p) \/ Kill(p)

Quiet(p) ==
    /\ \/ pc[p] = "logging in" /\ (Go(p, "over") \/ Go(p, "acquiring"))
       \/ pc[p] \in {"starting", "serving"} /\ Go(p, "draining")
       \/ pc[p] = "draining" /\ Go(p, "unmarking") /\ AllOver(p)
    /\ UNCHANGED <<files, reading, record, loop, gate>>

Ends(p) ==
    /\ \/ pc[p] = "closing" /\ Go(p, "over")
       \/ pc[p] \notin Gone /\ Go(p, "killed")
    /\ Forgotten(p)
    /\ UNCHANGED <<files, overtaken>>

Loud(p) ==
    \/ Begin(p) \/ Read(p) \/ Probe(p) \/ ArchiveMarker(p) \/ ArchiveLock(p)
    \/ Acquire(p) \/ Recover(p) \/ Serve(p) \/ Unmark(p) \/ Unlock(p)

LEMMA MainIsOneOfThese ==
    ASSUME TypeOK, NEW p \in Proc, MainStep(p)
    PROVE  Quiet(p) \/ Ends(p) \/ Loud(p)
<1>1. CASE LogIn(p) BY <1>1 DEF LogIn, Quiet, domain
<1>2. CASE StartFails(p) BY <1>2 DEF StartFails, Quiet
<1>3. CASE StartTimesOut(p) BY <1>3 DEF StartTimesOut, Quiet
<1>4. CASE Wake(p) BY <1>4 DEF Wake, Quiet, domain
<1>5. CASE Drained(p) BY <1>5 DEF Drained, Quiet, AllOver, domain
<1>6. CASE Exit(p) BY <1>6 DEF Exit, Ends
<1>7. CASE Interrupt(p) BY <1>7 DEF Interrupt, Quiet
<1>8. CASE Kill(p) BY <1>8 DEF Kill, Runs, Ends
<1> QED
    BY <1>1, <1>2, <1>3, <1>4, <1>5, <1>6, <1>7, <1>8
    DEF MainStep, Main, Reclaim, Start, Stop, Loud

(* What ends is gone, and knows nothing any more. *)
LEMMA EndsFacts ==
    ASSUME TypeOK, NEW p \in Proc, Ends(p)
    PROVE  /\ pc[p] \notin Gone /\ pc'[p] \in Gone
           /\ pc[p] = "closing" \/ pc'[p] = "killed"
           /\ seen'[p] = Nothing /\ record'[p] = FALSE /\ gate'[p] = FALSE
           /\ \A l \in Loop : loop'[p][l] = "over"
           /\ UNCHANGED <<lock, marker, guard, overtaken>>
           /\ \A q \in Proc \ {p} :
                /\ pc'[q] = pc[q] /\ seen'[q] = seen[q] /\ record'[q] = record[q]
                /\ gate'[q] = gate[q] /\ loop'[q] = loop[q]
<1>1. \/ pc[p] = "closing" /\ pc' = [pc EXCEPT ![p] = "over"]
      \/ pc[p] \notin Gone /\ pc' = [pc EXCEPT ![p] = "killed"]
    BY DEF Ends, Go
<1>2. /\ pc[p] \notin Gone /\ pc'[p] \in Gone
      /\ pc[p] = "closing" \/ pc'[p] = "killed"
      /\ \A q \in Proc \ {p} : pc'[q] = pc[q]
    BY <1>1 DEF TypeOK, Gone
<1>3. /\ seen'[p] = Nothing /\ record'[p] = FALSE /\ gate'[p] = FALSE
      /\ \A q \in Proc \ {p} :
            seen'[q] = seen[q] /\ record'[q] = record[q] /\ gate'[q] = gate[q]
    BY DEF Ends, Forgotten, TypeOK
<1>4. loop' = [loop EXCEPT ![p] = [l \in Loop |-> "over"]]
    BY DEF Ends, Forgotten
<1>5. (\A l \in Loop : loop'[p][l] = "over") /\ \A q \in Proc \ {p} : loop'[q] = loop[q]
    BY <1>4 DEF TypeOK
<1> QED BY <1>2, <1>3, <1>5 DEF Ends, files

(* A process changes nothing of what another one knows of itself. *)
LEMMA Others ==
    ASSUME TypeOK, NEW p \in Proc, MainStep(p), NEW q \in Proc \ {p}
    PROVE  /\ pc'[q] = pc[q] /\ seen'[q] = seen[q] /\ record'[q] = record[q]
           /\ gate'[q] = gate[q] /\ loop'[q] = loop[q]
<1>e. CASE Ends(p) BY <1>e, EndsFacts
<1> USE DEF TypeOK, Go, domain, reading
<1>1. CASE Quiet(p) BY <1>1 DEF Quiet
<1>2. CASE Begin(p) BY <1>2 DEF Begin
<1>3. CASE Read(p) BY <1>3 DEF Read, Reclaimed
<1>4. CASE Probe(p) BY <1>4 DEF Probe, Reclaimed
<1>5. CASE ArchiveMarker(p) BY <1>5 DEF ArchiveMarker
<1>6. CASE ArchiveLock(p) BY <1>6 DEF ArchiveLock, Reclaimed
<1>7. CASE Acquire(p) BY <1>7 DEF Acquire, Abandon
<1>8. CASE Recover(p) BY <1>8 DEF Recover, Abandon
<1>9. CASE Serve(p) BY <1>9 DEF Serve, Abandon
<1>10. CASE Unmark(p) BY <1>10 DEF Unmark
<1>11. CASE Unlock(p) BY <1>11 DEF Unlock
<1> QED
    BY <1>e, <1>1, <1>2, <1>3, <1>4, <1>5, <1>6, <1>7, <1>8, <1>9, <1>10, <1>11,
       MainIsOneOfThese DEF Loud

LEMMA Goes ==
    ASSUME TypeOK, NEW p \in Proc, NEW where, Go(p, where)
    PROVE  pc'[p] = where
BY DEF TypeOK, Go

-----------------------------------------------------------------------------
(* What holds of files, record and gate at every moment.                   *)

(* The guard file is there for the whole of a reclaim. *)
LEMMA GuardHeldOn ==
    ASSUME IInv, NEW p \in Proc, MainStep(p)
    PROVE  GuardHeld'
<1> USE DEF Reclaiming, Gone
<1>t. TypeOK BY DEF IInv
<1>o. \A q \in Proc \ {p} : pc'[q] = pc[q] BY <1>t, Others
<1>g. \A where : Go(p, where) => pc'[p] = where BY <1>t, Goes
<1>h. GuardHeld /\ Nobody \notin Proc BY LifecycleAssumption DEF IInv, Held
<1>1. \/ pc'[p] \notin Reclaiming /\ guard' = guard
      \/ pc'[p] \notin Reclaiming /\ guard = p
      \/ guard = Nobody /\ guard' = p
      \/ pc[p] \in Reclaiming /\ guard' = guard
      \/ pc'[p] \notin Reclaiming /\ pc[p] \in Reclaiming
    <2>0. CASE Quiet(p) BY <2>0, <1>g DEF Quiet, files
    <2>e. CASE Ends(p) BY <2>e, <1>t, EndsFacts
    <2>1. CASE Begin(p) BY <2>1, <1>g DEF Begin, GuardFree
    <2>2. CASE Read(p) BY <2>2, <1>g DEF Read, Reclaimed
    <2>3. CASE Probe(p) BY <2>3, <1>g DEF Probe, Reclaimed
    <2>4. CASE ArchiveMarker(p) BY <2>4 DEF ArchiveMarker
    <2>5. CASE ArchiveLock(p) BY <2>5, <1>g DEF ArchiveLock, Reclaimed
    <2>6. CASE Acquire(p) BY <2>6, <1>g DEF Acquire, Abandon
    <2>7. CASE Recover(p) BY <2>7, <1>g DEF Recover, Abandon, files
    <2>8. CASE Serve(p) BY <2>8, <1>g DEF Serve, Abandon
    <2>9. CASE Unmark(p) BY <2>9, <1>g DEF Unmark
    <2>10. CASE Unlock(p) BY <2>10, <1>g DEF Unlock
    <2> QED
        BY <2>0, <2>e, <2>1, <2>2, <2>3, <2>4, <2>5, <2>6, <2>7, <2>8, <2>9, <2>10, <1>t,
           MainIsOneOfThese DEF Loud
<1>2. \A q \in Proc \ {p} : pc[q] \in Reclaiming => guard = q
    BY <1>h DEF GuardHeld
<1>3. pc[p] \in Reclaiming => guard = p
    BY <1>h DEF GuardHeld
<1>4. \A q \in Proc \ {p} : guard = q => guard' = q
    <2>0. CASE Quiet(p) BY <2>0 DEF Quiet, files
    <2>e. CASE Ends(p) BY <2>e, <1>t, EndsFacts
    <2>1. CASE Begin(p) BY <2>1, <1>h DEF Begin, GuardFree
    <2>2. CASE Read(p) BY <2>2 DEF Read, Reclaimed
    <2>3. CASE Probe(p) BY <2>3 DEF Probe, Reclaimed
    <2>4. CASE ArchiveMarker(p) BY <2>4 DEF ArchiveMarker
    <2>5. CASE ArchiveLock(p) BY <2>5 DEF ArchiveLock, Reclaimed
    <2>6. CASE Acquire(p) BY <2>6 DEF Acquire
    <2>7. CASE Recover(p) BY <2>7 DEF Recover, files
    <2>8. CASE Serve(p) BY <2>8 DEF Serve
    <2>9. CASE Unmark(p) BY <2>9 DEF Unmark
    <2>10. CASE Unlock(p) BY <2>10 DEF Unlock
    <2> QED
        BY <2>0, <2>e, <2>1, <2>2, <2>3, <2>4, <2>5, <2>6, <2>7, <2>8, <2>9, <2>10, <1>t,
           MainIsOneOfThese DEF Loud
<1> QED BY <1>1, <1>2, <1>3, <1>4, <1>o DEF GuardHeld

(* A record is made where the lock is, and given up with it. *)
LEMMA RecordHeldOn ==
    ASSUME IInv, NEW p \in Proc, MainStep(p)
    PROVE  RecordHeld'
<1> USE LifecycleAssumption DEF Holding, Gone, RecordHeld
<1>t. TypeOK BY DEF IInv
<1>o. \A q \in Proc \ {p} : pc'[q] = pc[q] /\ record'[q] = record[q]
    BY <1>t, Others
<1>g. \A where : Go(p, where) => pc'[p] = where BY <1>t, Goes
<1>h. RecordHeld /\ record \in [Proc -> BOOLEAN]
    BY <1>t DEF IInv, Held, TypeOK
<1>1. CASE Quiet(p) BY <1>1, <1>o, <1>g, <1>h DEF Quiet, files, reading
<1>2. CASE Ends(p) BY <1>2, <1>o, <1>g, <1>h, <1>t, EndsFacts
<1>3. CASE Begin(p) BY <1>3, <1>o, <1>g, <1>h DEF Begin, GuardFree, domain, reading
<1>4. CASE Read(p) BY <1>4, <1>o, <1>g, <1>h DEF Read, Reclaimed, domain
<1>5. CASE Probe(p) BY <1>5, <1>o, <1>g, <1>h DEF Probe, Reclaimed, domain
<1>6. CASE ArchiveMarker(p) BY <1>6, <1>o, <1>g, <1>h DEF ArchiveMarker, domain, reading
<1>7. CASE ArchiveLock(p) BY <1>7, <1>o, <1>g, <1>h DEF ArchiveLock, Reclaimed, domain
<1>8. CASE Acquire(p) BY <1>8, <1>o, <1>g, <1>h DEF Acquire, Abandon, domain, reading
<1>9. CASE Recover(p) BY <1>9, <1>o, <1>g, <1>h DEF Recover, Abandon, files, reading
<1>10. CASE Serve(p) BY <1>10, <1>o, <1>g, <1>h DEF Serve, Abandon, Evidence, MayMark, reading
<1>11. CASE Unmark(p) BY <1>11, <1>o, <1>g, <1>h DEF Unmark, domain, reading
<1>12. CASE Unlock(p) BY <1>12, <1>o, <1>g, <1>h DEF Unlock, reading
<1> QED
    BY <1>1, <1>2, <1>3, <1>4, <1>5, <1>6, <1>7, <1>8,
       <1>9, <1>10, <1>11, <1>12, <1>t, MainIsOneOfThese DEF Loud

(* A marker is written over the own lock, and removed before the record. *)
LEMMA MarkerHeldOn ==
    ASSUME IInv, NEW p \in Proc, MainStep(p)
    PROVE  MarkerHeld'
<1> USE LifecycleAssumption DEF Holding, Marking, Gone, MarkerHeld
<1>t. TypeOK BY DEF IInv
<1>o. \A q \in Proc \ {p} : pc'[q] = pc[q] /\ record'[q] = record[q] /\ gate'[q] = gate[q]
    BY <1>t, Others
<1>g. \A where : Go(p, where) => pc'[p] = where BY <1>t, Goes
<1>h. /\ MarkerHeld /\ record \in [Proc -> BOOLEAN] /\ gate \in [Proc -> BOOLEAN]
      /\ lock = p /\ pc[p] # "killed" => record[p]
      /\ marker = p => pc[p] \in Marking \cup {"killed"}
    BY <1>t, HeldOf DEF IInv, Held, TypeOK
<1>1. CASE Quiet(p) BY <1>1, <1>o, <1>g, <1>h DEF Quiet, files, reading
<1>2. CASE Ends(p)
    <2>1. /\ pc[p] = "closing" \/ pc'[p] = "killed"
          /\ marker' = marker
        BY <1>2, <1>t, EndsFacts
    <2> QED BY <2>1, <1>o, <1>h
<1>3. CASE Begin(p) BY <1>3, <1>o, <1>g, <1>h DEF Begin, GuardFree, domain, reading
<1>4. CASE Read(p) BY <1>4, <1>o, <1>g, <1>h DEF Read, Reclaimed, domain
<1>5. CASE Probe(p) BY <1>5, <1>o, <1>g, <1>h DEF Probe, Reclaimed, domain
<1>6. CASE ArchiveMarker(p) BY <1>6, <1>o, <1>g, <1>h DEF ArchiveMarker, domain, reading
<1>7. CASE ArchiveLock(p) BY <1>7, <1>o, <1>g, <1>h DEF ArchiveLock, Reclaimed, domain
<1>8. CASE Acquire(p) BY <1>8, <1>o, <1>g, <1>h DEF Acquire, Abandon, domain, reading
<1>9. CASE Recover(p) BY <1>9, <1>o, <1>g, <1>h DEF Recover, Abandon, files, reading
<1>10. CASE Serve(p) BY <1>10, <1>o, <1>g, <1>h DEF Serve, Abandon, Evidence, MayMark, reading
<1>11. CASE Unmark(p) BY <1>11, <1>o, <1>g, <1>h DEF Unmark, domain, reading
<1>12. CASE Unlock(p) BY <1>12, <1>o, <1>g, <1>h DEF Unlock, reading
<1> QED
    BY <1>1, <1>2, <1>3, <1>4, <1>5, <1>6, <1>7, <1>8,
       <1>9, <1>10, <1>11, <1>12, <1>t, MainIsOneOfThese DEF Loud

(* The main task starts no work. *)
LEMMA WorksBehindGateOn ==
    ASSUME IInv, NEW p \in Proc, MainStep(p)
    PROVE  WorksBehindGate'
<1> USE LifecycleAssumption DEF WorksBehindGate, Loop
<1>t. TypeOK BY DEF IInv
<1>o. \A q \in Proc \ {p} : gate'[q] = gate[q] /\ loop'[q] = loop[q]
    BY <1>t, Others
<1>g. \A where : Go(p, where) => pc'[p] = where BY <1>t, Goes
<1>h. /\ WorksBehindGate
      /\ gate \in [Proc -> BOOLEAN] /\ loop \in [Proc -> [Loop -> LoopState]]
    BY <1>t DEF IInv, Held, TypeOK
<1>1. CASE Quiet(p) BY <1>1, <1>o, <1>g, <1>h DEF Quiet, files, reading
<1>2. CASE Ends(p)
    <2>1. \A l \in Workers : loop'[p][l] # "working"
        BY <1>2, <1>t, EndsFacts
    <2> QED BY <2>1, <1>o, <1>h
<1>3. CASE Begin(p) BY <1>3, <1>o, <1>g, <1>h DEF Begin, GuardFree, domain, reading
<1>4. CASE Read(p) BY <1>4, <1>o, <1>g, <1>h DEF Read, Reclaimed, domain
<1>5. CASE Probe(p) BY <1>5, <1>o, <1>g, <1>h DEF Probe, Reclaimed, domain
<1>6. CASE ArchiveMarker(p) BY <1>6, <1>o, <1>g, <1>h DEF ArchiveMarker, domain, reading
<1>7. CASE ArchiveLock(p) BY <1>7, <1>o, <1>g, <1>h DEF ArchiveLock, Reclaimed, domain
<1>8. CASE Acquire(p) BY <1>8, <1>o, <1>g, <1>h DEF Acquire, Abandon, domain, reading
<1>9. CASE Recover(p) BY <1>9, <1>o, <1>g, <1>h DEF Recover, Abandon, files, reading
<1>10. CASE Serve(p) BY <1>10, <1>o, <1>g, <1>h DEF Serve, Abandon, Evidence, MayMark, reading
<1>11. CASE Unmark(p) BY <1>11, <1>o, <1>g, <1>h DEF Unmark, domain, reading
<1>12. CASE Unlock(p) BY <1>12, <1>o, <1>g, <1>h DEF Unlock, reading
<1> QED
    BY <1>1, <1>2, <1>3, <1>4, <1>5, <1>6, <1>7, <1>8,
       <1>9, <1>10, <1>11, <1>12, <1>t, MainIsOneOfThese DEF Loud

(* A process leaves its served life only over drained loops. *)
LEMMA DrainedFirstOn ==
    ASSUME IInv, NEW p \in Proc, MainStep(p)
    PROVE  DrainedFirst'
<1> USE LifecycleAssumption DEF DrainedFirst, GateHeld, Gone
<1>t. TypeOK BY DEF IInv
<1>o. \A q \in Proc \ {p} : pc'[q] = pc[q] /\ gate'[q] = gate[q]
    BY <1>t, Others
<1>g. \A where : Go(p, where) => pc'[p] = where BY <1>t, Goes
<1>h. DrainedFirst /\ GateHeld /\ gate \in [Proc -> BOOLEAN]
    BY <1>t DEF IInv, Held, TypeOK
<1>l. \A q \in Proc \ {p} : AllOver(q)' = AllOver(q)
    BY <1>t, Others DEF AllOver
<1>u. UNCHANGED loop => AllOver(p)' = AllOver(p)
    BY DEF AllOver
<1>1. CASE Quiet(p) BY <1>1, <1>o, <1>g, <1>h, <1>l, <1>u DEF Quiet, files, reading
<1>2. CASE Ends(p)
    <2>1. gate'[p] = FALSE
        BY <1>2, <1>t, EndsFacts
    <2> QED BY <2>1, <1>o, <1>h, <1>l
<1>3. CASE Begin(p) BY <1>3, <1>o, <1>g, <1>h, <1>l, <1>u DEF Begin, GuardFree, domain, reading
<1>4. CASE Read(p) BY <1>4, <1>o, <1>g, <1>h, <1>l, <1>u DEF Read, Reclaimed, domain
<1>5. CASE Probe(p) BY <1>5, <1>o, <1>g, <1>h, <1>l, <1>u DEF Probe, Reclaimed, domain
<1>6. CASE ArchiveMarker(p) BY <1>6, <1>o, <1>g, <1>h, <1>l, <1>u DEF ArchiveMarker, domain, reading
<1>7. CASE ArchiveLock(p) BY <1>7, <1>o, <1>g, <1>h, <1>l, <1>u DEF ArchiveLock, Reclaimed, domain
<1>8. CASE Acquire(p) BY <1>8, <1>o, <1>g, <1>h, <1>l, <1>u DEF Acquire, Abandon, domain, reading
<1>9. CASE Recover(p) BY <1>9, <1>o, <1>g, <1>h, <1>l, <1>u DEF Recover, Abandon, files, reading
<1>10. CASE Serve(p) BY <1>10, <1>o, <1>g, <1>h, <1>l, <1>u DEF Serve, Abandon, Evidence, MayMark, reading
<1>11. CASE Unmark(p) BY <1>11, <1>o, <1>g, <1>h, <1>l, <1>u DEF Unmark, domain, reading
<1>12. CASE Unlock(p) BY <1>12, <1>o, <1>g, <1>h, <1>l, <1>u DEF Unlock, reading
<1> QED
    BY <1>1, <1>2, <1>3, <1>4, <1>5, <1>6, <1>7, <1>8,
       <1>9, <1>10, <1>11, <1>12, <1>t, MainIsOneOfThese DEF Loud

(* While files are archived in order nobody holds the instance, for the lock *)
(* is that of a process that is gone.                                       *)
LEMMA NobodyHolds ==
    ASSUME IInv, ~overtaken, NEW p \in Proc, pc[p] \in {"archiving", "locking"}
    PROVE  /\ \A q \in Proc : ~record[q]
           /\ lock \in Proc /\ pc[lock] \in Gone /\ lock = seen[p].lock
<1>1. Orderly BY DEF IInv, Held
<1>2. lock \in Proc /\ pc[lock] \in Gone /\ lock = seen[p].lock
    BY <1>1 DEF Orderly, JudgedGone
<1>3. ASSUME NEW q \in Proc, record[q] PROVE FALSE
    <2>1. lock = q
        BY <1>1, <1>3 DEF Orderly, LockKept
    <2>2. pc[q] \in Holding
        BY <1>3, HeldOf
    <2> QED BY <1>2, <2>1, <2>2 DEF Holding, Gone
<1> QED BY <1>2, <1>3

(* The marker stays where the gate is open, but for the gap. *)
LEMMA GateHeldOn ==
    ASSUME IInv, NEW p \in Proc, MainStep(p)
    PROVE  GateHeld'
<1> USE LifecycleAssumption DEF Holding, Gone, GateHeld
<1>t. TypeOK BY DEF IInv
<1>o. \A q \in Proc \ {p} : pc'[q] = pc[q] /\ record'[q] = record[q] /\ gate'[q] = gate[q]
    BY <1>t, Others
<1>g. \A where : Go(p, where) => pc'[p] = where BY <1>t, Goes
<1>h. /\ GateHeld /\ record \in [Proc -> BOOLEAN] /\ gate \in [Proc -> BOOLEAN]
      /\ lock = p /\ pc[p] # "killed" => record[p]
      /\ overtaken \in BOOLEAN
    BY <1>t, HeldOf DEF IInv, Held, TypeOK
<1>1. CASE Quiet(p) BY <1>1, <1>o, <1>g, <1>h DEF Quiet, files, reading
<1>2. CASE Ends(p) BY <1>2, <1>o, <1>g, <1>h, <1>t, EndsFacts
<1>3. CASE Begin(p) BY <1>3, <1>o, <1>g, <1>h DEF Begin, GuardFree, domain, reading
<1>4. CASE Read(p) BY <1>4, <1>o, <1>g, <1>h DEF Read, Reclaimed, domain
<1>5. CASE Probe(p) BY <1>5, <1>o, <1>g, <1>h DEF Probe, Reclaimed, domain
<1>6. CASE ArchiveMarker(p)
    <2>1. ~overtaken => \A q \in Proc : ~record[q]
        BY <1>6, NobodyHolds DEF ArchiveMarker
    <2> QED BY <1>6, <2>1, <1>o, <1>g, <1>h DEF ArchiveMarker, domain, reading
<1>7. CASE ArchiveLock(p) BY <1>7, <1>o, <1>g, <1>h DEF ArchiveLock, Reclaimed, domain
<1>8. CASE Acquire(p) BY <1>8, <1>o, <1>g, <1>h DEF Acquire, Abandon, domain, reading
<1>9. CASE Recover(p) BY <1>9, <1>o, <1>g, <1>h DEF Recover, Abandon, files, reading
<1>10. CASE Serve(p) BY <1>10, <1>o, <1>g, <1>h DEF Serve, Abandon, Evidence, MayMark, reading
<1>11. CASE Unmark(p) BY <1>11, <1>o, <1>g, <1>h DEF Unmark, domain, reading
<1>12. CASE Unlock(p) BY <1>12, <1>o, <1>g, <1>h DEF Unlock, reading
<1> QED
    BY <1>1, <1>2, <1>3, <1>4, <1>5, <1>6, <1>7, <1>8,
       <1>9, <1>10, <1>11, <1>12, <1>t, MainIsOneOfThese DEF Loud

-----------------------------------------------------------------------------
(* What holds until a reclaimer judges by an outdated reading.             *)

(* The lock of a process that believes to hold it is not taken away. *)
LEMMA LockKeptOn ==
    ASSUME IInv, NEW p \in Proc, MainStep(p), ~overtaken, ~overtaken'
    PROVE  LockKept'
<1> USE LifecycleAssumption DEF LockKept
<1>t. TypeOK BY DEF IInv
<1>o. \A q \in Proc \ {p} : record'[q] = record[q]
    BY <1>t, Others
<1>g. \A where : Go(p, where) => pc'[p] = where BY <1>t, Goes
<1>h. LockKept /\ record \in [Proc -> BOOLEAN]
    BY <1>t DEF IInv, Held, Orderly, TypeOK
<1>1. CASE Quiet(p) BY <1>1, <1>o, <1>g, <1>h DEF Quiet, files, reading
<1>2. CASE Ends(p) BY <1>2, <1>o, <1>g, <1>h, <1>t, EndsFacts
<1>3. CASE Begin(p) BY <1>3, <1>o, <1>g, <1>h DEF Begin, GuardFree, domain, reading
<1>4. CASE Read(p) BY <1>4, <1>o, <1>g, <1>h DEF Read, Reclaimed, domain
<1>5. CASE Probe(p) BY <1>5, <1>o, <1>g, <1>h DEF Probe, Reclaimed, domain
<1>6. CASE ArchiveMarker(p) BY <1>6, <1>o, <1>g, <1>h DEF ArchiveMarker, domain, reading
<1>7. CASE ArchiveLock(p)
    <2>1. \A q \in Proc : ~record[q]
        BY <1>7, NobodyHolds DEF ArchiveLock
    <2> QED BY <1>7, <2>1 DEF ArchiveLock, domain
<1>8. CASE Acquire(p) BY <1>8, <1>o, <1>g, <1>h DEF Acquire, Abandon, domain, reading
<1>9. CASE Recover(p) BY <1>9, <1>o, <1>g, <1>h DEF Recover, Abandon, files, reading
<1>10. CASE Serve(p) BY <1>10, <1>o, <1>g, <1>h DEF Serve, Abandon, Evidence, MayMark, reading
<1>11. CASE Unmark(p) BY <1>11, <1>o, <1>g, <1>h DEF Unmark, domain, reading
<1>12. CASE Unlock(p) BY <1>12, <1>o, <1>g, <1>h DEF Unlock, reading
<1> QED
    BY <1>1, <1>2, <1>3, <1>4, <1>5, <1>6, <1>7, <1>8,
       <1>9, <1>10, <1>11, <1>12, <1>t, MainIsOneOfThese DEF Loud

(* A marker goes before its lock, by whoever removes them. *)
LEMMA MarkerBackedOn ==
    ASSUME IInv, NEW p \in Proc, MainStep(p), ~overtaken, ~overtaken'
    PROVE  MarkerBacked'
<1> USE LifecycleAssumption DEF MarkerBacked, Marking
<1>t. TypeOK BY DEF IInv
<1>o. \A q \in Proc \ {p} : pc'[q] = pc[q]
    BY <1>t, Others
<1>g. \A where : Go(p, where) => pc'[p] = where BY <1>t, Goes
<1>h. /\ MarkerBacked /\ MarkerFirst
      /\ marker = p => pc[p] \in Marking \cup {"killed"}
    BY <1>t, HeldOf DEF IInv, Held, Orderly
<1>m. pc[p] = "locking" => marker = Nobody
    BY <1>h DEF MarkerFirst
<1>1. CASE Quiet(p) BY <1>1, <1>o, <1>g, <1>h, <1>m DEF Quiet, files, reading
<1>2. CASE Ends(p) BY <1>2, <1>o, <1>g, <1>h, <1>m, <1>t, EndsFacts
<1>3. CASE Begin(p) BY <1>3, <1>o, <1>g, <1>h, <1>m DEF Begin, GuardFree, domain, reading
<1>4. CASE Read(p) BY <1>4, <1>o, <1>g, <1>h, <1>m DEF Read, Reclaimed, domain
<1>5. CASE Probe(p) BY <1>5, <1>o, <1>g, <1>h, <1>m DEF Probe, Reclaimed, domain
<1>6. CASE ArchiveMarker(p) BY <1>6, <1>o, <1>g, <1>h, <1>m DEF ArchiveMarker, domain, reading
<1>7. CASE ArchiveLock(p) BY <1>7, <1>o, <1>g, <1>h, <1>m DEF ArchiveLock, Reclaimed, domain
<1>8. CASE Acquire(p) BY <1>8, <1>o, <1>g, <1>h, <1>m DEF Acquire, Abandon, domain, reading
<1>9. CASE Recover(p) BY <1>9, <1>o, <1>g, <1>h, <1>m DEF Recover, Abandon, files, reading
<1>10. CASE Serve(p) BY <1>10, <1>o, <1>g, <1>h, <1>m DEF Serve, Abandon, Evidence, MayMark, reading
<1>11. CASE Unmark(p) BY <1>11, <1>o, <1>g, <1>h, <1>m DEF Unmark, domain, reading
<1>12. CASE Unlock(p) BY <1>12, <1>o, <1>g, <1>h, <1>m DEF Unlock, reading
<1> QED
    BY <1>1, <1>2, <1>3, <1>4, <1>5, <1>6, <1>7, <1>8,
       <1>9, <1>10, <1>11, <1>12, <1>t, MainIsOneOfThese DEF Loud

(* What a reclaimer goes on to judge is a lock. *)
LEMMA LockReadOn ==
    ASSUME IInv, NEW p \in Proc, MainStep(p), ~overtaken, ~overtaken'
    PROVE  LockRead'
<1> USE LifecycleAssumption DEF LockRead, Gone
<1>t. TypeOK BY DEF IInv
<1>o. \A q \in Proc \ {p} : pc'[q] = pc[q] /\ seen'[q] = seen[q]
    BY <1>t, Others
<1>g. \A where : Go(p, where) => pc'[p] = where BY <1>t, Goes
<1>h. LockRead /\ MarkerBacked
    BY <1>t DEF IInv, Held, Orderly
<1>1. CASE Quiet(p) BY <1>1, <1>o, <1>g, <1>h DEF Quiet, files, reading
<1>2. CASE Ends(p)
    <2>1. pc'[p] \in Gone
        BY <1>2, <1>t, EndsFacts
    <2> QED BY <2>1, <1>o, <1>h
<1>3. CASE Begin(p) BY <1>3, <1>o, <1>g, <1>h DEF Begin, GuardFree, domain, reading
<1>4. CASE Read(p)
    <2>1. CASE pc'[p] = "probing"
        <3>1. /\ seen' = [seen EXCEPT ![p] = [lock |-> lock, marker |-> marker]]
              /\ ~(lock = Nobody /\ marker = Nobody)
            BY <1>4, <2>1, <1>g DEF Read, Reclaimed
        <3>2. seen'[p].lock = lock
            BY <3>1, <1>t DEF TypeOK
        <3>3. lock # Nobody
            BY <3>1, <1>h DEF MarkerBacked
        <3> QED BY <2>1, <3>2, <3>3, <1>o, <1>h
    <2>2. CASE pc'[p] \in {"over", "logging in"}
        BY <2>2, <1>o, <1>h
    <2> QED BY <1>4, <2>1, <2>2, <1>g DEF Read, Reclaimed
<1>5. CASE Probe(p) BY <1>5, <1>o, <1>g, <1>h DEF Probe, Reclaimed, domain
<1>6. CASE ArchiveMarker(p) BY <1>6, <1>o, <1>g, <1>h DEF ArchiveMarker, domain, reading
<1>7. CASE ArchiveLock(p) BY <1>7, <1>o, <1>g, <1>h DEF ArchiveLock, Reclaimed, domain
<1>8. CASE Acquire(p) BY <1>8, <1>o, <1>g, <1>h DEF Acquire, Abandon, domain, reading
<1>9. CASE Recover(p) BY <1>9, <1>o, <1>g, <1>h DEF Recover, Abandon, files, reading
<1>10. CASE Serve(p) BY <1>10, <1>o, <1>g, <1>h DEF Serve, Abandon, Evidence, MayMark, reading
<1>11. CASE Unmark(p) BY <1>11, <1>o, <1>g, <1>h DEF Unmark, domain, reading
<1>12. CASE Unlock(p) BY <1>12, <1>o, <1>g, <1>h DEF Unlock, reading
<1> QED
    BY <1>1, <1>2, <1>3, <1>4, <1>5, <1>6, <1>7, <1>8,
       <1>9, <1>10, <1>11, <1>12, <1>t, MainIsOneOfThese DEF Loud

(* While another archives, p does nothing to the two files: it does not      *)
(* reclaim beside the guard, there is no room to acquire, and it does not    *)
(* hold the lock.                                                           *)
LEMMA ArchivedAlone ==
    ASSUME IInv, NEW p \in Proc, MainStep(p), ~overtaken,
           NEW r \in Proc \ {p}, pc[r] \in {"archiving", "locking"}
    PROVE  /\ UNCHANGED lock
           /\ marker' \in {marker, Nobody}
           /\ lock # p
<1>t. TypeOK BY DEF IInv
<1>1. /\ lock \in Proc /\ pc[lock] \in Gone
      /\ \A q \in Proc : ~record[q]
    BY NobodyHolds
<1>2. guard = r /\ pc[p] \notin Reclaiming
    BY HeldOf DEF Reclaiming
<1>3. lock # Nobody
    BY <1>1, LifecycleAssumption
<1>4. pc[p] \notin Gone
    <2>1. CASE Quiet(p) BY <2>1 DEF Quiet, Gone
    <2>2. CASE Ends(p) BY <1>t, <2>2, EndsFacts
    <2>3. CASE Loud(p)
        BY <2>3 DEF Loud, Begin, Read, Probe, ArchiveMarker, ArchiveLock, Acquire, Recover, Serve,
                    Unmark, Unlock, Gone
    <2> QED BY <1>t, <2>1, <2>2, <2>3, MainIsOneOfThese
<1>5. lock # p
    BY <1>1, <1>4
<1>6. CASE Quiet(p) BY <1>5, <1>6 DEF Quiet, files
<1>7. CASE Ends(p) BY <1>5, <1>7 DEF Ends, files
<1>8. CASE Begin(p) BY <1>5, <1>8 DEF Begin
<1>9. CASE Read(p) \/ Probe(p) \/ ArchiveMarker(p) \/ ArchiveLock(p)
    BY <1>2, <1>9 DEF Read, Probe, ArchiveMarker, ArchiveLock, Reclaiming
<1>10. CASE Acquire(p) BY <1>3, <1>5, <1>10 DEF Acquire
<1>11. CASE Recover(p) BY <1>5, <1>11 DEF Recover, files
<1>12. CASE Serve(p) BY <1>5, <1>12 DEF Serve, Evidence, MayMark
<1>13. CASE Unmark(p) BY <1>5, <1>13 DEF Unmark
<1>14. CASE Unlock(p) BY <1>5, <1>14 DEF Unlock
<1> QED
    BY <1>6, <1>7, <1>8, <1>9, <1>10, <1>11, <1>12, <1>13, <1>14, <1>t, MainIsOneOfThese
    DEF Loud

(* How a process comes to archive: by a probe of the lock as it still is,   *)
(* or from the marker to the lock.                                          *)
LEMMA ComesToArchive ==
    ASSUME TypeOK, NEW p \in Proc, MainStep(p), pc'[p] \in {"archiving", "locking"}
    PROVE  Probe(p) \/ ArchiveMarker(p)
<1>g. \A where : Go(p, where) => pc'[p] = where BY Goes
<1>1. ~Quiet(p) BY <1>g DEF Quiet
<1>2. ~Ends(p) BY EndsFacts DEF Gone
<1>3. ~Begin(p) BY <1>g DEF Begin
<1>4. ~Read(p) BY <1>g DEF Read, Reclaimed
<1>5. ~ArchiveLock(p) BY <1>g DEF ArchiveLock, Reclaimed
<1>6. ~Acquire(p) BY <1>g DEF Acquire, Abandon
<1>7. ~Recover(p) BY <1>g DEF Recover, Abandon
<1>8. ~Serve(p) BY <1>g DEF Serve, Abandon
<1>9. ~Unmark(p) /\ ~Unlock(p) BY <1>g DEF Unmark, Unlock
<1> QED
    BY <1>1, <1>2, <1>3, <1>4, <1>5, <1>6, <1>7, <1>8, <1>9, MainIsOneOfThese DEF Loud

(* The lock that is archived is that of a process that is gone: it was so   *)
(* when it was probed, and nobody puts another in its place.                *)
LEMMA JudgedGoneOn ==
    ASSUME IInv, NEW p \in Proc, MainStep(p), ~overtaken, ~overtaken'
    PROVE  JudgedGone'
<1>t. TypeOK BY DEF IInv
<1>o. \A q \in Proc \ {p} : pc'[q] = pc[q] /\ seen'[q] = seen[q]
    BY <1>t, Others
<1>h. Orderly BY DEF IInv, Held
<1>1. ASSUME NEW r \in Proc \ {p}, pc'[r] \in {"archiving", "locking"}
      PROVE  lock' = seen'[r].lock /\ lock' \in Proc /\ pc'[lock'] \in Gone
    <2>1. pc[r] \in {"archiving", "locking"}
        BY <1>1, <1>o
    <2>2. lock = seen[r].lock /\ lock \in Proc /\ pc[lock] \in Gone
        BY <2>1, NobodyHolds
    <2>3. UNCHANGED lock /\ lock # p
        BY <2>1, ArchivedAlone
    <2> QED BY <2>2, <2>3, <1>o
<1>2. ASSUME pc'[p] \in {"archiving", "locking"}
      PROVE  lock' = seen'[p].lock /\ lock' \in Proc /\ pc'[lock'] \in Gone
    <2>1. CASE Probe(p)
        <3>0. pc[p] = "probing" /\ ~Reclaimed(p, "over") /\ ~Reclaimed(p, "logging in")
            BY <1>2, <2>1, <1>t, Goes DEF Probe, Reclaimed
        <3>1. /\ UNCHANGED <<lock, seen>>
              /\ ~Outdated(p)
              /\ seen[p].lock # Nobody => ~Runs(seen[p].lock)
            BY <2>1, <3>0 DEF Probe
        <3>2. seen[p].lock # Nobody
            BY <1>h, <3>0 DEF Orderly, LockRead
        <3>3. lock = seen[p].lock /\ lock \in Proc
            BY <3>1, <3>2, <1>t DEF Outdated, TypeOK, Owner
        <3>4. pc[lock] \in {"off"} \cup Gone
            BY <3>1, <3>2, <3>3 DEF Runs
        <3>5. pc[lock] \in Gone
            BY <3>3, <3>4, HeldOf DEF Holding
        <3>6. lock # p
            BY <3>0, <3>5 DEF Gone
        <3> QED BY <3>1, <3>3, <3>5, <3>6, <1>o
    <2>2. CASE ArchiveMarker(p)
        <3>1. pc[p] = "archiving" /\ UNCHANGED <<lock, seen>>
            BY <2>2 DEF ArchiveMarker, reading
        <3>2. lock = seen[p].lock /\ lock \in Proc /\ pc[lock] \in Gone
            BY <3>1, NobodyHolds
        <3>3. lock # p
            BY <3>1, <3>2 DEF Gone
        <3> QED BY <3>1, <3>2, <3>3, <1>o
    <2> QED BY <1>2, <2>1, <2>2, <1>t, ComesToArchive
<1> QED BY <1>1, <1>2 DEF JudgedGone

(* Its marker was archived before it, and nobody has put another there.     *)
LEMMA MarkerFirstOn ==
    ASSUME IInv, NEW p \in Proc, MainStep(p), ~overtaken
    PROVE  MarkerFirst'
<1>t. TypeOK BY DEF IInv
<1>o. \A q \in Proc \ {p} : pc'[q] = pc[q]
    BY <1>t, Others
<1>h. MarkerFirst BY DEF IInv, Held, Orderly
<1>1. ASSUME NEW r \in Proc \ {p}, pc'[r] = "locking"
      PROVE  marker' = Nobody
    BY <1>1, <1>o, <1>h, ArchivedAlone DEF MarkerFirst
<1>2. ASSUME pc'[p] = "locking"
      PROVE  marker' = Nobody
    <2>1. ~Probe(p)
        BY <1>2, <1>t, Goes DEF Probe, Reclaimed
    <2>2. ArchiveMarker(p)
        BY <1>2, <2>1, <1>t, ComesToArchive
    <2> QED BY <2>2 DEF ArchiveMarker
<1> QED BY <1>1, <1>2 DEF MarkerFirst

LEMMA MainHeld ==
    ASSUME IInv, NEW p \in Proc, MainStep(p)
    PROVE  Held'
<1>1. ASSUME ~overtaken' PROVE Orderly'
    <2>1. ~overtaken
        <3>1. CASE Probe(p) BY <1>1, <3>1 DEF Probe
        <3>2. CASE ~Probe(p)
            BY <1>1, <3>2, MainIsOneOfThese
            DEF IInv, Loud, Quiet, Ends, Begin, Read, ArchiveMarker, ArchiveLock, Acquire, Recover,
                Serve, Unmark, Unlock, reading
        <3> QED BY <3>1, <3>2
    <2> QED
        BY <1>1, <2>1, LockKeptOn, MarkerBackedOn, LockReadOn, JudgedGoneOn, MarkerFirstOn
        DEF Orderly
<1> QED
    BY <1>1, GuardHeldOn, RecordHeldOn, MarkerHeldOn, GateHeldOn, DrainedFirstOn, WorksBehindGateOn
    DEF Held

-----------------------------------------------------------------------------
LoopStep(p) ==
    \/ Stream(p)
    \/ \E l \in Workers : Worker(p, l)
    \/ \E l \in Loop : Cancelled(p, l)

(* A step of a loop moves that loop alone, from a state that is not its     *)
(* last, and to work only behind the gate.                                 *)
LEMMA OneLoopMoves ==
    ASSUME NEW p \in Proc, LoopStep(p)
    PROVE  /\ \E l \in Loop, where \in LoopState :
                /\ loop[p][l] # "over"
                /\ Move(p, l, where)
                /\ where = "working" => gate[p]
           /\ UNCHANGED <<lock, marker, guard, pc, record, reading, gate>>
<1> USE DEF LoopState
<1>1. CASE Stream(p)
    <2>1. "ws" \in Loop BY DEF Loop
    <2>2. \A from, where : WsStep(p, from, where) =>
            /\ loop[p]["ws"] = from /\ Move(p, "ws", where)
            /\ UNCHANGED <<lock, marker, guard, pc, record, reading, gate>>
        BY DEF WsStep, files
    <2>3. \E from \in {"connecting", "up", "waiting", "handling"},
             where \in {"up", "waiting", "connecting", "over", "handling"} : WsStep(p, from, where)
        BY <1>1 DEF Stream, Connect, Disconnect, Reconnect, StreamBreaks, StreamEnds, Receive,
                    Handled
    <2> QED BY <2>1, <2>2, <2>3
<1>2. ASSUME NEW l \in Workers, Worker(p, l)
      PROVE  /\ \E where \in LoopState :
                  /\ loop[p][l] # "over"
                  /\ Move(p, l, where)
                  /\ where = "working" => gate[p]
             /\ UNCHANGED <<lock, marker, guard, pc, record, reading, gate>>
    <2>1. \A from, where : WorkerStep(p, l, from, where) =>
            /\ loop[p][l] = from /\ Move(p, l, where)
            /\ UNCHANGED <<lock, marker, guard, pc, record, reading, gate>>
        BY DEF WorkerStep, files
    <2>2. CASE Work(p, l)
        BY <2>1, <2>2 DEF Work
    <2>3. CASE FirstPass(p, l) \/ Worked(p, l) \/ WorkerFails(p, l)
        <3>1. \E from \in {"fresh", "working"}, where \in {"idle", "over"} :
                WorkerStep(p, l, from, where)
            BY <2>3 DEF FirstPass, Worked, WorkerFails
        <3> QED BY <2>1, <3>1
    <2> QED BY <1>2, <2>2, <2>3 DEF Worker
<1>3. ASSUME NEW l \in Loop, Cancelled(p, l)
      PROVE  /\ loop[p][l] # "over" /\ Move(p, l, "over")
             /\ UNCHANGED <<lock, marker, guard, pc, record, reading, gate>>
    BY <1>3 DEF Cancelled, files
<1>4. Workers \subseteq Loop
    BY DEF Loop
<1> QED BY <1>1, <1>2, <1>3, <1>4 DEF LoopStep

LEMMA LoopHeld ==
    ASSUME IInv, NEW p \in Proc, LoopStep(p)
    PROVE  Held'
<1>1. TypeOK /\ Held
    BY DEF IInv
<1>2. UNCHANGED <<lock, marker, guard, pc, record, seen, overtaken, gate>>
    BY OneLoopMoves DEF reading
<1>3. PICK l \in Loop, where \in LoopState :
        loop[p][l] # "over" /\ Move(p, l, where) /\ (where = "working" => gate[p])
    BY OneLoopMoves
<1>4. /\ \A q \in Proc \ {p} : loop'[q] = loop[q]
      /\ \A m \in Loop \ {l} : loop'[p][m] = loop[p][m]
      /\ loop'[p][l] = where
    BY <1>1, <1>3 DEF TypeOK, Move
<1>5. GuardHeld' /\ RecordHeld' /\ MarkerHeld' /\ GateHeld'
    BY <1>1, <1>2 DEF Held, GuardHeld, RecordHeld, MarkerHeld, GateHeld
<1>6. ~overtaken' => Orderly'
    BY <1>1, <1>2 DEF Held, Orderly, LockKept, MarkerBacked, LockRead, JudgedGone, MarkerFirst
<1>7. DrainedFirst'
    <2>1. ~AllOver(p)
        BY <1>3 DEF AllOver
    <2>2. \A q \in Proc \ {p} : AllOver(q)' = AllOver(q)
        BY <1>4 DEF AllOver
    <2> QED BY <1>1, <1>2, <2>1, <2>2 DEF Held, DrainedFirst
<1>8. WorksBehindGate'
    BY <1>1, <1>2, <1>3, <1>4 DEF Held, WorksBehindGate, Loop
<1> QED BY <1>5, <1>6, <1>7, <1>8 DEF Held

LEMMA NextHeld == IInv /\ [Next]_vars => IInv'
<1> SUFFICES ASSUME IInv, [Next]_vars PROVE IInv'
    OBVIOUS
<1>1. TypeOK' /\ Places'
    BY NextTyped, NextPlaced DEF IInv
<1>2. CASE Next
    <2>1. \E p \in Proc : MainStep(p) \/ LoopStep(p)
        BY <1>2 DEF Next, MainStep, LoopStep
    <2> QED BY <1>1, <2>1, MainHeld, LoopHeld DEF IInv
<1>3. CASE UNCHANGED vars
    <2>1. UNCHANGED <<lock, marker, guard, pc, record, seen, overtaken, gate, loop>>
        BY <1>3 DEF vars, files, reading, domain
    <2>2. GuardHeld' /\ RecordHeld' /\ MarkerHeld' /\ GateHeld' /\ DrainedFirst' /\ WorksBehindGate'
        BY <2>1 DEF IInv, Held, GuardHeld, RecordHeld, MarkerHeld, GateHeld, DrainedFirst, AllOver,
                    WorksBehindGate
    <2>3. ~overtaken' => Orderly'
        BY <2>1 DEF IInv, Held, Orderly, LockKept, MarkerBacked, LockRead, JudgedGone, MarkerFirst
    <2> QED BY <1>1, <2>2, <2>3 DEF IInv, Held
<1> QED BY <1>2, <1>3

LEMMA HeldAlways == Spec => []IInv
<1>1. Init => IInv
    BY InitTyped, InitPlaced, InitHeld DEF IInv
<1>2. IInv /\ [Next]_vars => IInv'
    BY NextHeld
<1> QED BY <1>1, <1>2, PTL DEF Spec

-----------------------------------------------------------------------------
(* However many processes are started on one directory, over nothing, over  *)
(* the files of a killed one or beside one that stops, and wherever each is *)
(* killed or interrupted: who believes to hold the instance has the lock    *)
(* file, so it is the only one.  The sole premise is in the property: no    *)
(* reclaimer has probed after the lock it had read was given up.            *)
THEOREM Alone == Spec => []OneInstance
<1>1. IInv => OneInstance
    BY DEF IInv, Held, Orderly, LockKept, OneInstance
<1> QED BY <1>1, HeldAlways, PTL

(* The READY marker of a process that runs is never there without its       *)
(* record and its open gate, nor, but for that gap, without its lock.       *)
THEOREM ReadyTold == Spec => []ReadyIsTrue
<1>1. ASSUME IInv, NEW p \in Proc, marker = p, Runs(p)
      PROVE  record[p] /\ gate[p] /\ (lock = p \/ overtaken)
    <2>1. pc[p] # "killed"
        BY <1>1 DEF Runs, Gone
    <2>2. record[p] /\ gate[p]
        BY <1>1, <2>1, HeldOf
    <2>3. overtaken \/ lock = p
        BY <1>1, <2>2 DEF IInv, Held, Orderly, LockKept
    <2> QED BY <2>2, <2>3
<1>2. IInv => ReadyIsTrue
    BY <1>1 DEF ReadyIsTrue
<1> QED BY <1>2, HeldAlways, PTL

(* Background work is done only by a process that believes to hold the      *)
(* instance, and but for that gap under its marker and its lock: the gate   *)
(* opens after the marker is written, and no process leaves its served life *)
(* before its loops are over.                                               *)
THEOREM WorkCovered == Spec => []WorkUnderReady
<1>1. ASSUME IInv, NEW p \in Proc, NEW l \in Workers, loop[p][l] = "working"
      PROVE  record[p] /\ ((marker = p /\ lock = p) \/ overtaken)
    <2>1. gate[p] /\ ~AllOver(p)
        BY <1>1 DEF IInv, Held, WorksBehindGate, AllOver, Loop
    <2>2. record[p] /\ (marker = p \/ overtaken)
        BY <1>1, <2>1, HeldOf DEF IInv, Held, DrainedFirst
    <2>3. overtaken \/ lock = p
        BY <1>1, <2>2 DEF IInv, Held, Orderly, LockKept
    <2> QED BY <2>2, <2>3
<1>2. IInv => WorkUnderReady
    BY <1>1 DEF WorkUnderReady
<1> QED BY <1>2, HeldAlways, PTL

=============================================================================

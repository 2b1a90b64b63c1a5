------------------------------ MODULE Lifecycle ------------------------------
(***************************************************************************)
(* The life of the process: start_stack.py, ProductionRuntime (runtime.py), *)
(* ReadinessCoordinator with its lock, marker and guard files              *)
(* (readiness.py), and the three loops of RuntimeSupervisor                *)
(* (supervisor.py).                                                        *)
(*                                                                         *)
(* Several processes may be started on one directory.  A step is one       *)
(* operation on a shared file or the database, or what a task of one       *)
(* process does between two awaits.                                        *)
(***************************************************************************)
EXTENDS Naturals, FiniteSets

CONSTANTS
    Proc,         \* the processes ever started on this directory
    Old,          \* the last of them before the history begins
    Nobody,       \* a file that does not exist
    Workers,      \* the loops beside the WebSocket: memory and initiative
    MaxBackoff    \* reconnect_max_seconds, in units of the initial delay

ASSUME LifecycleAssumption ==
    /\ Old \in Proc
    /\ Nobody \notin Proc
    /\ "ws" \notin Workers
    /\ MaxBackoff \in Nat \ {0}

VARIABLES
    lock,         \* the process the lock file names
    marker,       \* the process the READY marker names
    guard,        \* the process that made the recovery guard file
    unfinished,   \* an inbound row is received beyond the watermark
    pc,           \* where the main task of each process is
    seen,         \* lock and marker as a reclaiming process read them
    overtaken,    \* a reclaimer has judged a lock by an outdated reading (history)
    record,       \* InstanceLock.record: believes it holds the lock
    loop,         \* the state of each loop of the supervisor
    ready,        \* _ready_event
    failure,      \* _failure
    halting,      \* _stop_event, and the loops are cancelled
    gate,         \* _semantic_gate
    backoff       \* the next reconnect delay

files == <<lock, marker, guard>>
domain == <<loop, ready, failure, halting, gate, backoff>>
reading == <<seen, overtaken>>
vars == <<files, unfinished, pc, reading, record, domain>>

Owner == Proc \cup {Nobody}
Loop == {"ws"} \cup Workers
Gone == {"over", "killed"}
Reclaiming == {"reading", "probing", "archiving", "locking"}
At == Reclaiming \cup Gone \cup
    {"off", "logging in", "acquiring", "recovering", "starting", "serving", "draining",
     "unmarking", "unlocking", "closing"}
LoopState == {"off", "connecting", "up", "handling", "waiting", "fresh", "idle", "working", "over"}

Nothing == [lock |-> Nobody, marker |-> Nobody]

(* The process before has ended, or it was killed and left its files, or it *)
(* is just stopping: its loops are drained, its files still to be removed. *)
Before(where) == pc = [p \in Proc |-> IF p = Old THEN where ELSE "off"]
Stopping == [p \in Proc |-> pc[p] = "unmarking"]

Init ==
    /\ \/ Before("over") /\ lock = Nobody /\ marker = Nobody
       \/ Before("killed") /\ lock = Old /\ marker \in {Old, Nobody}
       \/ Before("unmarking") /\ lock = Old /\ marker = Old
    /\ guard = Nobody
    /\ unfinished \in BOOLEAN
    /\ seen = [p \in Proc |-> Nothing]
    /\ overtaken = FALSE
    /\ record = Stopping
    /\ loop = [p \in Proc |-> [l \in Loop |-> IF p = Old THEN "over" ELSE "off"]]
    /\ ready = Stopping
    /\ failure = [p \in Proc |-> FALSE]
    /\ halting = Stopping
    /\ gate = Stopping
    /\ backoff = [p \in Proc |-> 1]

Go(p, where) == pc' = [pc EXCEPT ![p] = where]

-----------------------------------------------------------------------------
(* Decisions of the code, named, and the slips the properties are tried    *)
(* against.                                                                *)

(* runtime_process_probe: the process that left the evidence still runs. *)
Runs(p) == p \in Proc /\ pc[p] \notin {"off"} \cup Gone

(* The guard file is created with O_EXCL. *)
GuardIgnored == TRUE
GuardFree == guard = Nobody

(* connection_id: the forward WebSocket is handshaken. *)
Connected(p) == loop[p]["ws"] \in {"up", "handling"}

(* LoopStatus.alive and recovered of a worker. *)
WorkerReady(p, l) == loop[p][l] \in {"idle", "working"}

(* write_ready_marker: over the own lock, and over no other's marker. *)
MayMark(p) == lock = p /\ marker \in {Nobody, p}

(* Everything ReadinessCoordinator.start asks for before it writes. *)
Evidence(p) ==
    /\ Connected(p)
    /\ ~unfinished
    /\ \A l \in Workers : WorkerReady(p, l)
    /\ MayMark(p)

(* A start that fails goes through ProductionRuntime.stop. *)
AbandonAtOnce(p) == Go(p, "over")
Abandon(p) == Go(p, "unmarking")

(* _record_failure: the first error is kept, and every loop is cancelled. *)
FailAlone(p) ==
    /\ failure' = [failure EXCEPT ![p] = TRUE]
    /\ UNCHANGED halting
Fail(p) ==
    /\ failure' = [failure EXCEPT ![p] = TRUE]
    /\ halting' = [halting EXCEPT ![p] = TRUE]

(* The delay doubles up to its maximum, and nothing resets it. *)
Doubled(p) == IF 2 * backoff[p] > MaxBackoff THEN MaxBackoff ELSE 2 * backoff[p]

(* The loop of p moves; ready latches once all loops are alive together. *)
Move(p, l, where) == loop' = [loop EXCEPT ![p][l] = where]
Latch(p) ==
    ready' = [ready EXCEPT ![p] =
        @ \/ /\ loop'[p]["ws"] \in {"up", "handling"}
             /\ \A l \in Workers : loop'[p][l] \in {"idle", "working"}]

-----------------------------------------------------------------------------
(* reclaim_stale_runtime_artifacts *)

(* No files, nothing to reclaim; or a guard file of our own; or somebody's *)
(* guard file, and the start is refused.                                   *)
Begin(p) ==
    /\ pc[p] = "off"
    /\ IF lock = Nobody /\ marker = Nobody
         THEN Go(p, "logging in") /\ UNCHANGED guard
         ELSE IF GuardFree
                THEN Go(p, "reading") /\ guard' = p
                ELSE Go(p, "over") /\ UNCHANGED guard
    /\ UNCHANGED <<lock, marker, unfinished, reading, record, domain>>

(* The guard file is removed in a finally block, however reclaiming ends. *)
Reclaimed(p, where) ==
    /\ Go(p, where)
    /\ guard' = IF guard = p THEN Nobody ELSE guard
    /\ seen' = [seen EXCEPT ![p] = Nothing]

Read(p) ==
    /\ pc[p] = "reading"
    /\ LET both == lock # Nobody /\ marker # Nobody IN
         IF both /\ lock # marker
           THEN Reclaimed(p, "over")              \* marker/lock mismatch
           ELSE IF lock = Nobody /\ marker = Nobody
                  THEN Reclaimed(p, "logging in")
                  ELSE /\ Go(p, "probing")
                       /\ seen' = [seen EXCEPT ![p] = [lock |-> lock, marker |-> marker]]
                       /\ UNCHANGED guard
    /\ UNCHANGED <<lock, marker, unfinished, overtaken, record, domain>>

(* The owner gave its lock up by itself since it was read. *)
Outdated(p) == lock # seen[p].lock

(* Evidence of a live process is left alone; if it is incomplete, the      *)
(* other process is starting or stopping and this start is refused.        *)
Probe(p) ==
    /\ pc[p] = "probing"
    /\ LET evidence == IF seen[p].lock # Nobody THEN seen[p].lock ELSE seen[p].marker IN
         IF Runs(evidence)
           THEN /\ Reclaimed(p, IF Nobody \in {seen[p].lock, seen[p].marker}
                                  THEN "over" ELSE "logging in")
                /\ UNCHANGED overtaken
           ELSE /\ Go(p, "archiving")
                /\ overtaken' = (overtaken \/ Outdated(p))
                /\ UNCHANGED <<guard, seen>>
    /\ UNCHANGED <<lock, marker, unfinished, record, domain>>

(* Whatever is at the two paths by now is renamed, marker first. *)
ArchiveMarker(p) ==
    /\ pc[p] = "archiving"
    /\ marker' = Nobody
    /\ Go(p, "locking")
    /\ UNCHANGED <<lock, guard, unfinished, reading, record, domain>>

ArchiveLock(p) ==
    /\ pc[p] = "locking"
    /\ lock' = Nobody
    /\ Reclaimed(p, "logging in")
    /\ UNCHANGED <<marker, unfinished, overtaken, record, domain>>

-----------------------------------------------------------------------------
(* ProductionRuntime.start *)

(* get_login_info and the assembly of the runtime, before the lock. *)
LogIn(p) ==
    /\ pc[p] = "logging in"
    /\ Go(p, "acquiring") \/ Go(p, "over")
    /\ UNCHANGED <<files, unfinished, reading, record, domain>>

(* InstanceLock.acquire creates the lock file with O_EXCL. *)
Acquire(p) ==
    /\ pc[p] = "acquiring"
    /\ IF lock = Nobody
         THEN /\ lock' = p
              /\ record' = [record EXCEPT ![p] = TRUE]
              /\ Go(p, "recovering")
         ELSE Abandon(p) /\ UNCHANGED <<lock, record>>
    /\ UNCHANGED <<marker, guard, unfinished, reading, domain>>

(* recover_database and bootstrap_existing_events, then the three loops. *)
Recover(p) ==
    /\ pc[p] = "recovering"
    /\ IF unfinished
         THEN Abandon(p) /\ UNCHANGED loop
         ELSE /\ Go(p, "starting")
              /\ loop' = [loop EXCEPT ![p] =
                    [l \in Loop |-> IF l = "ws" THEN "connecting" ELSE "fresh"]]
    /\ UNCHANGED <<files, unfinished, reading, record, ready, failure, halting, gate, backoff>>

(* supervisor.start returned: the handshake evidence is asked for again,    *)
(* ReadinessCoordinator.start reads everything afresh and writes the        *)
(* marker, and the gate opens.  Nothing of this process runs in between.    *)
Serve(p) ==
    /\ pc[p] = "starting"
    /\ ready[p] /\ ~failure[p]
    /\ IF Evidence(p)
         THEN /\ marker' = p
              /\ gate' = [gate EXCEPT ![p] = TRUE]
              /\ Go(p, "serving")
         ELSE Abandon(p) /\ UNCHANGED <<marker, gate>>
    /\ UNCHANGED <<lock, guard, unfinished, reading, record, loop, ready, failure, halting, backoff>>

(* A loop failed during startup: supervisor.start stops the others first. *)
StartFails(p) ==
    /\ pc[p] = "starting"
    /\ failure[p]
    /\ Go(p, "draining")
    /\ halting' = [halting EXCEPT ![p] = TRUE]
    /\ UNCHANGED <<files, unfinished, reading, record, loop, ready, failure, gate, backoff>>

(* startup_timeout_seconds. *)
StartNeverTimesOut(p) == FALSE
StartTimesOut(p) ==
    /\ pc[p] = "starting"
    /\ ~ready[p] /\ ~failure[p]
    /\ Go(p, "draining")
    /\ Fail(p)
    /\ UNCHANGED <<files, unfinished, reading, record, loop, ready, gate, backoff>>

-----------------------------------------------------------------------------
(* RuntimeSupervisor.wait and ProductionRuntime.stop *)

(* wait() is woken by the stop event and drains the loops. *)
WakeAndUnmark(p) ==
    /\ pc[p] = "serving"
    /\ halting[p]
    /\ Go(p, "unmarking")
    /\ UNCHANGED <<files, unfinished, reading, record, domain>>
Wake(p) ==
    /\ pc[p] = "serving"
    /\ halting[p]
    /\ Go(p, "draining")
    /\ UNCHANGED <<files, unfinished, reading, record, domain>>

(* Ctrl+C cancels the main task at the await it is in. *)
Interrupt(p) ==
    /\ \/ /\ pc[p] = "logging in"
          /\ Go(p, "over")
          /\ UNCHANGED <<failure, halting>>
       \/ /\ pc[p] \in {"starting", "serving"}
          /\ Go(p, "draining")
          /\ halting' = [halting EXCEPT ![p] = TRUE]
          /\ failure' = [failure EXCEPT ![p] = @ \/ pc[p] = "starting"]
    /\ UNCHANGED <<files, unfinished, reading, record, loop, ready, gate, backoff>>

Drained(p) ==
    /\ pc[p] = "draining"
    /\ \A l \in Loop : loop[p][l] = "over"
    /\ Go(p, "unmarking")
    /\ UNCHANGED <<files, unfinished, reading, record, domain>>

(* readiness.stop: our marker, then our lock, each only if it is ours. *)
UnmarkServed(p) ==
    /\ pc[p] = "unmarking"
    /\ marker' = IF marker = p /\ ~failure[p] THEN Nobody ELSE marker
    /\ Go(p, "unlocking")
    /\ UNCHANGED <<lock, guard, unfinished, reading, record, domain>>
Unmark(p) ==
    /\ pc[p] = "unmarking"
    /\ marker' = IF marker = p THEN Nobody ELSE marker
    /\ Go(p, "unlocking")
    /\ UNCHANGED <<lock, guard, unfinished, reading, record, domain>>

(* Then supervisor.stop cancels what still runs: after a start abandoned    *)
(* over its evidence the loops outlive the lock.                            *)
Unlock(p) ==
    /\ pc[p] = "unlocking"
    /\ lock' = IF record[p] /\ lock = p THEN Nobody ELSE lock
    /\ record' = [record EXCEPT ![p] = FALSE]
    /\ halting' = [halting EXCEPT ![p] = TRUE]
    /\ Go(p, "closing")
    /\ UNCHANGED <<marker, guard, unfinished, reading, loop, ready, failure, gate, backoff>>

(* What a process knew and what its tasks did ends with it. *)
Forgotten(p) ==
    /\ seen' = [seen EXCEPT ![p] = Nothing]
    /\ record' = [record EXCEPT ![p] = FALSE]
    /\ loop' = [loop EXCEPT ![p] = [l \in Loop |-> "over"]]
    /\ ready' = [ready EXCEPT ![p] = FALSE]
    /\ failure' = [failure EXCEPT ![p] = FALSE]
    /\ halting' = [halting EXCEPT ![p] = FALSE]
    /\ gate' = [gate EXCEPT ![p] = FALSE]
    /\ backoff' = [backoff EXCEPT ![p] = 1]

Exit(p) ==
    /\ pc[p] = "closing"
    /\ \A l \in Loop : loop[p][l] \in {"off", "over"}
    /\ Go(p, "over")
    /\ Forgotten(p)
    /\ UNCHANGED <<files, unfinished, overtaken>>

(* The process is killed: its files, an unfinished row and a guard stay. *)
Kill(p) ==
    /\ Runs(p)
    /\ Go(p, "killed")
    /\ Forgotten(p)
    /\ UNCHANGED <<files, unfinished, overtaken>>

-----------------------------------------------------------------------------
(* RuntimeSupervisor._ws_loop and _consume_stream *)

WsStep(p, from, where) ==
    /\ ~halting[p]
    /\ loop[p]["ws"] = from
    /\ Move(p, "ws", where)
    /\ UNCHANGED <<files, pc, reading, record, gate>>

Connect(p) ==
    /\ WsStep(p, "connecting", "up")
    /\ Latch(p)
    /\ UNCHANGED <<unfinished, failure, halting, backoff>>

(* A refused or lost connection: wait and try again. *)
Disconnect(p) ==
    /\ \E from \in {"connecting", "up"} : WsStep(p, from, "waiting")
    /\ backoff' = [backoff EXCEPT ![p] = Doubled(p)]
    /\ UNCHANGED <<unfinished, ready, failure, halting>>

Reconnect(p) ==
    /\ WsStep(p, "waiting", "connecting")
    /\ UNCHANGED <<unfinished, ready, failure, halting, backoff>>

(* A frame the protocol does not allow ends the domain; so does a clean     *)
(* close, which counts as a failure only while starting.                    *)
StreamBreaks(p) ==
    /\ WsStep(p, "up", "over")
    /\ Fail(p)
    /\ UNCHANGED <<unfinished, ready, backoff>>

StreamEnds(p) ==
    /\ WsStep(p, "up", "over")
    /\ IF pc[p] = "starting"
         THEN Fail(p)
         ELSE halting' = [halting EXCEPT ![p] = TRUE] /\ UNCHANGED failure
    /\ UNCHANGED <<unfinished, ready, backoff>>

(* The consumer hands a message on as soon as it is connected, gate or not. *)
Receive(p) ==
    /\ WsStep(p, "up", "handling")
    /\ unfinished' = TRUE
    /\ UNCHANGED <<ready, failure, halting, backoff>>

(* The turn is marked, and with it everything before; or its handler        *)
(* raised and the row stays.                                                *)
Handled(p) ==
    /\ WsStep(p, "handling", "up")
    /\ unfinished' = FALSE \/ UNCHANGED unfinished
    /\ UNCHANGED <<ready, failure, halting, backoff>>

-----------------------------------------------------------------------------
(* RuntimeSupervisor._memory_loop and _initiative_loop *)

WorkerStep(p, l, from, where) ==
    /\ ~halting[p]
    /\ loop[p][l] = from
    /\ Move(p, l, where)
    /\ UNCHANGED <<files, unfinished, pc, reading, record, gate, backoff>>

(* The first pass: recover_pending.  The gate is still closed. *)
FirstPass(p, l) ==
    /\ WorkerStep(p, l, "fresh", "idle")
    /\ Latch(p)
    /\ UNCHANGED <<failure, halting>>

(* run_due or tick, once the gate is open. *)
Work(p, l) ==
    /\ gate[p]
    /\ WorkerStep(p, l, "idle", "working")
    /\ UNCHANGED <<ready, failure, halting>>

Worked(p, l) ==
    /\ WorkerStep(p, l, "working", "idle")
    /\ UNCHANGED <<ready, failure, halting>>

WorkerFails(p, l) ==
    /\ \E from \in {"fresh", "working"} : WorkerStep(p, l, from, "over")
    /\ Fail(p)
    /\ UNCHANGED ready

(* A cancelled loop ends where it is; a message in hand stays unfinished. *)
Cancelled(p, l) ==
    /\ halting[p]
    /\ loop[p][l] \notin {"off", "over"}
    /\ Move(p, l, "over")
    /\ UNCHANGED <<files, unfinished, pc, reading, record, ready, failure, halting, gate, backoff>>

-----------------------------------------------------------------------------
Reclaim(p) == Read(p) \/ Probe(p) \/ ArchiveMarker(p) \/ ArchiveLock(p)
Start(p) ==
    LogIn(p) \/ Acquire(p) \/ Recover(p) \/ Serve(p) \/ StartFails(p) \/ StartTimesOut(p)
Stop(p) == Wake(p) \/ Drained(p) \/ Unmark(p) \/ Unlock(p) \/ Exit(p)
Main(p) == Reclaim(p) \/ Start(p) \/ Stop(p)

Stream(p) ==
    \/ Connect(p) \/ Disconnect(p) \/ Reconnect(p)
    \/ StreamBreaks(p) \/ StreamEnds(p)
    \/ Receive(p) \/ Handled(p)
Worker(p, l) == FirstPass(p, l) \/ Work(p, l) \/ Worked(p, l) \/ WorkerFails(p, l)

Next ==
    \E p \in Proc :
        \/ Begin(p) \/ Main(p) \/ Interrupt(p) \/ Kill(p)
        \/ Stream(p)
        \/ \E l \in Workers : Worker(p, l)
        \/ \E l \in Loop : Cancelled(p, l)

Spec == Init /\ [][Next]_vars

(* The event loop of a process goes on: the waits of the main task are      *)
(* timed or end with an event, file and database calls return, a cancelled *)
(* task is resumed.  Nothing is assumed of the WebSocket, the workers or   *)
(* whoever starts processes.                                               *)
FairSpec ==
    /\ Spec
    /\ \A p \in Proc : WF_vars(Main(p)) /\ \A l \in Loop : WF_vars(Cancelled(p, l))

-----------------------------------------------------------------------------
(* Properties. *)

(* Every variable has its type. *)
TypeOK ==
    /\ lock \in Owner
    /\ marker \in Owner
    /\ guard \in Proc \cup {Nobody}
    /\ unfinished \in BOOLEAN
    /\ pc \in [Proc -> At]
    /\ seen \in [Proc -> [lock : Owner, marker : Owner]]
    /\ overtaken \in BOOLEAN
    /\ record \in [Proc -> BOOLEAN]
    /\ loop \in [Proc -> [Loop -> LoopState]]
    /\ ready \in [Proc -> BOOLEAN]
    /\ failure \in [Proc -> BOOLEAN]
    /\ halting \in [Proc -> BOOLEAN]
    /\ gate \in [Proc -> BOOLEAN]
    /\ backoff \in [Proc -> 1..MaxBackoff]

(* A process that holds the instance is the only one, and the lock file     *)
(* says so, however many start at once and wherever each is killed:         *)
(* clearing what a crash left never takes the files of a live process.      *)
(* The one gap is between the reading and the probe of readiness.py: an     *)
(* owner that stops by itself just then makes the reclaimer archive         *)
(* whatever the next process has put in the place of its files.            *)
OneInstance == ~overtaken => \A p \in Proc : record[p] => lock = p

(* A READY marker of a live process is backed by its record, its two        *)
(* recoveries and its gate, until the marker is removed again, and by its   *)
(* lock but for that gap: check_ready never vouches for a process that      *)
(* failed to start or gave its lock up.                                     *)
ReadyIsTrue ==
    \A p \in Proc :
        marker = p /\ Runs(p) => record[p] /\ gate[p] /\ (lock = p \/ overtaken)

(* Background semantic work (run_due, tick) goes on only in a process that  *)
(* believes to hold the instance, and under its READY marker but for that   *)
(* gap: it starts after the marker is durable, and whatever ends the        *)
(* process, the loops are drained before marker and lock are given up.      *)
WorkUnderReady ==
    \A p \in Proc, l \in Workers :
        loop[p][l] = "working" => record[p] /\ ((marker = p /\ lock = p) \/ overtaken)

(* A process that ends by itself, on whatever path, leaves no file behind:  *)
(* only a killed one leaves something to reclaim.                           *)
LeavesNothing == \A p \in Proc : pc[p] = "over" => p \notin {lock, marker, guard}

(* One failure domain (runtime.py): when any loop has ended, for whatever   *)
(* reason, the whole process ends.  The entry point never sleeps on beside  *)
(* a dead loop and a marker that still says READY.                          *)
FallsTogether ==
    \A p \in Proc : (\E l \in Loop : loop[p][l] = "over") ~> pc[p] \in Gone

(* Every start comes to a decision, also when the platform cannot be        *)
(* reached and the loop reconnects without end.                             *)
StartDecides ==
    \A p \in Proc : pc[p] # "off" ~> pc[p] \in {"serving"} \cup Gone
=============================================================================

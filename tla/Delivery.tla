------------------------------ MODULE Delivery ------------------------------
(***************************************************************************)
(* The outbox (storage/outbox_repository.py) and the sender                *)
(* (transport/sender.py) over it: every outward action of Qichi is a row   *)
(* under an idempotent operation key, handed to OneBot at most once.       *)
(*                                                                         *)
(* Tasks of one asyncio process call the sender concurrently.  A step of   *)
(* this module is one SQLite transaction or one network exchange, the two  *)
(* kinds of point between which other tasks, or a crash of the process,    *)
(* can come.  A crash loses every task and no row.                         *)
(***************************************************************************)
EXTENDS Naturals, FiniteSets

CONSTANTS
    Caller,       \* tasks that call the sender
    Group,        \* reply groups: one DialogueResult each
    PartCount,    \* [Group -> Nat \ {0}]: len(result.message_parts)
    Guarded,      \* SUBSET Group: groups sent with a dispatch_guard
    Reacting,     \* SUBSET Group: groups whose last part asks for a reaction
    Poke,         \* inbound pokes that are answered with a poke
    Solo,         \* failure notices and voice records: one-part, unguarded
    MsgId,        \* platform message ids
    MaxAttempts,  \* bound on dispatches of one reaction
    MaxCrashes,   \* bound on crashes
    Nobody,       \* an id that maps to no event
    Foreign       \* an id that maps to an inbound event

NoOp == [kind |-> "none", event |-> <<>>]

Part == UNION {{<<g, i>> : i \in 1..PartCount[g]} : g \in Group}
Event == Part \cup Solo

TextOp(p) == [kind |-> "text", event |-> p]
SoloOp(s) == [kind |-> "solo", event |-> s]
PokeOp(k) == [kind |-> "poke", event |-> k]
ReactionOp(g) == [kind |-> "reaction", event |-> <<g, PartCount[g]>>]

(* Operation keys.  A key is derived from the kind of the action and the   *)
(* event it belongs to, so one event can own a text and a reaction key.    *)
Once == {TextOp(p) : p \in Part} \cup {SoloOp(s) : s \in Solo}
            \cup {PokeOp(k) : k \in Poke}
Op == Once \cup {ReactionOp(g) : g \in Reacting}

(* The actions whose completion also settles the status of their event. *)
Spoken == {op \in Once : op.kind \in {"text", "solo"}}

Terminal == {"sent", "unknown", "failed"}
OutboxStatus == {"absent", "pending", "dispatched"} \cup Terminal

ASSUME DeliveryAssumption ==
    /\ PartCount \in [Group -> Nat \ {0}]
    /\ Guarded \subseteq Group
    /\ Reacting \subseteq Group
    /\ MaxAttempts \in Nat
    /\ MaxCrashes \in Nat
    /\ Solo \cap Part = {}
    /\ Nobody \notin Event
    /\ Foreign \notin Event
    /\ Foreign # Nobody

VARIABLES
    status,       \* outbox.status of each operation key ("absent": no row)
    attempts,     \* outbox.attempt_count
    evStatus,     \* conversation_events.status of each outgoing event
    mapping,      \* platform_message_map: the event each platform id names
    hooks,        \* how often a group's sent_commit_hook has been committed
    open,         \* what a group's dispatch_guard would answer now
    pc,           \* where each task is: [at, op]
    platform,     \* the last request for an operation, as OneBot sees it
    effects,      \* how often the platform carried the operation out
    crashes

rows == <<status, attempts, evStatus, mapping, hooks>>
net == <<platform, effects>>
vars == <<rows, open, pc, net, crashes>>

At == {"idle", "prepare", "insert", "intent", "begin", "calling", "waiting"}
PlatformState == {"quiet", "wire", "accepted", "refused", "lost"}

Idle == [at |-> "idle", op |-> NoOp]
Doing(at, op) == [at |-> at, op |-> op]

Init ==
    /\ status = [op \in Op |-> "absent"]
    /\ attempts = [op \in Op |-> 0]
    /\ evStatus = [e \in Event |-> "absent"]
    /\ mapping = [m \in MsgId |-> Nobody]
    /\ hooks = [g \in Group |-> 0]
    /\ open = [g \in Group |-> TRUE]
    /\ pc = [c \in Caller |-> Idle]
    /\ platform = [op \in Op |-> "quiet"]
    /\ effects = [op \in Op |-> 0]
    /\ crashes = 0

-----------------------------------------------------------------------------
(* Small decisions of the code, named.  Each is followed, where it can go  *)
(* wrong, by the slip the properties below are tried against.              *)

(* Statuses from which a dispatch may begin. *)
Fresh == {"absent", "pending"}

(* The compare-and-set of begin_dispatch. *)
MayBegin(op) == status[op] = "pending"

(* The part whose success commits the caller's sent_commit_hook. *)
HookedOnLast(p) == p[1] \in Guarded /\ p[2] = PartCount[p[1]]
Hooked(p) == p[1] \in Guarded /\ p[2] = 1

(* Another event already owns the id, or this event another id. *)
CollidesOneWay(e, m) == \E n \in MsgId \ {m} : mapping[n] = e
Collides(e, m) ==
    \/ mapping[m] \notin {Nobody, e}
    \/ \E n \in MsgId \ {m} : mapping[n] = e

(* A timeout, a lost connection, a 5xx or a malformed envelope can meet a  *)
(* request whatever the platform did or is still doing with it.            *)
UnclearWithoutTimeout(op) == platform[op] \in {"accepted", "refused"}
Unclear(op) == platform[op] \in {"wire", "accepted", "refused", "lost"}

(* What the ledger says after such an answer: nobody knows. *)
UnclearAsFailed == "failed"
UnclearVerdict == "unknown"

-----------------------------------------------------------------------------
(* Where a task goes next. *)

(* Sender.send: the task moves to a part's first transaction. *)
StartPart(p) == Doing(IF p[1] \in Guarded THEN "prepare" ELSE "insert", TextOp(p))

(* Sender.send: the next part, or the call returns. *)
NextPart(p) == IF p[2] < PartCount[p[1]] THEN StartPart(<<p[1], p[2] + 1>>) ELSE Idle

(* Sender._send_one after its text is sent: the stored reaction, then the  *)
(* next part.  The expression belongs to the last part only.               *)
AfterText(p) ==
    IF p[1] \in Reacting /\ p[2] = PartCount[p[1]]
        THEN Doing("intent", ReactionOp(p[1]))
        ELSE NextPart(p)

(* The caller continues with a status the sender read or has just written: *)
(* only a sent text goes on to the rest of its group.                      *)
ContinueRegardless(op, st) ==
    IF op.kind = "text" /\ st # "failed" THEN AfterText(op.event) ELSE Idle
Continue(op, st) ==
    IF op.kind = "text" /\ st = "sent" THEN AfterText(op.event) ELSE Idle

-----------------------------------------------------------------------------
(* A task calls the sender. *)

CallSend(c, g) ==
    /\ pc[c].at = "idle"
    /\ pc' = [pc EXCEPT ![c] = StartPart(<<g, 1>>)]
    /\ UNCHANGED <<rows, open, net, crashes>>

(* Sender.send_failure_notice, and VoiceDispatcher before dispatch_record:  *)
(* the event is inserted in a transaction of its own, unless it is there.   *)
CallSolo(c, s) ==
    /\ pc[c].at = "idle"
    /\ evStatus' = [evStatus EXCEPT ![s] = IF @ = "absent" THEN "pending" ELSE @]
    /\ pc' = [pc EXCEPT ![c] = Doing("intent", SoloOp(s))]
    /\ UNCHANGED <<status, attempts, mapping, hooks, open, net, crashes>>

CallPoke(c, k) ==
    /\ pc[c].at = "idle"
    /\ pc' = [pc EXCEPT ![c] = Doing("intent", PokeOp(k))]
    /\ UNCHANGED <<rows, open, net, crashes>>

-----------------------------------------------------------------------------
(* _prepare_guarded_text: guard, event, outbox row and the move to         *)
(* dispatched are one transaction.                                         *)

(* The guard says no: send() returns None and nothing is written. *)
GuardRejects(c) ==
    /\ pc[c].at = "prepare"
    /\ ~open[pc[c].op.event[1]]
    /\ pc' = [pc EXCEPT ![c] = Idle]
    /\ UNCHANGED <<rows, open, net, crashes>>

Prepare(c) ==
    LET op == pc[c].op IN
    /\ pc[c].at = "prepare"
    /\ open[op.event[1]]
    /\ evStatus' = [evStatus EXCEPT ![op.event] = IF @ = "absent" THEN "pending" ELSE @]
    /\ IF status[op] \in Fresh
         THEN /\ status' = [status EXCEPT ![op] = "dispatched"]
              /\ attempts' = [attempts EXCEPT ![op] = @ + 1]
              /\ pc' = [pc EXCEPT ![c] = Doing("calling", op)]
         ELSE \* a dispatched row raises "awaiting reconciliation"
              /\ pc' = [pc EXCEPT ![c] = Continue(op, status[op])]
              /\ UNCHANGED <<status, attempts>>
    /\ UNCHANGED <<mapping, hooks, open, net, crashes>>

(* The unguarded branch of _send_one: event, intent and dispatch are three *)
(* transactions.                                                           *)
InsertEvent(c) ==
    LET op == pc[c].op IN
    /\ pc[c].at = "insert"
    /\ evStatus' = [evStatus EXCEPT ![op.event] = IF @ = "absent" THEN "pending" ELSE @]
    /\ pc' = [pc EXCEPT ![c] = Doing("intent", op)]
    /\ UNCHANGED <<status, attempts, mapping, hooks, open, net, crashes>>

(* OutboxRepository.create_intent; a row past pending ends the dispatch.   *)
CreateIntent(c) ==
    LET op == pc[c].op IN
    /\ pc[c].at = "intent"
    /\ status' = [status EXCEPT ![op] = IF @ = "absent" THEN "pending" ELSE @]
    /\ pc' = [pc EXCEPT ![c] =
                IF status[op] \in Fresh THEN Doing("begin", op)
                ELSE Continue(op, status[op])]
    /\ UNCHANGED <<attempts, evStatus, mapping, hooks, open, net, crashes>>

(* OutboxRepository.begin_dispatch: pending only, else the caller reads    *)
(* back what another task made of the row.                                 *)
BeginDispatch(c) ==
    LET op == pc[c].op IN
    /\ pc[c].at = "begin"
    /\ IF MayBegin(op)
         THEN /\ status' = [status EXCEPT ![op] = "dispatched"]
              /\ attempts' = [attempts EXCEPT ![op] = @ + 1]
              /\ pc' = [pc EXCEPT ![c] = Doing("calling", op)]
         ELSE /\ pc' = [pc EXCEPT ![c] = Continue(op, status[op])]
              /\ UNCHANGED <<status, attempts>>
    /\ UNCHANGED <<evStatus, mapping, hooks, open, net, crashes>>

-----------------------------------------------------------------------------
(* The network.  OneBot (NapCat) is external: it may carry a request out,  *)
(* refuse it or lose it, and its answer may be lost on the way back.       *)

Transmit(c) ==
    LET op == pc[c].op IN
    /\ pc[c].at = "calling"
    /\ platform' = [platform EXCEPT ![op] = "wire"]
    /\ pc' = [pc EXCEPT ![c] = Doing("waiting", op)]
    /\ UNCHANGED <<rows, open, effects, crashes>>

Accept(op) ==
    /\ platform[op] = "wire"
    /\ platform' = [platform EXCEPT ![op] = "accepted"]
    /\ effects' = [effects EXCEPT ![op] = @ + 1]
    /\ UNCHANGED <<rows, open, pc, crashes>>

RefuseOrLose(op) ==
    /\ platform[op] = "wire"
    /\ \E p \in {"refused", "lost"} : platform' = [platform EXCEPT ![op] = p]
    /\ UNCHANGED <<rows, open, pc, effects, crashes>>

-----------------------------------------------------------------------------
(* The answer of the network, and the transaction that records it. *)

(* What the row of op becomes, with its event when the event mirrors it. *)
SettleRowOnly(op, st) ==
    /\ status' = [status EXCEPT ![op] = st]
    /\ UNCHANGED <<evStatus, attempts>>
SettleWhenKnown(op, st) ==
    /\ status' = IF st = "unknown" THEN status ELSE [status EXCEPT ![op] = st]
    /\ UNCHANGED <<evStatus, attempts>>
Settle(op, st) ==
    /\ status' = [status EXCEPT ![op] = st]
    /\ evStatus' = IF op \in Spoken THEN [evStatus EXCEPT ![op.event] = st] ELSE evStatus
    /\ UNCHANGED attempts

(* OneBotTimeoutError, ConnectionError, HTTPServerError, ProtocolError, or *)
(* an answer without a usable message id.                                  *)
Ambiguous(c) ==
    LET op == pc[c].op IN
    /\ pc[c].at = "waiting"
    /\ Unclear(op)
    /\ Settle(op, UnclearVerdict)
    /\ pc' = [pc EXCEPT ![c] = Idle]
    /\ UNCHANGED <<mapping, hooks, open, net, crashes>>

(* The platform answered that it refused the action, or 4xx, or a redirect. *)
Refused(c) ==
    LET op == pc[c].op IN
    /\ pc[c].at = "waiting"
    /\ platform[op] = "refused"
    /\ Settle(op, "failed")
    /\ pc' = [pc EXCEPT ![c] = Idle]
    /\ UNCHANGED <<mapping, hooks, open, net, crashes>>

(* A poke or a reaction is done: no message id is involved. *)
DoneSilent(c) ==
    LET op == pc[c].op IN
    /\ pc[c].at = "waiting"
    /\ op \notin Spoken
    /\ platform[op] = "accepted"
    /\ Settle(op, "sent")
    /\ pc' = [pc EXCEPT ![c] = Idle]
    /\ UNCHANGED <<mapping, hooks, open, net, crashes>>

(* _complete_text_success: map the id, settle row and event, run the hook, *)
(* in one transaction; a collision settles both as unknown and raises.     *)
DoneText(c, m) ==
    LET op == pc[c].op IN
    /\ pc[c].at = "waiting"
    /\ op \in Spoken
    /\ platform[op] = "accepted"
    /\ IF Collides(op.event, m)
         THEN /\ Settle(op, "unknown")
              /\ pc' = [pc EXCEPT ![c] = Idle]
              /\ UNCHANGED <<mapping, hooks>>
         ELSE /\ Settle(op, "sent")
              /\ mapping' = [mapping EXCEPT ![m] = op.event]
              /\ hooks' = IF op.kind = "text" /\ Hooked(op.event)
                            THEN [hooks EXCEPT ![op.event[1]] = @ + 1] ELSE hooks
              /\ pc' = [pc EXCEPT ![c] = Continue(op, "sent")]
    /\ UNCHANGED <<open, net, crashes>>

-----------------------------------------------------------------------------
(* The rest of the world. *)

(* EventRepository.insert of an inbound message claims its platform id. *)
InboundId(m) ==
    /\ mapping[m] = Nobody
    /\ mapping' = [mapping EXCEPT ![m] = Foreign]
    /\ UNCHANGED <<status, attempts, evStatus, hooks, open, pc, net, crashes>>

(* What the guard reads changes: a newer message, quiet hours, a claim. *)
GuardChanges(g) ==
    /\ g \in Guarded
    /\ open' = [open EXCEPT ![g] = ~@]
    /\ UNCHANGED <<rows, pc, net, crashes>>

(* OutboxRepository.recover_idempotent_reaction. *)
RecoverReaction(g) ==
    LET op == ReactionOp(g) IN
    /\ g \in Reacting
    /\ status[op] = "unknown"
    /\ attempts[op] < MaxAttempts
    /\ status' = [status EXCEPT ![op] = "pending"]
    /\ UNCHANGED <<attempts, evStatus, mapping, hooks, open, pc, net, crashes>>

(* The process dies; rows and requests already on the wire survive. *)
Crash ==
    /\ crashes < MaxCrashes
    /\ crashes' = crashes + 1
    /\ pc' = [c \in Caller |-> Idle]
    /\ UNCHANGED <<rows, open, net>>

-----------------------------------------------------------------------------
Call(c) ==
    \/ \E g \in Group : CallSend(c, g)
    \/ \E s \in Solo : CallSolo(c, s)
    \/ \E k \in Poke : CallPoke(c, k)

Store(c) ==
    \/ GuardRejects(c)
    \/ Prepare(c)
    \/ InsertEvent(c)
    \/ CreateIntent(c)
    \/ BeginDispatch(c)

Answer(c) ==
    \/ Ambiguous(c)
    \/ Refused(c)
    \/ DoneSilent(c)
    \/ \E m \in MsgId : DoneText(c, m)

Environment ==
    \/ \E op \in Op : Accept(op) \/ RefuseOrLose(op)
    \/ \E m \in MsgId : InboundId(m)
    \/ \E g \in Group : GuardChanges(g) \/ RecoverReaction(g)
    \/ Crash

Next ==
    \/ \E c \in Caller : Call(c) \/ Store(c) \/ Transmit(c) \/ Answer(c)
    \/ Environment

Spec == Init /\ [][Next]_vars

(* A task that entered the sender keeps being scheduled, and every network *)
(* call ends: the HTTP client bounds each request with a timeout.          *)
FairSpec == Spec /\ \A c \in Caller : WF_vars(Store(c) \/ Transmit(c) \/ Answer(c))

-----------------------------------------------------------------------------
(* Properties. *)

(* Every variable has its type; apart from reactions, which are idempotent  *)
(* and may be recovered, no row is ever dispatched twice.                   *)
TypeOK ==
    /\ status \in [Op -> OutboxStatus]
    /\ attempts \in [Op -> Nat]
    /\ \A op \in Once : attempts[op] = IF status[op] \in {"absent", "pending"} THEN 0 ELSE 1
    /\ evStatus \in [Event -> {"absent", "pending"} \cup Terminal]
    /\ mapping \in [MsgId -> Event \cup {Nobody, Foreign}]
    /\ hooks \in [Group -> Nat]
    /\ open \in [Group -> BOOLEAN]
    /\ pc \in [Caller -> [at : At, op : Op \cup {NoOp}]]
    /\ platform \in [Op -> PlatformState]
    /\ effects \in [Op -> Nat]
    /\ crashes \in 0..MaxCrashes

(* The sender implements the promise of AtMostOnce for everything that is   *)
(* not idempotent: however tasks interleave, a text, poke, notice or voice  *)
(* is carried out at most once and its recorded verdict is truthful.        *)
Verdict(op) ==
    CASE status[op] \in {"absent", "pending"} -> "none"
      [] status[op] = "dispatched" -> "undecided"
      [] OTHER -> status[op]

Promise == INSTANCE AtMostOnce WITH
    Op <- Once,
    verdict <- [op \in Once |-> Verdict(op)],
    effects <- [op \in Once |-> effects[op]]

KeepsPromise == Promise!Spec

(* A reply is never cut in the middle or shuffled: a part has a row only    *)
(* when every earlier part of its group was sent, and a reaction only when  *)
(* the text that carries it was (Sender.send stops at the first part that   *)
(* is not "sent").                                                          *)
PartsInOrder ==
    /\ \A g \in Group : \A i \in 2..PartCount[g] :
          status[TextOp(<<g, i>>)] # "absent" => status[TextOp(<<g, i - 1>>)] = "sent"
    /\ \A g \in Reacting :
          status[ReactionOp(g)] # "absent" => status[TextOp(<<g, PartCount[g]>>)] = "sent"

(* What later turns read as history agrees with the outbox: an outgoing     *)
(* event is terminal exactly when its row is, with the same verdict.        *)
EventMirrorsOutbox ==
    \A op \in Spoken :
        /\ status[op] \in Terminal => evStatus[op.event] = status[op]
        /\ status[op] \notin Terminal => evStatus[op.event] \in {"absent", "pending"}
        /\ status[op] # "absent" => evStatus[op.event] # "absent"

(* A platform id names one event and a sent message has exactly one id, so  *)
(* a quote resolves to what was quoted, whatever ids the platform returns.  *)
SentHasOneId ==
    \A op \in Spoken :
        Cardinality({m \in MsgId : mapping[m] = op.event}) =
            IF status[op] = "sent" THEN 1 ELSE 0

(* The caller's bookkeeping (the initiative's topic cursor) moves exactly   *)
(* with the delivery of the first part, never without it, never twice.      *)
HookWithFirstPart ==
    \A g \in Guarded :
        hooks[g] = IF status[TextOp(<<g, 1>>)] = "sent" THEN 1 ELSE 0

(* A row stays "dispatched" without a task waiting for its answer only      *)
(* because the process died: no error path of the sender forgets one.       *)
FrozenOnlyByCrash ==
    \A op \in Op :
        status[op] = "dispatched" /\ crashes = 0 =>
            \E c \in Caller : pc[c].op = op /\ pc[c].at \in {"calling", "waiting"}

(* Every call of the sender returns. *)
CallsReturn == \A c \in Caller : pc[c].at # "idle" ~> pc[c].at = "idle"
=============================================================================

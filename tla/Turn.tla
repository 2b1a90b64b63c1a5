-------------------------------- MODULE Turn --------------------------------
(***************************************************************************)
(* The turns of one conversation (app.py): what QichiApplication makes of  *)
(* the messages and pokes the WebSocket consumer hands it, and of an       *)
(* initiative opening that competes with them for the semantic lock.       *)
(*                                                                         *)
(* A step is what one asyncio task does between two awaits that suspend    *)
(* it; nothing else of the process runs in between.  What the sender does  *)
(* with a dispatched part is the subject of Delivery, here an answer.      *)
(***************************************************************************)
EXTENDS Naturals, Sequences, FiniteSets, Functions

CONSTANTS
    Message,      \* owner payloads OneBot pushes
    Pokes,        \* SUBSET Message: the pokes, the rest are texts
    Opening,      \* initiative attempts handed to generate_initiative
    MaxParts,     \* message parts of one reply
    VoiceReady,   \* the voice dispatcher is configured
    Consumers,    \* handlers the stream feeds at once: 1 in the supervisor
    MaxUnread,    \* payloads pushed and not yet read
    MaxCrashes

Turns == Message \cup Opening

ASSUME TurnAssumption ==
    /\ Pokes \subseteq Message
    /\ Message \cap Opening = {}
    /\ IsFiniteSet(Turns)
    /\ MaxParts \in Nat \ {0}
    /\ VoiceReady \in BOOLEAN
    /\ {Consumers, MaxUnread} \subseteq Nat \ {0}
    /\ MaxCrashes \in Nat

VARIABLES
    stream,       \* payloads pushed over the WebSocket and not yet read
    version,      \* conversation_cursors.context_version
    seq,          \* the version a message made, or an opening relies on; 0: none
    status,       \* conversation_events.status of each message
    watermark,    \* conversation_cursors.last_processed_sequence
    at,           \* where each turn is
    queue,        \* the semantic lock: its holder, then its waiters in order
    plan,         \* the reply the model gave: text parts and the voice part
    said,         \* what was dispatched, and over what
    tails,        \* turns with a background voice task
    mode,         \* the process: up, down, or refused to start
    crashes

inbound == <<stream, version, seq>>
process == <<mode, crashes>>
vars == <<inbound, status, watermark, at, queue, plan, said, tails, process>>

Suspended == {"poking", "thinking", "texting", "voicing", "noticing"}
Running == {"queued"} \cup Suspended
Over == {"done", "raised", "cut"}

Plan ==
    {[parts |-> n, voice |-> "none"] : n \in 1..MaxParts} \cup
    (IF VoiceReady
       THEN {[parts |-> n, voice |-> "tail"] : n \in 1..MaxParts}
              \cup {[parts |-> 1, voice |-> "only"]}
       ELSE {})
NoPlan == [parts |-> 0, voice |-> "none"]

Words == {"text", "voice"}
Utterance == [turn : Turns, what : Words \cup {"poke", "notice"}, part : 1..MaxParts,
              newer : BOOLEAN]

Init ==
    /\ stream = <<>>
    /\ version = 0
    /\ seq = [t \in Turns |-> 0]
    /\ status = [m \in Message |-> "absent"]
    /\ watermark = 0
    /\ at = [t \in Turns |-> "none"]
    /\ queue = <<>>
    /\ plan = [t \in Turns |-> NoPlan]
    /\ said = {}
    /\ tails = {}
    /\ mode = "up"
    /\ crashes = 0

-----------------------------------------------------------------------------
(* Decisions of the code, named, and where it can go wrong the slip the     *)
(* properties are tried against.                                            *)

(* The three comparisons of context_version in handle_onebot. *)
Current(t) == version = seq[t]

(* dialogue_dispatch_guard and initiative_dispatch_guard: the version, and *)
(* no newer inbound row, inside the transaction that dispatches a part.    *)
MayDispatchAnyway(t) == TRUE
MayDispatch(t) == version = seq[t]

(* _mark_processed: the watermark only grows.  Openings have no mark. *)
MarkEverything(t) == watermark' = version
Mark(t) ==
    watermark' = IF t \in Message /\ seq[t] > watermark THEN seq[t] ELSE watermark

(* A turn gives up over a newer message.  Only a poke is marked processed: *)
(* a text is left to the mark of the newer turn.                           *)
GiveUpUnmarked(t) == UNCHANGED watermark
GiveUp(t) == IF t \in Pokes THEN Mark(t) ELSE UNCHANGED watermark

(* The handler returns or raises and releases the lock. *)
LeaveHolding(t, how) ==
    /\ at' = [at EXCEPT ![t] = how]
    /\ queue' = IF Current(t) THEN Tail(queue) ELSE queue
Leave(t, how) ==
    /\ at' = [at EXCEPT ![t] = how]
    /\ queue' = Tail(queue)

Stay(t, where) ==
    /\ at' = [at EXCEPT ![t] = where]
    /\ UNCHANGED queue

(* A part, poke, record or notice goes to the network in this step, over a *)
(* newer message of the conversation or not.                               *)
Uttered(t, what, part) ==
    {[turn |-> t, what |-> what, part |-> part, newer |-> version > seq[t]]}
Utter(t, what, part) == said' = said \cup Uttered(t, what, part)

(* Inbound rows recover_database refuses to start over. *)
UnfinishedBeyondNext(m) == status[m] = "received" /\ seq[m] > watermark + 1
Unfinished(m) == status[m] = "received" /\ seq[m] > watermark

-----------------------------------------------------------------------------
(* OneBot pushes a payload, perhaps one it pushed before. *)
Push(m) ==
    /\ m \notin Range(stream)
    /\ Len(stream) < MaxUnread
    /\ mode = "up"
    /\ stream' = Append(stream, m)
    /\ UNCHANGED <<version, seq, status, watermark, at, queue, plan, said, tails, process>>

(* The consumer reads the next payload and handle_onebot persists it with   *)
(* its version in one transaction, or drops what is already there, and     *)
(* asks for the semantic lock.                                             *)
Receive ==
    /\ mode = "up"
    /\ stream # <<>>
    /\ Cardinality({m \in Message : at[m] \in Running}) < Consumers
    /\ LET m == Head(stream) IN
         IF seq[m] # 0
           THEN UNCHANGED <<version, seq, status, at, queue>>
           ELSE /\ version' = version + 1
                /\ seq' = [seq EXCEPT ![m] = version + 1]
                /\ status' = [status EXCEPT ![m] = "received"]
                /\ at' = [at EXCEPT ![m] = "queued"]
                /\ queue' = Append(queue, m)
    /\ stream' = Tail(stream)
    /\ UNCHANGED <<watermark, plan, said, tails, process>>

(* The scheduler, one attempt at a time, calls generate_initiative with the *)
(* version it claimed its slot on.                                          *)
Open(o) ==
    /\ mode = "up"
    /\ version > 0
    /\ at[o] = "none"
    /\ \A p \in Opening : at[p] \notin Running
    /\ seq' = [seq EXCEPT ![o] = version]
    /\ at' = [at EXCEPT ![o] = "queued"]
    /\ queue' = Append(queue, o)
    /\ UNCHANGED <<stream, version, status, watermark, plan, said, tails, process>>

(* The lock is ours: first checkpoint, then the poke back or the context.  *)
Enter(t) ==
    /\ at[t] = "queued"
    /\ Head(queue) = t
    /\ IF ~Current(t)
         THEN GiveUp(t) /\ Leave(t, "done") /\ UNCHANGED said
         ELSE /\ UNCHANGED watermark
              /\ IF t \in Pokes
                   THEN Stay(t, "poking") /\ Utter(t, "poke", 1)
                   ELSE Stay(t, "thinking") /\ UNCHANGED said
    /\ UNCHANGED <<inbound, status, plan, tails, process>>

PokeAnswered(t) ==
    /\ at[t] = "poking"
    /\ IF Current(t)
         THEN Stay(t, "thinking") /\ UNCHANGED watermark
         ELSE GiveUp(t) /\ Leave(t, "done")
    /\ UNCHANGED <<inbound, status, plan, said, tails, process>>

(* Context assembly or generation failed in a way the handler knows: the   *)
(* input is failed and marked in one transaction and the notice goes out.  *)
Fail(m) ==
    /\ m \in Message
    /\ at[m] = "thinking"
    /\ status' = [status EXCEPT ![m] = "failed"]
    /\ Mark(m)
    /\ Utter(m, "notice", 1)
    /\ Stay(m, "noticing")
    /\ UNCHANGED <<inbound, plan, tails, process>>

NoticeAnswered(m) ==
    /\ at[m] = "noticing"
    /\ Leave(m, "done")
    /\ UNCHANGED <<inbound, status, watermark, plan, said, tails, process>>

(* Any other exception (a broken engine contract, a colliding message id,  *)
(* every failure of an opening) leaves the handler; the consumer logs it.  *)
Raise(t) ==
    /\ at[t] \in {"poking", "thinking", "texting"}
    /\ Leave(t, "raised")
    /\ UNCHANGED <<inbound, status, watermark, plan, said, tails, process>>

(* The model answered: second checkpoint, then the guard and the first     *)
(* part, or the whole turn as one voice record.                            *)
Reply(t, p) ==
    /\ at[t] = "thinking"
    /\ UNCHANGED <<inbound, status, tails, process>>
    /\ IF ~Current(t) \/ ~MayDispatch(t)
         THEN GiveUp(t) /\ Leave(t, "done") /\ UNCHANGED <<plan, said>>
         ELSE /\ plan' = [plan EXCEPT ![t] = p]
              /\ UNCHANGED watermark
              /\ IF p.voice = "only"
                   THEN Stay(t, "voicing") /\ UNCHANGED said
                   ELSE Stay(t, "texting") /\ Utter(t, "text", 1)

(* DialogueSkip: an opening decides to say nothing. *)
Skip(o) ==
    /\ o \in Opening
    /\ at[o] = "thinking"
    /\ Leave(o, "done")
    /\ UNCHANGED <<inbound, status, watermark, plan, said, tails, process>>

(* The number of the part whose answer a turn waits for. *)
Reached(t) == Cardinality({u \in said : u.turn = t /\ u.what = "text"})

(* The part was sent: the guard and the next part.                         *)
PartSent(t) ==
    /\ at[t] = "texting"
    /\ Reached(t) < plan[t].parts
    /\ IF MayDispatch(t)
         THEN Stay(t, "texting") /\ Utter(t, "text", Reached(t) + 1) /\ UNCHANGED watermark
         ELSE GiveUp(t) /\ Leave(t, "done") /\ UNCHANGED said
    /\ UNCHANGED <<inbound, status, plan, tails, process>>

(* The last part was sent, or any part ended unknown or failed: the turn   *)
(* is processed, and a voice part is left to a task of its own.            *)
TextsOver(t) ==
    /\ at[t] = "texting"
    /\ Mark(t)
    /\ Leave(t, "done")
    /\ tails' = IF plan[t].voice = "none" THEN tails ELSE tails \cup {t}
    /\ UNCHANGED <<inbound, status, plan, said, process>>

(* The voice-only record was dispatched, or its degraded text: the platform *)
(* carried it out (heard) or not, and the dispatcher says whether it knows. *)
VoiceAnswered(t, heard, known) ==
    /\ at[t] = "voicing"
    /\ known => heard
    /\ UNCHANGED <<inbound, status, plan, tails, process>>
    /\ LET spoken == IF heard THEN Uttered(t, "voice", 1) ELSE {} IN
       IF known
         THEN Mark(t) /\ Leave(t, "done") /\ said' = said \cup spoken
         ELSE \* _deliver_voice_only returned None: the same words as text
              IF MayDispatch(t)
                THEN /\ Stay(t, "texting")
                     /\ said' = said \cup spoken \cup Uttered(t, "text", 1)
                     /\ UNCHANGED watermark
                ELSE GiveUp(t) /\ Leave(t, "done") /\ said' = said \cup spoken

(* The background task renders the voice part, takes minutes if it must,   *)
(* and dispatches record or text without a guard; or it breaks.  After a   *)
(* voice-only turn it finds its event and dispatches nothing.              *)
VoiceTail(t) ==
    /\ t \in tails
    /\ tails' = tails \ {t}
    /\ IF plan[t].voice = "tail" THEN Utter(t, "voice", 1) ELSE UNCHANGED said
    /\ UNCHANGED <<inbound, status, watermark, at, queue, plan, process>>

VoiceTailBreaks(t) ==
    /\ t \in tails
    /\ tails' = tails \ {t}
    /\ UNCHANGED <<inbound, status, watermark, at, queue, plan, said, process>>

-----------------------------------------------------------------------------
(* The process dies or is stopped: every handler is cut, unread payloads    *)
(* are gone.                                                                *)
Crash ==
    /\ mode = "up"
    /\ crashes < MaxCrashes
    /\ mode' = "down"
    /\ crashes' = crashes + 1
    /\ at' = [t \in Turns |-> IF at[t] \in Running THEN "cut" ELSE at[t]]
    /\ queue' = <<>>
    /\ stream' = <<>>
    /\ tails' = {}
    /\ UNCHANGED <<version, seq, status, watermark, plan, said>>

(* recover_database: "unprocessed inbound requires explicit replay". *)
Restart ==
    /\ mode = "down"
    /\ mode' = IF \E m \in Message : Unfinished(m) THEN "refused" ELSE "up"
    /\ UNCHANGED <<inbound, status, watermark, at, queue, plan, said, tails, crashes>>

-----------------------------------------------------------------------------
Advance(t) ==
    \/ Enter(t)
    \/ PokeAnswered(t)
    \/ Fail(t)
    \/ NoticeAnswered(t)
    \/ Raise(t)
    \/ \E p \in Plan : Reply(t, p)
    \/ Skip(t)
    \/ PartSent(t)
    \/ TextsOver(t)
    \/ \E heard, known \in BOOLEAN : VoiceAnswered(t, heard, known)

Next ==
    \/ \E m \in Message : Push(m)
    \/ Receive
    \/ \E o \in Opening : Open(o)
    \/ \E t \in Turns : Advance(t) \/ VoiceTail(t) \/ VoiceTailBreaks(t)
    \/ Crash
    \/ Restart

Spec == Init /\ [][Next]_vars

(* The event loop keeps running: the consumer reads on, the lock is fair,  *)
(* and every await of a handler (model call, platform call, synthesis) has *)
(* a timeout.                                                              *)
FairSpec ==
    /\ Spec
    /\ WF_vars(Receive)
    /\ \A t \in Turns : WF_vars(Advance(t))

-----------------------------------------------------------------------------
(* Properties. *)

(* Every variable has its type. *)
TypeOK ==
    /\ stream \in Seq(Message)
    /\ version \in Nat
    /\ seq \in [Turns -> 0..version]
    /\ status \in [Message -> {"absent", "received", "failed"}]
    /\ watermark \in 0..version
    /\ at \in [Turns -> {"none"} \cup Running \cup Over]
    /\ queue \in Seq(Turns)
    /\ plan \in [Turns -> Plan \cup {NoPlan}]
    /\ said \subseteq Utterance
    /\ tails \subseteq Turns
    /\ mode \in {"up", "down", "refused"}
    /\ crashes \in 0..MaxCrashes

(* No text part goes out over a message the conversation already holds: the *)
(* guard inside the dispatching transaction sees whatever arrived while     *)
(* earlier parts were on the wire, for replies and openings alike.          *)
TextNeverStale == \A u \in said : u.what = "text" => ~u.newer

(* One turn at a time: the lock queue holds exactly the running turns, once *)
(* each, and only its head is past the lock.                                *)
OneSpeaker ==
    /\ Range(queue) = {t \in Turns : at[t] \in Running}
    /\ Len(queue) = Cardinality(Range(queue))
    /\ \A t \in Turns : at[t] \in Suspended => Head(queue) = t

(* The watermark never passes a message whose handler is still running, so  *)
(* a crash at any await leaves that message visible to recovery.            *)
WatermarkBehindRunning ==
    \A m \in Message : at[m] \in Running \ {"noticing"} => seq[m] > watermark

(* The process never serves again over a message whose handling a crash cut *)
(* short: it restarts only when that message was failed and marked.         *)
CutBlocksRestart ==
    \A m \in Message : at[m] = "cut" /\ mode = "up" => status[m] = "failed"

(* A handled message ends in exactly one way: failed, with a notice and not *)
(* a word; or answered and marked processed; or given up over a newer one.  *)
OneOutcome ==
    \A m \in Message :
        LET words == {u \in said : u.turn = m /\ u.what \in Words}
            notices == {u \in said : u.turn = m /\ u.what = "notice"}
        IN at[m] = "done" =>
             IF status[m] = "failed"
               THEN words = {} /\ notices # {} /\ seq[m] <= watermark
               ELSE /\ notices = {}
                    /\ \/ words # {} /\ seq[m] <= watermark
                       \/ \E n \in Message : seq[n] > seq[m]
                    /\ m \in Pokes => seq[m] <= watermark

(* Qichi does not stay silent: a persisted message is answered or noticed,  *)
(* unless a newer one replaced it, its handler raised or the process died.  *)
Heard ==
    \A m \in Message :
        seq[m] # 0 ~>
            \/ \E u \in said : u.turn = m /\ u.what \in Words \cup {"notice"}
            \/ version > seq[m]
            \/ at[m] \in {"raised", "cut"}
=============================================================================

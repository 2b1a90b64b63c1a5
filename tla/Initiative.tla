----------------------------- MODULE Initiative -----------------------------
(***************************************************************************)
(* Qichi speaks first: the scheduler of idle slots                         *)
(* (initiative/scheduler.py, initiative/policy.py) and the attempt it      *)
(* starts (app.py, generate_initiative).                                   *)
(*                                                                         *)
(* Time is counted in units of which Interval make the sixty minutes of    *)
(* the policy; the wall clock does not run backwards.  More than one       *)
(* runtime may work on the database: a zombie whose generation resumes     *)
(* after another runtime took its expired claim over.  A claim id is a     *)
(* hash of anchor and slot and is the pair itself here.                    *)
(***************************************************************************)
EXTENDS Naturals, FiniteSets

CONSTANTS
    Runtime,      \* schedulers over one database
    Interval,     \* policy.idle_delta
    Quiet,        \* the units of policy.quiet_hours_local
    Cap,          \* policy.max_unanswered_attempts
    MaxParts,     \* text parts of one opening
    Opening,      \* the openings the model may give
    Controls,     \* the owner pauses, resumes and defers
    Deferrals,    \* times the owner may defer to
    MaxClock,     \* bound on time
    MaxVersion,   \* bound on owner messages
    MaxCrashes    \* bound on runtimes dying or being stopped

ASSUME InitiativeAssumption ==
    /\ Interval \in Nat \ {0}
    /\ Cap \in Nat \ {0}
    /\ MaxParts \in Nat \ {0}
    /\ {MaxClock, MaxVersion, MaxCrashes} \subseteq Nat
    /\ Quiet \subseteq Nat /\ Deferrals \subseteq Nat
    /\ Opening \subseteq [parts : 1..MaxParts, voice : {"none", "tail", "only"}]
    /\ \A p \in Opening : p.voice = "only" => p.parts = 1
    /\ Controls \in BOOLEAN

VARIABLES
    clock,
    version,      \* conversation_cursors.context_version
    activity,     \* conversation_cursors.last_user_activity_utc
    control,      \* runtime_meta "initiative-control": paused, deferred_until
    state,        \* runtime_meta "initiative": the last attempt
    trigger,      \* status of the internal event of each claim
    plan,         \* the opening the model gave for a claim
    last,         \* outbox status of the text part a claim dispatched last
    heard,        \* the platform confirmed something of this claim
    said,         \* what was dispatched, when, and at which version
    pc,           \* where each runtime is
    claim,        \* the claim a runtime works on
    tails,        \* background voice tasks: <<runtime, claim>>
    crashes

world == <<clock, version, activity>>
opening == <<plan, last, heard, said>>
vars == <<world, control, state, trigger, opening, pc, claim, tails, crashes>>

Time == 0..MaxClock
Id == [version : 1..MaxVersion, slot : Time]
Ended == {"sent", "skipped", "failed", "unknown", "cancelled"}

NoState == [status |-> "none", slot |-> 0, owner |-> "none", claimedAt |-> 0,
            activity |-> 0, version |-> 0, unanswered |-> 0,
            completedAt |-> 0, nextDue |-> 0]
State == [status : {"none", "claimed"} \cup Ended, slot : Time,
          owner : Runtime \cup {"none"}, claimedAt : Time, activity : Time,
          version : 0..MaxVersion, unanswered : 0..Cap,
          completedAt : Time, nextDue : 0..MaxClock + Interval]
IdOf(s) == [version |-> s.version, slot |-> s.slot]
Busy(r) == IdOf(claim[r])

NoPlan == [parts |-> 0, voice |-> "none"]
Utterance == [id : Id, what : {"text", "voice"}, part : 1..MaxParts, at : Time,
              version : 1..MaxVersion]

Init ==
    /\ clock = 0
    /\ version = 0
    /\ activity = 0
    /\ control = [paused |-> FALSE, deferred |-> 0]
    /\ state = NoState
    /\ trigger = [i \in Id |-> "absent"]
    /\ plan = [i \in Id |-> NoPlan]
    /\ last = [i \in Id |-> "none"]
    /\ heard = [i \in Id |-> FALSE]
    /\ said = {}
    /\ pc = [r \in Runtime |-> "idle"]
    /\ claim = [r \in Runtime |-> NoState]
    /\ tails = {}
    /\ crashes = 0

-----------------------------------------------------------------------------
(* Decisions of the scheduler. *)

IsQuiet(t) == t \in Quiet

(* _latest_due_slot: whole intervals since the owner spoke. *)
SlotToCome == activity + ((clock - activity) \div Interval + 1) * Interval
Slot == activity + ((clock - activity) \div Interval) * Interval
DueSlot == clock - activity >= Interval /\ ~IsQuiet(Slot)

SameAnchor == state.activity = activity /\ state.version = version

(* claimed_at + idle_delta: nobody else may touch the claim before. *)
LeaseOverSoon == clock + 1 >= state.claimedAt + Interval
LeaseOver == clock >= state.claimedAt + Interval

Parts(i) == {u.part : u \in {w \in said : w.id = i /\ w.what = "text"}}

(* _durable_result: what the ledger proves of a claim.  The row it reads is *)
(* the one of the group id, which is the last text part; "none" when the   *)
(* claim never got as far as its trigger event.                            *)
DurableOptimist(i) ==
    IF trigger[i] = "absent" THEN "none"
    ELSE IF last[i] = "waiting" THEN "failed"
    ELSE IF last[i] # "none" THEN last[i]
    ELSE IF trigger[i] \in {"skipped", "cancelled"} THEN trigger[i]
    ELSE "failed"
Durable(i) ==
    IF plan[i].parts \in Parts(i)
      THEN IF last[i] \in {"sent", "failed"} THEN last[i] ELSE "unknown"
      ELSE CASE trigger[i] = "absent" -> "none"
             [] trigger[i] \in {"skipped", "cancelled"} -> trigger[i]
             [] OTHER -> "failed"

(* _terminal_state. *)
TerminalUncounted(c, st) ==
    [c EXCEPT !.status = st, !.completedAt = clock, !.nextDue = clock + Interval]
TerminalAtOnce(c, st) == [c EXCEPT !.status = st, !.completedAt = clock, !.nextDue = clock]
Terminal(c, st) ==
    [c EXCEPT
        !.status = st,
        !.unanswered = IF st = "sent" THEN @ + 1 ELSE @,
        !.completedAt = clock,
        !.nextDue = CASE st = "unknown" -> 0
                      [] st = "skipped" /\ c.slot + Interval > clock -> c.slot + Interval
                      [] OTHER -> clock + Interval]

(* The claim of runtime r is still the one on record. *)
Mine(r) == state = claim[r]

(* initiative_dispatch_guard: quiet hours, the conversation, the claim. *)
MayOpenUnclaimed(r) ==
    /\ ~IsQuiet(clock)
    /\ version = claim[r].version
    /\ activity = claim[r].activity
MayOpenAnytime(r) ==
    /\ version = claim[r].version
    /\ activity = claim[r].activity
    /\ Mine(r)
MayOpen(r) ==
    /\ ~IsQuiet(clock)
    /\ version = claim[r].version
    /\ activity = claim[r].activity
    /\ Mine(r)

-----------------------------------------------------------------------------
(* The world. *)

Pass ==
    /\ clock < MaxClock
    /\ clock' = clock + 1
    /\ UNCHANGED <<version, activity, control, state, trigger, opening, pc, claim, tails, crashes>>

(* The owner speaks: a new version and a new anchor. *)
Inbound ==
    /\ version < MaxVersion
    /\ version' = version + 1
    /\ activity' = clock
    /\ UNCHANGED <<clock, control, state, trigger, opening, pc, claim, tails, crashes>>

SetControl(c) ==
    /\ Controls
    /\ control # c
    /\ control' = c
    /\ UNCHANGED <<world, state, trigger, opening, pc, claim, tails, crashes>>
Pause == SetControl([control EXCEPT !.paused = TRUE])
Resume == SetControl([control EXCEPT !.paused = FALSE])
DeferOnce(t) == t > clock /\ SetControl([control EXCEPT !.deferred = t])

-----------------------------------------------------------------------------
(* tick: one transaction decides whether a slot is claimed.                *)

Ticking(r) ==
    /\ pc[r] = "idle"
    /\ ~IsQuiet(clock)
    /\ version > 0
    /\ ~control.paused
    /\ control.deferred <= clock

Expired == state.status = "claimed" /\ LeaseOver

(* The slot is free: nothing on record for this anchor, or what is there   *)
(* has run its course, and the owner has not been left alone too often.    *)
Free ==
    SameAnchor =>
        /\ state.unanswered < Cap
        /\ state.status # "unknown"
        /\ state.status = "claimed" => Expired /\ Durable(IdOf(state)) = "none"
        /\ state.status # "claimed" => clock >= state.nextDue

(* An expired claim of this anchor whose fate the ledger knows. *)
Settled ==
    /\ SameAnchor
    /\ state.unanswered < Cap
    /\ Expired
    /\ Durable(IdOf(state)) # "none"

(* A deferral whose time has come is forgotten whatever the tick decides.  *)
ForgetDeferral == control' = [control EXCEPT !.deferred = 0]

Claim(r) ==
    /\ Ticking(r)
    /\ DueSlot
    /\ Free
    /\ ForgetDeferral
    /\ state' = [status |-> "claimed", slot |-> Slot, owner |-> r, claimedAt |-> clock,
                 activity |-> activity, version |-> version,
                 unanswered |-> IF SameAnchor THEN state.unanswered ELSE 0,
                 completedAt |-> 0, nextDue |-> 0]
    /\ claim' = [claim EXCEPT ![r] = state']
    /\ pc' = [pc EXCEPT ![r] = "claimed"]
    /\ UNCHANGED <<world, trigger, opening, tails, crashes>>

(* It is closed, not repeated. *)
Converge(r) ==
    /\ Ticking(r)
    /\ DueSlot
    /\ Settled
    /\ ForgetDeferral
    /\ LET i == IdOf(state) IN
         /\ state' = Terminal(state, Durable(i))
         /\ trigger' = [trigger EXCEPT ![i] = IF @ = "absent" THEN @ ELSE Durable(i)]
    /\ UNCHANGED <<world, opening, pc, claim, tails, crashes>>

NothingToDo(r) ==
    /\ Ticking(r)
    /\ ~(DueSlot /\ (Free \/ Settled))
    /\ ForgetDeferral
    /\ UNCHANGED <<world, state, trigger, opening, pc, claim, tails, crashes>>

-----------------------------------------------------------------------------
(* generate_initiative. *)

(* The attempt is over: what it wrote on its trigger, then _complete_state. *)
Finish(r, st, written) ==
    /\ pc' = [pc EXCEPT ![r] = "idle"]
    /\ claim' = [claim EXCEPT ![r] = NoState]
    /\ state' = IF Mine(r) THEN Terminal(state, st) ELSE state
    /\ trigger' = [trigger EXCEPT ![Busy(r)] =
                     IF @ = "absent" THEN @ ELSE IF Mine(r) THEN st ELSE written]

Quit(r) == Finish(r, "cancelled", "cancelled")

Working(r, where) ==
    /\ pc' = [pc EXCEPT ![r] = where]
    /\ UNCHANGED <<state, trigger, claim>>

(* Under the lock: a claim already acted on, or a conversation that moved, *)
(* ends the attempt before its trigger event; so does a conversation whose *)
(* messages were all failed (readable = FALSE).                            *)
Begin(r, readable) ==
    /\ pc[r] = "claimed"
    /\ IF /\ trigger[Busy(r)] = "absent"
          /\ version = claim[r].version
          /\ activity = claim[r].activity
          /\ readable
         THEN /\ trigger' = [trigger EXCEPT ![Busy(r)] = "received"]
              /\ pc' = [pc EXCEPT ![r] = "generating"]
              /\ UNCHANGED <<state, claim>>
         ELSE Quit(r)
    /\ UNCHANGED <<world, control, opening, tails, crashes>>

(* The tick catches whatever the attempt raised and asks the ledger.       *)
Raise(r) ==
    /\ pc[r] \in {"generating", "texting"}
    /\ last' = IF pc[r] = "texting" THEN [last EXCEPT ![Busy(r)] = "unknown"] ELSE last
    /\ LET st == IF pc[r] = "texting" /\ plan[Busy(r)].parts \in Parts(Busy(r))
                   THEN "unknown" ELSE Durable(Busy(r))
       IN Finish(r, IF st = "none" THEN "failed" ELSE st, trigger[Busy(r)])
    /\ UNCHANGED <<world, control, plan, heard, said, tails, crashes>>

(* DialogueSkip. *)
Skip(r) ==
    /\ pc[r] = "generating"
    /\ IF version = claim[r].version THEN Finish(r, "skipped", "skipped") ELSE Quit(r)
    /\ UNCHANGED <<world, control, opening, tails, crashes>>

Uttered(i, what, part) ==
    {[id |-> i, what |-> what, part |-> part, at |-> clock, version |-> version]}

(* A text part passes the guard and is dispatched. *)
SendPart(r, part) ==
    /\ said' = said \cup Uttered(Busy(r), "text", part)
    /\ last' = [last EXCEPT ![Busy(r)] = "waiting"]
    /\ Working(r, "texting")

Reply(r, p) ==
    /\ pc[r] = "generating"
    /\ IF ~MayOpen(r)
         THEN Quit(r) /\ UNCHANGED <<plan, last, said>>
         ELSE /\ plan' = [plan EXCEPT ![Busy(r)] = p]
              /\ IF p.voice = "only"
                   THEN Working(r, "voicing") /\ UNCHANGED <<last, said>>
                   ELSE SendPart(r, 1)
    /\ UNCHANGED <<world, control, heard, tails, crashes>>

(* A part other than the last was sent: the guard and the next one. *)
PartSent(r) ==
    LET i == Busy(r) IN
    /\ pc[r] = "texting"
    /\ Cardinality(Parts(i)) < plan[i].parts
    /\ heard' = [heard EXCEPT ![i] = TRUE]
    /\ IF MayOpen(r)
         THEN SendPart(r, Cardinality(Parts(i)) + 1)
         ELSE Quit(r) /\ last' = [last EXCEPT ![i] = "sent"] /\ UNCHANGED said
    /\ UNCHANGED <<world, control, plan, tails, crashes>>

(* The last part was sent, or any part ended otherwise. *)
TextsOver(r, st) ==
    LET i == Busy(r) IN
    /\ pc[r] = "texting"
    /\ st \in {"sent", "unknown", "failed"}
    /\ st = "sent" => plan[i].parts \in Parts(i)
    /\ last' = [last EXCEPT ![i] = st]
    /\ heard' = [heard EXCEPT ![i] = @ \/ st = "sent"]
    /\ tails' = IF plan[i].voice = "tail" THEN tails \cup {<<r, i>>} ELSE tails
    /\ Finish(r, st, st)
    /\ UNCHANGED <<world, control, plan, said, crashes>>

(* The voice-only record, or the text it was degraded to, is dispatched    *)
(* without a guard after the synthesis.                                    *)
Voice(r) ==
    /\ pc[r] = "voicing"
    /\ said' = said \cup Uttered(Busy(r), "voice", 1)
    /\ Working(r, "speaking")
    /\ UNCHANGED <<world, control, plan, last, heard, tails, crashes>>

(* Its answer: sent, or a degraded text that ended as st; anything else    *)
(* falls back to the guarded text.                                         *)
VoiceOver(r, st) ==
    LET i == Busy(r) IN
    /\ pc[r] = "speaking"
    /\ st \in {"sent", "unknown", "failed"}
    /\ heard' = [heard EXCEPT ![i] = st = "sent"]
    /\ Finish(r, st, st)
    /\ UNCHANGED <<world, control, plan, last, said, tails, crashes>>

VoiceFallsBack(r) ==
    /\ pc[r] = "speaking"
    /\ IF MayOpen(r) THEN SendPart(r, 1) ELSE Quit(r) /\ UNCHANGED <<last, said>>
    /\ UNCHANGED <<world, control, plan, heard, tails, crashes>>

(* The background voice task of an opening: no guard either. *)
VoiceTail(r, i) ==
    /\ <<r, i>> \in tails
    /\ tails' = tails \ {<<r, i>>}
    /\ said' = said \cup Uttered(i, "voice", 1)
    /\ UNCHANGED <<world, control, state, trigger, plan, last, heard, pc, claim, crashes>>

(* A runtime dies or is stopped: its claim stays on record. *)
Crash(r) ==
    /\ crashes < MaxCrashes
    /\ crashes' = crashes + 1
    /\ pc' = [pc EXCEPT ![r] = "idle"]
    /\ claim' = [claim EXCEPT ![r] = NoState]
    /\ tails' = {x \in tails : x[1] # r}
    /\ UNCHANGED <<world, control, state, trigger, opening>>

-----------------------------------------------------------------------------
Tick(r) == Claim(r) \/ Converge(r) \/ NothingToDo(r)

Attempt(r) ==
    \/ \E readable \in BOOLEAN : Begin(r, readable)
    \/ Raise(r)
    \/ Skip(r)
    \/ \E p \in Opening : Reply(r, p)
    \/ PartSent(r)
    \/ \E st \in {"sent", "unknown", "failed"} : TextsOver(r, st) \/ VoiceOver(r, st)
    \/ Voice(r)
    \/ VoiceFallsBack(r)

Next ==
    \/ Pass
    \/ Inbound
    \/ Pause
    \/ Resume
    \/ \E t \in Deferrals : DeferOnce(t)
    \/ \E r \in Runtime : Tick(r) \/ Attempt(r) \/ Crash(r)
    \/ \E r \in Runtime, i \in Id : VoiceTail(r, i)

Spec == Init /\ [][Next]_vars

-----------------------------------------------------------------------------
(* Properties. *)

(* Every variable has its type. *)
TypeOK ==
    /\ clock \in Time
    /\ version \in 0..MaxVersion
    /\ activity \in 0..clock
    /\ control \in [paused : BOOLEAN, deferred : Nat]
    /\ state \in State
    /\ claim \in [Runtime -> State]
    /\ trigger \in [Id -> {"absent", "received"} \cup Ended]
    /\ plan \in [Id -> Opening \cup {NoPlan}]
    /\ last \in [Id -> {"none", "waiting", "sent", "unknown", "failed"}]
    /\ heard \in [Id -> BOOLEAN]
    /\ said \subseteq Utterance
    /\ pc \in [Runtime -> {"idle", "claimed", "generating", "texting", "voicing", "speaking"}]
    /\ tails \subseteq Runtime \X Id
    /\ crashes \in 0..MaxCrashes

(* Whatever is on record satisfies the contract decode_initiative_state     *)
(* enforces on the next read: a record that broke it would stop every later *)
(* tick, and with it the supervisor.                                        *)
StateDecodes ==
    state.status # "none" =>
        /\ state.activity <= state.slot
        /\ state.slot <= state.claimedAt
        /\ state.status # "claimed" => state.claimedAt <= state.completedAt
        /\ state.status \in {"claimed", "unknown"} => state.nextDue = 0
        /\ state.status \in Ended \ {"unknown"} => state.nextDue > state.completedAt

(* Texts of an opening go out in a conversation that has not moved since    *)
(* its slot was claimed, and never in quiet hours, however long the model   *)
(* took and whichever runtime wakes up late.                                *)
TextsWelcome ==
    \A u \in said : u.what = "text" => ~IsQuiet(u.at) /\ u.version = u.id.version

(* Two openings of one silence start at least an interval apart, across     *)
(* crashes, recoveries and zombies.                                         *)
Spaced ==
    \A u, w \in said :
        /\ u.what = "text" /\ w.what = "text" /\ u.part = 1 /\ w.part = 1
        /\ u.id.version = w.id.version
        /\ u.id.slot < w.id.slot
        => w.at >= u.at + Interval

(* unknown_delivery_retry = false: after an opening of one written part     *)
(* whose delivery nobody knows, no later slot of that silence is used, even *)
(* when the runtime that sent it died.                                      *)
UnknownEndsSilence ==
    \A u, w \in said :
        /\ u.id.version = w.id.version /\ u.id.slot < w.id.slot
        /\ plan[u.id].parts = 1
        => last[u.id] \notin {"waiting", "unknown"}

(* The cap on openings left without an answer counts each one of a single   *)
(* written part the platform confirmed, whoever dies between its answer and *)
(* the state.  (One cut off after its first part is not counted, nor is a   *)
(* record sent after its claim expired: see the README.)                    *)
CapHolds ==
    \A v \in 1..MaxVersion :
        Cardinality({i \in Id : /\ i.version = v /\ heard[i]
                              /\ plan[i].parts = 1 /\ plan[i].voice # "only"}) <= Cap

(* A claim always takes a slot nobody has acted on or is about to act on,   *)
(* however claims expire and runtimes come and go: no slot is spent twice.  *)
SlotsAreFresh ==
    [][\A r \in Runtime : pc[r] = "idle" /\ pc'[r] = "claimed" =>
            /\ trigger[IdOf(claim'[r])] = "absent"
            /\ \A q \in Runtime \ {r} : pc[q] # "idle" => Busy(q) # IdOf(claim'[r])]_vars
=============================================================================

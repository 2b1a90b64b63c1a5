-------------------------------- MODULE Reply --------------------------------
(***************************************************************************)
(* One question to the model and what becomes of the answer: the context   *)
(* that fits (Context), app.py _turn_tool_decision, _generate_turn and     *)
(* _generate, dialogue/engine.py, dialogue/llm_client.py, the checks of    *)
(* dialogue/output_guard.py and dialogue/response_protocol.py, and         *)
(* net/tools.py.  What the answer is used for is in Turn and Initiative.   *)
(*                                                                         *)
(* The provider is free: it may refuse, be silent until the timeout, ask   *)
(* for a search at any time, or answer with any text of Texts.             *)
(***************************************************************************)
EXTENDS Context, TLC

CONSTANTS
    Requests,       \* what there is to say in a context
    Texts,          \* what the model may write
    RetryLimit,     \* structural_retry_limit
    TimeoutRetries, \* _INITIATIVE_TIMEOUT_RETRIES
    Tools,          \* tools of the runner: subset of {"web", "lens"}
    MaxParts        \* _MAX_MESSAGE_PARTS

Source == {"dialogue", "initiative"}
Pictures == {"none", "fresh", "carried"}
Mark == [kind : {"reply", "face", "react", "voice", "scene"},
         value : {"on", "off", "good", "bad"}]
Text == [flaw : {"none", "long", "payload", "sentinel", "leak"}, skip : BOOLEAN,
         glued : BOOLEAN, marks : SUBSET Mark, parts : Nat]

ASSUME ReplyAssumption ==
    /\ RetryLimit \in {0, 1} /\ TimeoutRetries \in Nat /\ MaxParts \in Nat
    /\ Tools \subseteq {"web", "lens"}
    /\ Requests \subseteq Request

VARIABLES
    phase,     \* "idle", "built", "asking", "searching", "judging" or "over"
    asked,     \* the request, until the context is sent
    context,   \* the context made of it, until it is sent
    source,
    pictures,
    attempt,   \* number of the attempt of the engine
    offered,   \* active_tools
    plain,     \* retry_without_thinking
    searched,  \* what the tool returned is among the messages
    timeouts,  \* timeout_retries
    answer,    \* the generation to be judged
    outcome

vars == <<phase, asked, context, source, pictures, attempt, offered, plain, searched,
          timeouts, answer, outcome>>

Nothing == [need |-> 0, images |-> 0, working |-> << >>, memories |-> << >>, confirm |-> << >>,
            recent |-> {}, quoted |-> {}, at |-> 0]
NoAnswer == [cut |-> FALSE, flaw |-> "none", skip |-> FALSE, glued |-> FALSE, marks |-> {},
             parts |-> 0]
NoOutcome == [kind |-> "none", why |-> "none"]
Over(kind, why) == outcome' = [kind |-> kind, why |-> why] /\ phase' = "over"

Init ==
    /\ phase = "idle"
    /\ asked = Nothing
    /\ context = NoContext
    /\ source = "dialogue"
    /\ pictures = "none"
    /\ attempt = 0
    /\ offered = {}
    /\ plain = FALSE
    /\ searched = FALSE
    /\ timeouts = 0
    /\ answer = NoAnswer
    /\ outcome = NoOutcome

-----------------------------------------------------------------------------
(* net/tools.py tool_plan and declares: what a turn may search with. *)
ToolPlan(s, p) ==
    [enabled |-> s # "initiative" /\ p # "fresh", image |-> p = "carried"]
Declares(withImage) == IF withImage THEN Tools ELSE Tools \ {"lens"}
Offer(s, p) == IF ToolPlan(s, p).enabled THEN Declares(ToolPlan(s, p).image) ELSE {}

(* response_protocol.py parse, of a text the guard let pass. *)
Kinds(t, K) == {m \in t.marks : m.kind \in K}
Twice(t, K) == Cardinality(Kinds(t, K)) > 1
Valid(t) == {m \in t.marks : m.kind # "scene" \/ m.value # "bad"}
Malformed(t, s) ==
    IF t.skip THEN s # "initiative"
    ELSE \/ t.glued
         \/ Cardinality(Kinds(t, {"reply", "face", "react", "voice"})) > 3
         \/ \E K \in {{"reply"}, {"face", "react"}, {"voice"}} : Twice(t, K)
         \/ Cardinality({m \in Valid(t) : m.kind = "scene"}) > 1
         \/ t.parts \notin 1..MaxParts
         \/ [kind |-> "voice", value |-> "bad"] \in t.marks

(* output_guard.py validate, and what the engine checks before it. *)
Guarded(t) == IF t.parts = 0 /\ t.marks = {} /\ ~t.skip THEN "empty" ELSE t.flaw
Flaw(a) == IF a.cut THEN "truncated" ELSE Guarded(a)

(* llm_client.py generate: the error of an answer that is not one; a       *)
(* picture may be gone from the store when it is read.                     *)
Refusal(status, p) ==
    CASE status = "silent" -> "timeout"
      [] status = "unreachable" -> "connection"
      [] status = "unreadable" -> "unavailable"
      [] status = "redirect" -> "request"
      [] status = "429" -> "rate"
      [] status = "401" -> "authentication"
      [] status = "404" -> "model"
      [] status = "400" -> IF p = "none" THEN "request" ELSE "image"
      [] status = "500" -> "server"
      [] status = "garbled" -> "protocol"
Statuses(p) == {"silent", "unreachable", "redirect", "429", "401", "404", "400", "500", "garbled"}
                 \cup IF p = "none" THEN {} ELSE {"unreadable"}

-----------------------------------------------------------------------------
(* _build_input: the context, and the tools of the turn. *)
Build ==
    /\ phase = "idle"
    /\ \E r \in Requests, s \in Source, p \in Pictures :
          /\ s = "initiative" => p # "fresh"
          /\ asked' = [r EXCEPT !.images = IF p = "none" THEN 0 ELSE @]
          /\ context' = Context(asked')
          /\ source' = s
          /\ pictures' = p
          /\ IF context'.fits
               THEN phase' = "built" /\ UNCHANGED outcome
               ELSE Over("failed", "context")
    /\ UNCHANGED <<attempt, offered, plain, searched, timeouts, answer>>

(* generate_with_observation, called. *)
Start(tools) ==
    /\ attempt' = 0
    /\ offered' = tools
    /\ plain' = FALSE
    /\ searched' = FALSE
    /\ phase' = "asking"

Ask ==
    /\ phase = "built"
    /\ Start(Offer(source, pictures))
    /\ asked' = Nothing
    /\ context' = NoContext
    /\ UNCHANGED <<source, pictures, timeouts, answer, outcome>>

(* The client raises: an opening waits once more for a silent provider, a  *)
(* turn of the owner asks once more without its pictures, if its context   *)
(* can be built again.                                                     *)
AgainEndlessly == Start({}) /\ UNCHANGED <<timeouts, pictures, outcome>>
Again ==
    /\ Start({})
    /\ timeouts' = timeouts + 1
    /\ UNCHANGED <<pictures, outcome>>
WithoutPictures ==
    /\ Start(Offer(source, pictures))
    /\ pictures' = "none"
    /\ UNCHANGED <<timeouts, outcome>>
GivesUp(e) ==
    /\ Over("failed", e)
    /\ UNCHANGED <<attempt, offered, plain, searched, timeouts, pictures>>

Fail ==
    /\ phase = "asking"
    /\ \E status \in Statuses(pictures) :
          LET e == Refusal(status, pictures) IN
          \/ e = "timeout" /\ source = "initiative" /\ timeouts < TimeoutRetries /\ Again
          \/ e = "image" /\ source = "dialogue" /\ WithoutPictures
          \/ /\ ~(e = "timeout" /\ source = "initiative" /\ timeouts < TimeoutRetries)
             /\ GivesUp(e)
    /\ UNCHANGED <<asked, context, source, answer>>

(* A body: a call of a tool that was offered comes before its text. *)
Answer ==
    /\ phase = "asking"
    /\ \/ phase' = "searching" /\ offered # {} /\ UNCHANGED answer
       \/ /\ phase' = "judging"
          /\ \E t \in Texts, cut \in BOOLEAN : answer' = t @@ [cut |-> cut]
    /\ UNCHANGED <<asked, context, source, pictures, attempt, offered, plain, searched,
                   timeouts, outcome>>

(* SearchToolRunner.run returns a block whatever happens; the next         *)
(* question carries it and offers no tool.                                 *)
Search ==
    /\ phase = "searching"
    /\ searched' = TRUE
    /\ offered' = {}
    /\ attempt' = attempt + 1
    /\ phase' = "asking"
    /\ UNCHANGED <<asked, context, source, pictures, plain, timeouts, answer, outcome>>

(* The guard, then the protocol; the first attempts may be repeated. *)
Retry(why) ==
    /\ attempt' = attempt + 1
    /\ plain' = (plain \/ why \in {"truncated", "empty"})
    /\ phase' = "asking"
    /\ UNCHANGED outcome
Judge ==
    /\ phase = "judging"
    /\ LET why == IF Flaw(answer) # "none" THEN Flaw(answer)
                  ELSE IF Malformed(answer, source) THEN "protocol" ELSE "none"
       IN \/ /\ why = "none"
             /\ Over(IF answer.skip THEN "skip" ELSE "reply", "none")
             /\ UNCHANGED <<attempt, plain>>
          \/ why # "none" /\ attempt < RetryLimit /\ Retry(why)
          \/ /\ why # "none" /\ attempt >= RetryLimit
             /\ Over("failed", why)
             /\ UNCHANGED <<attempt, plain>>
    /\ answer' = NoAnswer
    /\ UNCHANGED <<asked, context, source, pictures, offered, searched, timeouts>>

(* What the caller does with it is in Turn and Initiative. *)
End ==
    /\ phase = "over"
    /\ phase' = "idle"
    /\ source' = "dialogue"
    /\ pictures' = "none"
    /\ asked' = Nothing
    /\ context' = NoContext
    /\ attempt' = 0
    /\ offered' = {}
    /\ plain' = FALSE
    /\ searched' = FALSE
    /\ timeouts' = 0
    /\ answer' = NoAnswer
    /\ outcome' = NoOutcome

Step == Ask \/ Fail \/ Answer \/ Search \/ Judge
Next == Build \/ Step \/ End
(* The client of the provider has a timeout for the whole request, and the *)
(* searches have one too, so each step of a generation is taken.           *)
Spec == Init /\ [][Next]_vars /\ WF_vars(Step)

-----------------------------------------------------------------------------
TypeOK ==
    /\ phase \in {"idle", "built", "asking", "searching", "judging", "over"}
    /\ source \in Source /\ pictures \in Pictures
    /\ attempt \in 0..(RetryLimit + 1) /\ timeouts \in 0..TimeoutRetries
    /\ offered \subseteq Tools /\ plain \in BOOLEAN /\ searched \in BOOLEAN

(* The context is as full as it can be and no fuller: nothing of the       *)
(* verified window or of a budget is exceeded once the transcript is       *)
(* counted as it is sent; the history is the newest run of the session,    *)
(* without a hole, and one more event would not fit; the working set is    *)
(* the longest prefix of the priorities, or nothing when that has no room. *)
(* (context_builder.py:_assemble packs by the cost of single events and    *)
(* corrects itself afterwards; _fit_working_records searches by halving.)  *)
FillsWhatFits ==
    phase = "built" =>
    LET room == Budget(IF context.expanded THEN Maximum ELSE Preferred)
        rest == context.tokens - Bundle(context.kept, asked)
        Fits(S) == Bundle(S, asked) <= HistoryBudget /\ rest + Bundle(S, asked) <= room
        all == History(asked)
        n == Cardinality(context.kept)
        best == Max({k \in 0..Len(asked.working) : First(asked.working, k) <= WorkingMax})
    IN /\ context.kept = Newest(all, n)
       /\ rest <= room /\ (n > 0 => Fits(context.kept))
       /\ \A k \in (n + 1)..Cardinality(all) : ~Fits(Newest(all, k))
       /\ \/ context.working = best
          \/ context.working = 0 /\ Need(asked) + First(asked.working, best) > room

(* A wide window, if there is one, is further from the preferred one than  *)
(* the budgets of what it may add.                                         *)
FarApart ==
    CanExpand => \A r \in Requests :
        Maximum - Preferred >= WorkingMax + Total(Memories(r)) + HistoryBudget

(* Taking the wide window never costs the model something the preferred    *)
(* one would have shown: every event, every record of the working set and  *)
(* every memory of the narrow assembly is in the wide one that replaces    *)
(* it, though a working set that fits only now takes room of its own.      *)
(* It takes windows that are FarApart; those of config.example.yaml are    *)
(* equal, and none replaces the other.                                     *)
(* (context_builder.py:build replaces the one by the other unseen.)        *)
WiderLosesNothing ==
    phase = "built" /\ context.expanded =>
    LET narrow == Assembled(asked, Preferred) IN
    /\ narrow.kept \subseteq context.kept
    /\ narrow.working <= context.working
    /\ narrow.memories <= context.memories

(* Whatever the provider answers, refuses or leaves unanswered, a question *)
(* that was put comes to an end: the retries of the engine, the search     *)
(* round, the second wait of an opening and the second try without         *)
(* pictures do not feed each other.  (engine.py:generate_with_observation, *)
(* app.py:_generate_turn, generate_initiative.)                            *)
Ends == phase = "built" ~> phase = "over"
=============================================================================

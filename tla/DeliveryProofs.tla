--------------------------- MODULE DeliveryProofs ---------------------------
(* Theorems about Delivery, for any number of tasks, groups, parts, message *)
(* ids, dispatches and crashes.                                             *)
EXTENDS Delivery, FiniteSetTheorems, TLAPS

-----------------------------------------------------------------------------
(* Operations. *)

(* A part is its group and its number. *)
LEMMA PartFacts ==
    /\ \A g \in Group : \A i \in 1..PartCount[g] : <<g, i>> \in Part
    /\ \A p \in Part : /\ p = <<p[1], p[2]>>
                      /\ p[1] \in Group
                      /\ p[2] \in 1..PartCount[p[1]]
BY DEF Part

(* An operation is known by its kind. *)
LEMMA OpFacts ==
    /\ \A op \in Op : op.kind = "text" => op.event \in Part /\ op = TextOp(op.event)
    /\ \A op \in Op : op.kind = "solo" => op.event \in Solo /\ op = SoloOp(op.event)
    /\ \A op \in Op : op.kind = "poke" => op.event \in Poke /\ op = PokeOp(op.event)
    /\ \A op \in Op : op.kind = "reaction" =>
          /\ op.event[1] \in Reacting
          /\ op = ReactionOp(op.event[1])
          /\ op.event \in Part
          /\ op.event = <<op.event[1], PartCount[op.event[1]]>>
    /\ \A op \in Op : op.kind \in {"text", "solo", "poke", "reaction"}
    /\ Once = {op \in Op : op.kind # "reaction"}
    /\ Spoken = {op \in Op : op.kind \in {"text", "solo"}}
<1>1. \A g \in Group : PartCount[g] \in 1..PartCount[g]
    BY DeliveryAssumption
<1>2. \A g \in Reacting : <<g, PartCount[g]>> \in Part
    BY <1>1, PartFacts, DeliveryAssumption
<1>3. ASSUME NEW op \in Op
      PROVE  \/ \E p \in Part : op = TextOp(p)
             \/ \E x \in Solo : op = SoloOp(x)
             \/ \E k \in Poke : op = PokeOp(k)
             \/ \E g \in Reacting : op = ReactionOp(g)
    BY DEF Op, Once
<1>4. \A op \in Op : op.kind = "text" => op.event \in Part /\ op = TextOp(op.event)
    BY <1>3 DEF TextOp, SoloOp, PokeOp, ReactionOp
<1>5. \A op \in Op : op.kind = "solo" => op.event \in Solo /\ op = SoloOp(op.event)
    BY <1>3 DEF TextOp, SoloOp, PokeOp, ReactionOp
<1>6. \A op \in Op : op.kind = "poke" => op.event \in Poke /\ op = PokeOp(op.event)
    BY <1>3 DEF TextOp, SoloOp, PokeOp, ReactionOp
<1>7. ASSUME NEW op \in Op, op.kind = "reaction"
      PROVE  /\ op.event[1] \in Reacting
             /\ op = ReactionOp(op.event[1])
             /\ op.event \in Part
             /\ op.event = <<op.event[1], PartCount[op.event[1]]>>
    <2>1. PICK g \in Reacting : op = ReactionOp(g)
        BY <1>3, <1>7 DEF TextOp, SoloOp, PokeOp, ReactionOp
    <2>2. op.event = <<g, PartCount[g]>> /\ op.event[1] = g
        BY <2>1 DEF ReactionOp
    <2> QED BY <2>1, <2>2, <1>2
<1>8. \A op \in Op : op.kind \in {"text", "solo", "poke", "reaction"}
    BY <1>3 DEF TextOp, SoloOp, PokeOp, ReactionOp
<1>9. Once = {op \in Op : op.kind # "reaction"}
    BY <1>3 DEF Op, Once, TextOp, SoloOp, PokeOp, ReactionOp
<1>10. Spoken = {op \in Op : op.kind \in {"text", "solo"}}
    BY <1>9 DEF Spoken
<1> QED BY <1>4, <1>5, <1>6, <1>7, <1>8, <1>9, <1>10

(* The operation of an event, and its kind. *)
LEMMA OpsOf ==
    /\ \A p \in Part : TextOp(p) \in Once /\ TextOp(p).kind = "text" /\ TextOp(p).event = p
    /\ \A s \in Solo : SoloOp(s) \in Once /\ SoloOp(s).kind = "solo" /\ SoloOp(s).event = s
    /\ \A k \in Poke : PokeOp(k) \in Once /\ PokeOp(k).kind = "poke"
    /\ \A g \in Reacting : /\ ReactionOp(g) \in Op /\ ReactionOp(g).kind = "reaction"
                          /\ ReactionOp(g).event = <<g, PartCount[g]>>
    /\ Once \subseteq Op
    /\ NoOp \notin Op
    /\ NoOp.kind = "none"
BY DEF Op, Once, TextOp, SoloOp, PokeOp, ReactionOp, NoOp

(* Where Continue sends a task: home, to the next part, or to the reaction. *)
LEMMA Continuing ==
    ASSUME NEW op \in Op, NEW st
    PROVE  LET next == Continue(op, st) IN
           \/ next = Idle
           \/ /\ op.kind = "text" /\ st = "sent"
              /\ op.event[1] \in Reacting /\ op.event[2] = PartCount[op.event[1]]
              /\ next = Doing("intent", ReactionOp(op.event[1]))
           \/ /\ op.kind = "text" /\ st = "sent"
              /\ op.event[2] < PartCount[op.event[1]]
              /\ <<op.event[1], op.event[2] + 1>> \in Part
              /\ \E at \in {"prepare", "insert"} :
                    next = Doing(at, TextOp(<<op.event[1], op.event[2] + 1>>))
<1>1. CASE op.kind = "text" /\ st = "sent"
    <2>1. op.event \in Part
        BY <1>1, OpFacts
    <2>2. op.event[2] < PartCount[op.event[1]] => <<op.event[1], op.event[2] + 1>> \in Part
        BY <2>1, PartFacts, DeliveryAssumption
    <2> QED BY <1>1, <2>1, <2>2 DEF Continue, AfterText, NextPart, StartPart
<1> QED BY <1>1 DEF Continue

-----------------------------------------------------------------------------
(* Where a task can be: past its first step it works on an operation, and   *)
(* the two entries of Sender.send on a text.                                *)
Places ==
    \A c \in Caller :
        /\ pc[c].at # "idle" => pc[c].op \in Op
        /\ pc[c].at \in {"prepare", "insert"} => pc[c].op.kind = "text"

Holds(c) == pc[c].at \in {"calling", "waiting"}

(* A dispatched row has at most one task that may call OneBot or wait for   *)
(* its answer, and such a task's row is dispatched.                         *)
Owned ==
    /\ \A c \in Caller : Holds(c) => status[pc[c].op] = "dispatched"
    /\ \A c, d \in Caller : Holds(c) /\ Holds(d) /\ pc[c].op = pc[d].op => c = d

IInv == TypeOK /\ Places /\ Owned

(* What the row of an operation says of what the platform did. *)
Truthful ==
    /\ \A op \in Once :
          /\ status[op] \in {"absent", "pending"} => platform[op] = "quiet"
          /\ effects[op] = IF platform[op] = "accepted" THEN 1 ELSE 0
          /\ status[op] = "sent" => platform[op] = "accepted"
          /\ status[op] = "failed" => platform[op] = "refused"
    /\ \A c \in Caller :
          pc[c].at = "calling" /\ pc[c].op \in Once => platform[pc[c].op] = "quiet"

(* A task is past the first part only over a sent part. *)
Entered ==
    \A c \in Caller :
        /\ pc[c].op.kind = "text" /\ pc[c].op.event[2] # 1 =>
             status[TextOp(<<pc[c].op.event[1], pc[c].op.event[2] - 1>>)] = "sent"
        /\ pc[c].op.kind = "reaction" => status[TextOp(pc[c].op.event)] = "sent"

(* A task past the insertion of its event has an event. *)
Inserted ==
    \A c \in Caller :
        pc[c].at \in {"intent", "begin"} \cup {"calling", "waiting"} /\ pc[c].op \in Spoken
            => evStatus[pc[c].op.event] # "absent"
(* The steps of the inductive invariant: first the fields of a place. *)
LEMMA PlaceType ==
    /\ Idle \in [at : At, op : Op \cup {NoOp}]
    /\ \A at \in At, op \in Op : Doing(at, op) \in [at : At, op : Op \cup {NoOp}]
    /\ Idle.at = "idle" /\ Idle.op = NoOp
    /\ \A at, op : Doing(at, op).at = at /\ Doing(at, op).op = op
BY DEF Idle, Doing, At

(* A task that continues is well placed and holds nothing. *)
LEMMA ContinuingWell ==
    ASSUME NEW op \in Op, NEW st
    PROVE  LET next == Continue(op, st) IN
           /\ next \in [at : At, op : Op \cup {NoOp}]
           /\ next.at \notin {"calling", "waiting"}
           /\ next.at # "idle" => next.op \in Op
           /\ next.at \in {"prepare", "insert"} => next.op.kind = "text"
<1>1. CASE Continue(op, st) = Idle
    BY <1>1, PlaceType
<1>2. CASE /\ op.event[1] \in Reacting
           /\ Continue(op, st) = Doing("intent", ReactionOp(op.event[1]))
    <2>1. ReactionOp(op.event[1]) \in Op
        BY <1>2, OpsOf
    <2> QED BY <1>2, <2>1, PlaceType DEF At
<1>3. CASE \E p \in Part : \E at \in {"prepare", "insert"} : Continue(op, st) = Doing(at, TextOp(p))
    <2>1. PICK p \in Part, at \in {"prepare", "insert"} : Continue(op, st) = Doing(at, TextOp(p))
        BY <1>3
    <2>2. TextOp(p) \in Op /\ TextOp(p).kind = "text"
        BY OpsOf
    <2> QED BY <2>1, <2>2, PlaceType DEF At
<1>4. \/ Continue(op, st) = Idle
      \/ /\ op.event[1] \in Reacting
         /\ Continue(op, st) = Doing("intent", ReactionOp(op.event[1]))
      \/ \E p \in Part : \E at \in {"prepare", "insert"} : Continue(op, st) = Doing(at, TextOp(p))
    BY Continuing
<1> QED BY <1>1, <1>2, <1>3, <1>4

(* A task that continues to a stored intent continues to a reaction. *)
LEMMA ContinuingIntent ==
    ASSUME NEW op \in Op, NEW st,
           Continue(op, st).at \in {"intent", "begin"} \cup {"calling", "waiting"}
    PROVE  Continue(op, st).op \notin Spoken
<1>1. CASE Continue(op, st) = Idle
    BY <1>1, PlaceType
<1>2. CASE /\ op.event[1] \in Reacting
           /\ Continue(op, st) = Doing("intent", ReactionOp(op.event[1]))
    BY <1>2, PlaceType, OpsOf DEF Spoken
<1>3. CASE \E p \in Part : \E at \in {"prepare", "insert"} : Continue(op, st) = Doing(at, TextOp(p))
    BY <1>3, PlaceType
<1>4. \/ Continue(op, st) = Idle
      \/ /\ op.event[1] \in Reacting
         /\ Continue(op, st) = Doing("intent", ReactionOp(op.event[1]))
      \/ \E p \in Part : \E at \in {"prepare", "insert"} : Continue(op, st) = Doing(at, TextOp(p))
    BY Continuing
<1> QED BY <1>1, <1>2, <1>3, <1>4

(* The invariant holds of a step of one task that leaves the rows alone,    *)
(* when the task arrives at a good place and calls nobody.                  *)
LEMMA Moving ==
    ASSUME IInv, NEW c \in Caller, NEW next,
           next \in [at : At, op : Op \cup {NoOp}],
           next.at \notin {"calling", "waiting"},
           next.at # "idle" => next.op \in Op,
           next.at \in {"prepare", "insert"} => next.op.kind = "text",
           pc' = [pc EXCEPT ![c] = next],
           \A op \in Op : status[op] = "dispatched" /\ status'[op] # "dispatched" =>
               Holds(c) /\ pc[c].op = op
    PROVE  Places' /\ Owned' /\ pc' \in [Caller -> [at : At, op : Op \cup {NoOp}]]
<1>1. pc \in [Caller -> [at : At, op : Op \cup {NoOp}]]
    BY DEF IInv, TypeOK
<1>2. pc' \in [Caller -> [at : At, op : Op \cup {NoOp}]]
    BY <1>1
<1>3. pc'[c] = next /\ \A d \in Caller \ {c} : pc'[d] = pc[d]
    BY <1>1
<1>4. Places'
    BY <1>3 DEF IInv, Places
<1>5. ASSUME NEW d \in Caller, Holds(d)' PROVE d # c /\ Holds(d) /\ pc'[d] = pc[d]
    BY <1>3, <1>5 DEF Holds
<1>6. ASSUME NEW d \in Caller, Holds(d)' PROVE status'[pc'[d].op] = "dispatched"
    <2>1. d # c /\ Holds(d) /\ pc'[d] = pc[d]
        BY <1>5, <1>6
    <2>2. status[pc[d].op] = "dispatched" /\ pc[d].op \in Op
        BY <2>1 DEF IInv, Owned, Places, Holds
    <2> QED BY <2>1, <2>2 DEF IInv, Owned
<1> QED BY <1>2, <1>4, <1>5, <1>6 DEF IInv, Owned

(* A task that wins the row of its operation is its only owner. *)
LEMMA Winning ==
    ASSUME IInv, NEW c \in Caller, pc[c].op \in Op,
           status[pc[c].op] # "dispatched",
           pc' = [pc EXCEPT ![c] = Doing("calling", pc[c].op)],
           status' = [status EXCEPT ![pc[c].op] = "dispatched"]
    PROVE  Places' /\ Owned' /\ pc' \in [Caller -> [at : At, op : Op \cup {NoOp}]]
<1> DEFINE op == pc[c].op
<1>1. /\ pc \in [Caller -> [at : At, op : Op \cup {NoOp}]]
      /\ status \in [Op -> OutboxStatus]
    BY DEF IInv, TypeOK
<1>2. Doing("calling", op) \in [at : At, op : Op \cup {NoOp}]
    BY PlaceType DEF At
<1>3. pc' \in [Caller -> [at : At, op : Op \cup {NoOp}]]
    BY <1>1, <1>2
<1>4. /\ pc'[c].at = "calling" /\ pc'[c].op = op
      /\ \A d \in Caller \ {c} : pc'[d] = pc[d]
    BY <1>1, PlaceType
<1>5. status'[op] = "dispatched" /\ \A o \in Op \ {op} : status'[o] = status[o]
    BY <1>1
<1>6. Places'
    BY <1>4 DEF IInv, Places
<1>7. ASSUME NEW d \in Caller \ {c}, Holds(d)'
      PROVE  Holds(d) /\ pc[d].op \in Op /\ pc[d].op # op /\ status[pc[d].op] = "dispatched"
    BY <1>4, <1>7 DEF IInv, Owned, Places, Holds
<1>8. Owned'
    BY <1>4, <1>5, <1>7 DEF IInv, Owned, Holds
<1> QED BY <1>3, <1>6, <1>8

(* The inductive invariant holds at the start. *)
LEMMA Start == Init => IInv
<1> SUFFICES ASSUME Init PROVE IInv
    OBVIOUS
<1>1. \A c \in Caller : pc[c] = Idle
    BY DEF Init
<1>2. TypeOK
    BY PlaceType, OpsOf, DeliveryAssumption DEF Init, TypeOK, OutboxStatus, Terminal, PlatformState
<1>3. Places /\ Owned
    BY <1>1, PlaceType DEF Places, Owned, Holds
<1> QED BY <1>2, <1>3 DEF IInv

(* Every step preserves the inductive invariant. *)
LEMMA Step == IInv /\ [Next]_vars => IInv'
<1> SUFFICES ASSUME IInv, [Next]_vars PROVE IInv'
    OBVIOUS
<1> DEFINE Place == [at : At, op : Op \cup {NoOp}]
<1>0. TypeOK /\ Places /\ Owned
    BY DEF IInv
<1>1. ASSUME NEW c \in Caller, NEW g \in Group, CallSend(c, g) PROVE IInv'
    <2>1. <<g, 1>> \in Part
        BY PartFacts, DeliveryAssumption
    <2>2. PICK at \in {"prepare", "insert"} : StartPart(<<g, 1>>) = Doing(at, TextOp(<<g, 1>>))
        BY DEF StartPart
    <2>3. /\ StartPart(<<g, 1>>) \in Place
          /\ StartPart(<<g, 1>>).at \in {"prepare", "insert"}
          /\ StartPart(<<g, 1>>).op \in Op /\ StartPart(<<g, 1>>).op.kind = "text"
        BY <2>1, <2>2, PlaceType, OpsOf DEF At
    <2>4. Places' /\ Owned' /\ pc' \in [Caller -> Place]
        BY <1>1, <2>3, Moving DEF CallSend, rows
    <2> QED BY <1>0, <1>1, <2>4 DEF IInv, TypeOK, CallSend, rows, net
<1>2. ASSUME NEW c \in Caller, NEW s \in Solo, CallSolo(c, s) PROVE IInv'
    <2> DEFINE next == Doing("intent", SoloOp(s))
    <2>1. next \in Place /\ next.at = "intent" /\ next.op \in Op
        BY PlaceType, OpsOf DEF At
    <2>2. pc' = [pc EXCEPT ![c] = next] /\ UNCHANGED status
        BY <1>2 DEF CallSolo
    <2>3. Places' /\ Owned' /\ pc' \in [Caller -> Place]
        <3> HIDE DEF next
        <3> QED BY <2>1, <2>2, Moving
    <2> QED BY <1>0, <1>2, <2>3 DEF IInv, TypeOK, CallSolo, net
<1>3. ASSUME NEW c \in Caller, NEW k \in Poke, CallPoke(c, k) PROVE IInv'
    <2> DEFINE next == Doing("intent", PokeOp(k))
    <2>1. next \in Place /\ next.at = "intent" /\ next.op \in Op
        BY PlaceType, OpsOf DEF At
    <2>2. pc' = [pc EXCEPT ![c] = next] /\ UNCHANGED status
        BY <1>3 DEF CallPoke, rows
    <2>3. Places' /\ Owned' /\ pc' \in [Caller -> Place]
        <3> HIDE DEF next
        <3> QED BY <2>1, <2>2, Moving
    <2> QED BY <1>0, <1>3, <2>3 DEF IInv, TypeOK, CallPoke, rows, net
<1>4. ASSUME NEW c \in Caller, GuardRejects(c) PROVE IInv'
    <2>1. Places' /\ Owned' /\ pc' \in [Caller -> Place]
        BY <1>4, PlaceType, Moving DEF GuardRejects, rows
    <2> QED BY <1>0, <1>4, <2>1 DEF IInv, TypeOK, GuardRejects, rows, net
<1>5. ASSUME NEW c \in Caller, Prepare(c) PROVE IInv'
    <2> DEFINE op == pc[c].op
    <2>1. op \in Op /\ op \in Once /\ op.event \in Event
        BY <1>0, <1>5, OpFacts DEF Prepare, Places, Event
    <2>2. evStatus' \in [Event -> {"absent", "pending"} \cup Terminal]
        BY <1>0, <1>5, <2>1 DEF Prepare, TypeOK
    <2>3. CASE status[op] \in Fresh
        <3>1. Places' /\ Owned' /\ pc' \in [Caller -> Place]
            BY <1>5, <2>1, <2>3, Winning DEF Prepare, Fresh
        <3>2. /\ status' = [status EXCEPT ![op] = "dispatched"]
              /\ attempts' = [attempts EXCEPT ![op] = @ + 1]
              /\ attempts[op] = 0
            BY <1>0, <1>5, <2>1, <2>3 DEF Prepare, TypeOK, Fresh
        <3> QED BY <1>0, <1>5, <2>1, <2>2, <3>1, <3>2, OpsOf
                DEF IInv, TypeOK, Prepare, net, OutboxStatus
    <2>4. CASE status[op] \notin Fresh
        <3>1. Places' /\ Owned' /\ pc' \in [Caller -> Place]
            BY <1>5, <2>1, <2>4, ContinuingWell, Moving DEF Prepare
        <3> QED BY <1>0, <1>5, <2>2, <2>4, <3>1 DEF IInv, TypeOK, Prepare, net
    <2> QED BY <2>3, <2>4
<1>6. ASSUME NEW c \in Caller, InsertEvent(c) PROVE IInv'
    <2> DEFINE op == pc[c].op
    <2>1. op \in Op /\ op.event \in Event
        BY <1>0, <1>6, OpFacts DEF InsertEvent, Places, Event
    <2> DEFINE next == Doing("intent", op)
    <2>2. next \in Place /\ next.at = "intent" /\ next.op \in Op
        BY <2>1, PlaceType DEF At
    <2>3. pc' = [pc EXCEPT ![c] = next] /\ UNCHANGED status
        BY <1>6 DEF InsertEvent
    <2>4. Places' /\ Owned' /\ pc' \in [Caller -> Place]
        <3> HIDE DEF next
        <3> QED BY <2>2, <2>3, Moving
    <2> QED BY <1>0, <1>6, <2>1, <2>4 DEF IInv, TypeOK, InsertEvent, net
<1>7. ASSUME NEW c \in Caller, CreateIntent(c) PROVE IInv'
    <2> DEFINE op == pc[c].op
    <2>1. op \in Op
        BY <1>0, <1>7 DEF CreateIntent, Places
    <2>2. /\ status' \in [Op -> OutboxStatus]
          /\ \A o \in Op : status'[o] = status[o] \/ (status[o] = "absent" /\ status'[o] = "pending")
        <3>1. /\ status \in [Op -> OutboxStatus]
              /\ status' = [status EXCEPT ![op] = IF status[op] = "absent" THEN "pending" ELSE status[op]]
            BY <1>0, <1>7 DEF CreateIntent, TypeOK
        <3>2. "pending" \in OutboxStatus
            BY DEF OutboxStatus
        <3>3. CASE status[op] = "absent"
            <4>1. status' = [status EXCEPT ![op] = "pending"]
                BY <3>1, <3>3
            <4> HIDE DEF op
            <4> QED BY <2>1, <3>1, <3>2, <3>3, <4>1
        <3>4. CASE status[op] # "absent"
            <4>1. status' = status
                BY <2>1, <3>1, <3>4
            <4> QED BY <3>1, <4>1
        <3> QED BY <3>3, <3>4
    <2> DEFINE next == IF status[op] \in Fresh THEN Doing("begin", op) ELSE Continue(op, status[op])
    <2>3. /\ next \in Place
          /\ next.at \notin {"calling", "waiting"}
          /\ next.at # "idle" => next.op \in Op
          /\ next.at \in {"prepare", "insert"} => next.op.kind = "text"
        BY <2>1, PlaceType, ContinuingWell DEF At
    <2>4. Places' /\ Owned' /\ pc' \in [Caller -> Place]
        BY <1>7, <2>2, <2>3, Moving DEF CreateIntent
    <2> QED BY <1>0, <1>7, <2>2, <2>4, OpsOf DEF IInv, TypeOK, CreateIntent, net
<1>8. ASSUME NEW c \in Caller, BeginDispatch(c) PROVE IInv'
    <2> DEFINE op == pc[c].op
    <2>1. op \in Op
        BY <1>0, <1>8 DEF BeginDispatch, Places
    <2>2. CASE MayBegin(op)
        <3>1. Places' /\ Owned' /\ pc' \in [Caller -> Place]
            BY <1>8, <2>1, <2>2, Winning DEF BeginDispatch, MayBegin
        <3>2. /\ status' = [status EXCEPT ![op] = "dispatched"]
              /\ attempts' = [attempts EXCEPT ![op] = @ + 1]
              /\ op \in Once => attempts[op] = 0
            BY <1>0, <1>8, <2>1, <2>2 DEF BeginDispatch, TypeOK, MayBegin
        <3> QED BY <1>0, <1>8, <2>1, <3>1, <3>2, OpsOf
                DEF IInv, TypeOK, BeginDispatch, net, OutboxStatus
    <2>3. CASE ~MayBegin(op)
        <3>1. Places' /\ Owned' /\ pc' \in [Caller -> Place]
            BY <1>8, <2>1, <2>3, ContinuingWell, Moving DEF BeginDispatch
        <3> QED BY <1>0, <1>8, <2>3, <3>1 DEF IInv, TypeOK, BeginDispatch, net
    <2> QED BY <2>2, <2>3
<1>9. ASSUME NEW c \in Caller, Transmit(c) PROVE IInv'
    <2> DEFINE op == pc[c].op
    <2>1. op \in Op
        BY <1>0, <1>9 DEF Transmit, Places
    <2>2. pc' \in [Caller -> Place] /\ pc'[c].at = "waiting" /\ pc'[c].op = op
        BY <1>0, <1>9, <2>1, PlaceType DEF Transmit, TypeOK, At
    <2>3. \A d \in Caller \ {c} : pc'[d] = pc[d]
        BY <1>0, <1>9 DEF Transmit, TypeOK
    <2>4. Places'
        BY <1>0, <2>1, <2>2, <2>3 DEF Places
    <2>5. \A d \in Caller : (Holds(d)' <=> Holds(d)) /\ pc'[d].op = pc[d].op
        BY <1>9, <2>2, <2>3 DEF Transmit, Holds
    <2>6. Owned'
        BY <1>0, <1>9, <2>5 DEF Owned, Transmit, rows
    <2> QED BY <1>0, <1>9, <2>1, <2>2, <2>4, <2>6
            DEF IInv, TypeOK, Transmit, rows, PlatformState
<1>10. ASSUME NEW op \in Op, Accept(op) \/ RefuseOrLose(op) PROVE IInv'
    <2>1. Places' /\ Owned'
        BY <1>0, <1>10 DEF Accept, RefuseOrLose, Places, Owned, Holds, rows
    <2> QED BY <1>0, <1>10, <2>1 DEF IInv, TypeOK, Accept, RefuseOrLose, rows, PlatformState
<1>11. ASSUME NEW c \in Caller, Answer(c) PROVE IInv'
    <2> DEFINE op == pc[c].op
    <2>1. op \in Op /\ Holds(c) /\ status[op] = "dispatched"
        BY <1>0, <1>11 DEF Answer, Ambiguous, Refused, DoneSilent, DoneText, Places, Owned, Holds
    <2>2. PICK st \in Terminal : Settle(op, st)
        BY <1>11 DEF Answer, Ambiguous, Refused, DoneSilent, DoneText, Terminal, UnclearVerdict
    <2>3. op \in Spoken => op.event \in Event
        BY <2>1, OpFacts DEF Event
    <2>4. /\ status' = [status EXCEPT ![op] = st]
          /\ status' \in [Op -> OutboxStatus]
          /\ evStatus' \in [Event -> {"absent", "pending"} \cup Terminal]
          /\ UNCHANGED attempts
        BY <1>0, <2>1, <2>2, <2>3 DEF Settle, TypeOK, OutboxStatus
    <2>5. \A o \in Once : attempts'[o] = IF status'[o] \in {"absent", "pending"} THEN 0 ELSE 1
        BY <1>0, <2>1, <2>4, OpsOf DEF TypeOK, Terminal
    <2>6. pc' = [pc EXCEPT ![c] = Idle] \/ pc' = [pc EXCEPT ![c] = Continue(op, "sent")]
        BY <1>11 DEF Answer, Ambiguous, Refused, DoneSilent, DoneText
    <2>7. Places' /\ Owned' /\ pc' \in [Caller -> Place]
        BY <2>1, <2>4, <2>6, <1>0, PlaceType, ContinuingWell, Moving DEF TypeOK
    <2>8. /\ mapping' \in [MsgId -> Event \cup {Nobody, Foreign}]
          /\ hooks' \in [Group -> Nat]
        BY <1>0, <1>11, <2>1, <2>3
        DEF Answer, Ambiguous, Refused, DoneSilent, DoneText, TypeOK
    <2>9. UNCHANGED <<open, net, crashes>>
        BY <1>11 DEF Answer, Ambiguous, Refused, DoneSilent, DoneText
    <2> QED BY <1>0, <2>4, <2>5, <2>7, <2>8, <2>9 DEF IInv, TypeOK, net
<1>12. ASSUME NEW m \in MsgId, InboundId(m) PROVE IInv'
    <2>1. Places' /\ Owned'
        BY <1>0, <1>12 DEF InboundId, Places, Owned, Holds
    <2> QED BY <1>0, <1>12, <2>1 DEF IInv, TypeOK, InboundId, net
<1>13. ASSUME NEW g \in Group, GuardChanges(g) PROVE IInv'
    <2>1. Places' /\ Owned'
        BY <1>0, <1>13 DEF GuardChanges, Places, Owned, Holds, rows
    <2> QED BY <1>0, <1>13, <2>1 DEF IInv, TypeOK, GuardChanges, rows, net
<1>14. ASSUME NEW g \in Group, RecoverReaction(g) PROVE IInv'
    <2> DEFINE op == ReactionOp(g)
    <2>1. op \in Op /\ op \notin Once
        BY <1>14, OpsOf, OpFacts DEF RecoverReaction
    <2>2. Places' /\ Owned'
        BY <1>0, <1>14, <2>1 DEF RecoverReaction, Places, Owned, Holds, TypeOK
    <2> QED BY <1>0, <1>14, <2>1, <2>2 DEF IInv, TypeOK, RecoverReaction, net, OutboxStatus
<1>15. CASE Crash
    <2>1. pc' \in [Caller -> Place] /\ \A c \in Caller : pc'[c].at = "idle"
        BY <1>15, PlaceType DEF Crash
    <2>2. Places' /\ Owned'
        BY <2>1 DEF Places, Owned, Holds
    <2> QED BY <1>0, <1>15, <2>1, <2>2, DeliveryAssumption DEF IInv, TypeOK, Crash, rows, net
<1>16. CASE UNCHANGED vars
    BY <1>0, <1>16 DEF IInv, TypeOK, Places, Owned, Holds, vars, rows, net
<1> QED
    BY <1>1, <1>2, <1>3, <1>4, <1>5, <1>6, <1>7, <1>8, <1>9, <1>10, <1>11, <1>12, <1>13,
       <1>14, <1>15, <1>16
    DEF Next, Call, Store, Environment

(* Every row, event, id and task of the sender keeps its type, and nothing  *)
(* but a reaction is ever handed to the platform a second time.             *)
THEOREM TypeCorrect == Spec => []TypeOK
<1>1. IInv => TypeOK
    BY DEF IInv
<1> QED BY <1>1, Start, Step, PTL DEF Spec

-----------------------------------------------------------------------------
(* What one step does to a row, and to a task. *)

(* The answers: what a verdict says of the platform. *)
LEMMA AnswerStep ==
    ASSUME IInv, NEW c \in Caller, Answer(c)
    PROVE  /\ pc[c].op \in Op /\ status[pc[c].op] = "dispatched" /\ Holds(c)
           /\ \E st \in Terminal :
                 /\ status' = [status EXCEPT ![pc[c].op] = st]
                 /\ Settle(pc[c].op, st)
                 /\ st = "sent" => platform[pc[c].op] = "accepted"
                 /\ st = "failed" => platform[pc[c].op] = "refused"
           /\ \A d \in Caller : Holds(d)' => pc'[d] = pc[d]
           /\ UNCHANGED <<platform, effects, open, crashes>>
<1>0. TypeOK /\ Places /\ Owned
    BY DEF IInv
<1>1. /\ pc[c].op \in Op /\ status[pc[c].op] = "dispatched" /\ Holds(c)
    BY <1>0 DEF Answer, Ambiguous, Refused, DoneSilent, DoneText, Places, Owned, Holds
<1>2. CASE \E m \in MsgId : DoneText(c, m)
    <2>1. PICK m \in MsgId : DoneText(c, m)
        BY <1>2
    <2>2. pc' = [pc EXCEPT ![c] = Idle] \/ pc' = [pc EXCEPT ![c] = Continue(pc[c].op, "sent")]
        BY <2>1 DEF DoneText
    <2>3. pc'[c].at \notin {"calling", "waiting"} /\ \A d \in Caller \ {c} : pc'[d] = pc[d]
        BY <1>0, <1>1, <2>2, ContinuingWell, PlaceType DEF TypeOK
    <2>4. \E st \in {"sent", "unknown"} : Settle(pc[c].op, st) /\ platform[pc[c].op] = "accepted"
        BY <2>1 DEF DoneText
    <2>5. UNCHANGED <<platform, effects, open, crashes>>
        BY <2>1 DEF DoneText, net
    <2> QED BY <1>1, <2>3, <2>4, <2>5 DEF Settle, Terminal, Holds
<1>3. CASE Ambiguous(c) \/ Refused(c) \/ DoneSilent(c)
    <2>1. pc' = [pc EXCEPT ![c] = Idle] /\ UNCHANGED <<platform, effects, open, crashes>>
        BY <1>3 DEF Ambiguous, Refused, DoneSilent, net
    <2>2. pc'[c].at = "idle" /\ \A d \in Caller \ {c} : pc'[d] = pc[d]
        BY <1>0, <2>1, PlaceType DEF TypeOK
    <2>3. \E st \in Terminal : /\ Settle(pc[c].op, st)
                               /\ st = "sent" => platform[pc[c].op] = "accepted"
                               /\ st = "failed" => platform[pc[c].op] = "refused"
        BY <1>3 DEF Ambiguous, Refused, DoneSilent, Terminal, UnclearVerdict
    <2> QED BY <1>1, <2>1, <2>2, <2>3 DEF Settle, Holds
<1> QED BY <1>2, <1>3 DEF Answer

(* A row moves forward only, and a verdict tells what the platform did. *)
LEMMA RowStep ==
    ASSUME IInv, [Next]_vars, NEW op \in Op
    PROVE  \/ status'[op] = status[op]
           \/ /\ status[op] \in Fresh /\ status'[op] \in {"pending", "dispatched"}
              /\ \E c \in Caller : pc[c].at # "idle" /\ pc[c].op = op
           \/ /\ status[op] = "dispatched" /\ status'[op] \in Terminal
              /\ status'[op] = "sent" => platform[op] = "accepted"
              /\ status'[op] = "failed" => platform[op] = "refused"
           \/ op \notin Once /\ status[op] = "unknown" /\ status'[op] = "pending"
<1>0. TypeOK /\ Places /\ Owned
    BY DEF IInv
<1>1. ASSUME NEW c \in Caller, Prepare(c) \/ CreateIntent(c) \/ BeginDispatch(c)
      PROVE  \/ status'[op] = status[op]
             \/ /\ status[op] \in Fresh /\ status'[op] \in {"pending", "dispatched"}
                /\ pc[c].at # "idle" /\ pc[c].op = op
    BY <1>0, <1>1 DEF Prepare, CreateIntent, BeginDispatch, MayBegin, Fresh, TypeOK
<1>2. ASSUME NEW c \in Caller, Answer(c)
      PROVE  \/ status'[op] = status[op]
             \/ /\ status[op] = "dispatched" /\ status'[op] \in Terminal
                /\ status'[op] = "sent" => platform[op] = "accepted"
                /\ status'[op] = "failed" => platform[op] = "refused"
    BY <1>0, <1>2, AnswerStep DEF TypeOK
<1>3. ASSUME NEW g \in Group, RecoverReaction(g)
      PROVE  \/ status'[op] = status[op]
             \/ op \notin Once /\ status[op] = "unknown" /\ status'[op] = "pending"
    <2>1. ReactionOp(g) \in Op /\ ReactionOp(g) \notin Once
        BY <1>3, OpsOf, OpFacts DEF RecoverReaction
    <2> QED BY <1>0, <1>3, <2>1 DEF RecoverReaction, TypeOK
<1>4. CASE UNCHANGED status
    BY <1>4
<1>5. \/ \E c \in Caller : Prepare(c) \/ CreateIntent(c) \/ BeginDispatch(c)
      \/ \E c \in Caller : Answer(c)
      \/ \E g \in Group : RecoverReaction(g)
      \/ UNCHANGED status
    BY DEF Next, Call, Store, Environment, CallSend, CallSolo, CallPoke, GuardRejects, InsertEvent,
           Transmit, Accept, RefuseOrLose, InboundId, GuardChanges, Crash, vars, rows
<1> QED BY <1>1, <1>2, <1>3, <1>4, <1>5

(* What was sent stays sent. *)
LEMMA SentStays ==
    ASSUME IInv, [Next]_vars, NEW op \in Op, status[op] = "sent"
    PROVE  status'[op] = "sent"
BY RowStep DEF Fresh

(* A task stays, turns to an operation that opens a call, or continues with *)
(* the status of its row.                                                   *)
LEMMA TaskStep ==
    ASSUME IInv, [Next]_vars, NEW c \in Caller
    PROVE  \/ pc'[c].op = pc[c].op
           \/ pc'[c].op = NoOp
           \/ pc'[c].op \in Op /\ pc'[c].op.kind \in {"solo", "poke"}
           \/ \E g \in Group : <<g, 1>> \in Part /\ pc'[c].op = TextOp(<<g, 1>>)
           \/ pc[c].op \in Op /\ pc'[c] = Continue(pc[c].op, status'[pc[c].op])
<1>0. TypeOK /\ Places /\ Owned
    BY DEF IInv
<1>1. ASSUME NEW d \in Caller, d # c, pc' = [pc EXCEPT ![d] = pc'[d]] PROVE pc'[c] = pc[c]
    BY <1>0, <1>1 DEF TypeOK
<1>2. ASSUME NEW g \in Group, CallSend(c, g)
      PROVE  <<g, 1>> \in Part /\ pc'[c].op = TextOp(<<g, 1>>)
    <2>1. <<g, 1>> \in Part
        BY PartFacts, DeliveryAssumption
    <2>2. pc'[c] = StartPart(<<g, 1>>)
        BY <1>0, <1>2 DEF CallSend, TypeOK
    <2> QED BY <2>1, <2>2, PlaceType DEF StartPart
<1>3. ASSUME NEW s \in Solo, CallSolo(c, s) PROVE pc'[c].op = SoloOp(s)
    BY <1>0, <1>3, PlaceType DEF CallSolo, TypeOK
<1>4. ASSUME NEW k \in Poke, CallPoke(c, k) PROVE pc'[c].op = PokeOp(k)
    BY <1>0, <1>4, PlaceType DEF CallPoke, TypeOK
<1>5. ASSUME GuardRejects(c) \/ Ambiguous(c) \/ Refused(c) \/ DoneSilent(c) PROVE pc'[c].op = NoOp
    BY <1>0, <1>5, PlaceType DEF GuardRejects, Ambiguous, Refused, DoneSilent, TypeOK
<1>6. ASSUME InsertEvent(c) \/ Transmit(c) PROVE pc'[c].op = pc[c].op
    BY <1>0, <1>6, PlaceType DEF InsertEvent, Transmit, TypeOK
<1>7. ASSUME Prepare(c) \/ CreateIntent(c) \/ BeginDispatch(c)
      PROVE  \/ pc'[c].op = pc[c].op
             \/ pc[c].op \in Op /\ pc'[c] = Continue(pc[c].op, status'[pc[c].op])
    <2>1. pc[c].op \in Op
        BY <1>0, <1>7 DEF Prepare, CreateIntent, BeginDispatch, Places
    <2>2. CASE Prepare(c)
        BY <1>0, <2>1, <2>2, PlaceType DEF Prepare, TypeOK
    <2>3. CASE CreateIntent(c)
        <3>1. CASE status[pc[c].op] \in Fresh
            BY <1>0, <2>3, <3>1, PlaceType DEF CreateIntent, TypeOK
        <3>2. CASE status[pc[c].op] \notin Fresh
            BY <1>0, <2>1, <2>3, <3>2 DEF CreateIntent, TypeOK, Fresh
        <3> QED BY <3>1, <3>2
    <2>4. CASE BeginDispatch(c)
        BY <1>0, <2>1, <2>4, PlaceType DEF BeginDispatch, TypeOK
    <2> QED BY <1>7, <2>2, <2>3, <2>4
<1>8. ASSUME NEW m \in MsgId, DoneText(c, m)
      PROVE  \/ pc'[c].op = NoOp
             \/ pc[c].op \in Op /\ pc'[c] = Continue(pc[c].op, status'[pc[c].op])
    <2>1. pc[c].op \in Op
        BY <1>0, <1>8 DEF DoneText, Places
    <2>2. CASE Collides(pc[c].op.event, m)
        BY <1>0, <1>8, <2>2, PlaceType DEF DoneText, TypeOK
    <2>3. CASE ~Collides(pc[c].op.event, m)
        BY <1>0, <1>8, <2>1, <2>3 DEF DoneText, Settle, TypeOK
    <2> QED BY <2>2, <2>3
<1>9. ASSUME Crash PROVE pc'[c].op = NoOp
    BY <1>9, PlaceType DEF Crash
<1>10. CASE pc' = pc
    BY <1>10
<1>11. CASE \E d \in Caller \ {c} : Call(d) \/ Store(d) \/ Transmit(d) \/ Answer(d)
    <2>1. PICK d \in Caller \ {c} : Call(d) \/ Store(d) \/ Transmit(d) \/ Answer(d)
        BY <1>11
    <2>2. pc'[c] = pc[c]
        BY <1>0, <2>1
        DEF TypeOK, Call, Store, Answer, CallSend, CallSolo, CallPoke, GuardRejects, Prepare,
            InsertEvent, CreateIntent, BeginDispatch, Transmit, Ambiguous, Refused, DoneSilent,
            DoneText
    <2> QED BY <2>2
<1>12. CASE Call(c) \/ Store(c) \/ Transmit(c) \/ Answer(c)
    BY <1>2, <1>3, <1>4, <1>5, <1>6, <1>7, <1>8, <1>12, OpsOf DEF Call, Store, Answer
<1>13. CASE Environment \/ UNCHANGED vars
    BY <1>9, <1>10, <1>13
    DEF Environment, Accept, RefuseOrLose, InboundId, GuardChanges, RecoverReaction, vars
<1> QED BY <1>11, <1>12, <1>13 DEF Next

-----------------------------------------------------------------------------
(* Order within a group. *)

(* Tasks enter a part or a reaction over what was sent. *)
LEMMA EnteredStep == IInv /\ Entered /\ [Next]_vars => Entered'
<1> SUFFICES ASSUME IInv, Entered, [Next]_vars, NEW c \in Caller
             PROVE  /\ pc'[c].op.kind = "text" /\ pc'[c].op.event[2] # 1 =>
                         status'[TextOp(<<pc'[c].op.event[1], pc'[c].op.event[2] - 1>>)] = "sent"
                    /\ pc'[c].op.kind = "reaction" => status'[TextOp(pc'[c].op.event)] = "sent"
    BY DEF Entered
<1>0. pc[c].op \in Op \/ pc[c].op = NoOp
    BY DEF IInv, TypeOK
<1>1. CASE pc'[c].op = pc[c].op
    <2>1. CASE pc[c].op \in Op /\ pc[c].op.kind = "text" /\ pc[c].op.event[2] # 1
        <3>1. <<pc[c].op.event[1], pc[c].op.event[2] - 1>> \in Part
            BY <2>1, OpFacts, PartFacts, DeliveryAssumption
        <3> QED BY <1>1, <2>1, <3>1, OpsOf, SentStays DEF Entered
    <2>2. CASE pc[c].op \in Op /\ pc[c].op.kind = "reaction"
        <3>1. TextOp(pc[c].op.event) \in Op
            BY <2>2, OpFacts, OpsOf
        <3>2. status[TextOp(pc[c].op.event)] = "sent"
            BY <2>2 DEF Entered
        <3>3. status'[TextOp(pc[c].op.event)] = "sent"
            BY <3>1, <3>2, SentStays
        <3> QED BY <1>1, <2>2, <3>3
    <2> QED BY <1>0, <1>1, <2>1, <2>2, OpsOf
<1>2. CASE pc'[c].op = NoOp
    BY <1>2, OpsOf
<1>3. CASE pc'[c].op.kind \in {"solo", "poke"}
    BY <1>3
<1>4. CASE \E g \in Group : <<g, 1>> \in Part /\ pc'[c].op = TextOp(<<g, 1>>)
    BY <1>4, OpsOf
<1>5. CASE pc[c].op \in Op /\ pc'[c] = Continue(pc[c].op, status'[pc[c].op])
    <2> DEFINE op == pc[c].op
               st == status'[pc[c].op]
    <2>1. CASE Continue(op, st) = Idle
        BY <1>5, <2>1, PlaceType, OpsOf
    <2>2. CASE /\ op.kind = "text" /\ st = "sent"
               /\ op.event[1] \in Reacting /\ op.event[2] = PartCount[op.event[1]]
               /\ Continue(op, st) = Doing("intent", ReactionOp(op.event[1]))
        <3>1. pc'[c].op = ReactionOp(op.event[1])
            BY <1>5, <2>2, PlaceType
        <3>2. op.event \in Part /\ op = TextOp(op.event)
            BY <1>5, <2>2, OpFacts
        <3>3. pc'[c].op.kind = "reaction" /\ pc'[c].op.event = op.event
            BY <2>2, <3>1, <3>2, OpsOf, PartFacts
        <3> QED BY <2>2, <3>2, <3>3
    <2>3. CASE /\ op.kind = "text" /\ st = "sent"
               /\ <<op.event[1], op.event[2] + 1>> \in Part
               /\ \E at \in {"prepare", "insert"} :
                     Continue(op, st) = Doing(at, TextOp(<<op.event[1], op.event[2] + 1>>))
        <3>1. pc'[c].op = TextOp(<<op.event[1], op.event[2] + 1>>)
            BY <1>5, <2>3, PlaceType
        <3>2. op.event \in Part /\ op = TextOp(op.event)
            BY <1>5, <2>3, OpFacts
        <3>3. pc'[c].op.kind = "text" /\ pc'[c].op.event = <<op.event[1], op.event[2] + 1>>
            BY <2>3, <3>1, OpsOf
        <3>4. <<op.event[1], (op.event[2] + 1) - 1>> = op.event
            BY <3>2, PartFacts, DeliveryAssumption
        <3> QED BY <2>3, <3>2, <3>3, <3>4
    <2>4. LET next == Continue(op, st) IN
          \/ next = Idle
          \/ /\ op.kind = "text" /\ st = "sent"
             /\ op.event[1] \in Reacting /\ op.event[2] = PartCount[op.event[1]]
             /\ next = Doing("intent", ReactionOp(op.event[1]))
          \/ /\ op.kind = "text" /\ st = "sent"
             /\ op.event[2] < PartCount[op.event[1]]
             /\ <<op.event[1], op.event[2] + 1>> \in Part
             /\ \E at \in {"prepare", "insert"} :
                   next = Doing(at, TextOp(<<op.event[1], op.event[2] + 1>>))
        <3> HIDE DEF st
        <3> QED BY <1>5, Continuing
    <2> QED BY <2>1, <2>2, <2>3, <2>4
<1> QED BY <1>1, <1>2, <1>3, <1>4, <1>5, TaskStep

(* So rows of a group come into being in order. *)
LEMMA OrderStep == IInv /\ Entered /\ PartsInOrder /\ [Next]_vars => PartsInOrder'
<1> SUFFICES ASSUME IInv, Entered, PartsInOrder, [Next]_vars PROVE PartsInOrder'
    OBVIOUS
<1>0. /\ \A op \in Op : status[op] = "absent" /\ status'[op] # "absent" =>
                           \E c \in Caller : pc[c].at # "idle" /\ pc[c].op = op
    BY RowStep DEF Fresh
<1>1. ASSUME NEW g \in Group, NEW i \in 2..PartCount[g], status'[TextOp(<<g, i>>)] # "absent"
      PROVE  status'[TextOp(<<g, i - 1>>)] = "sent"
    <2>1. <<g, i>> \in Part /\ <<g, i - 1>> \in Part
        BY PartFacts, DeliveryAssumption
    <2>2. /\ TextOp(<<g, i>>) \in Op /\ TextOp(<<g, i - 1>>) \in Op
          /\ TextOp(<<g, i>>).kind = "text" /\ TextOp(<<g, i>>).event = <<g, i>>
        BY <2>1, OpsOf
    <2>3. CASE status[TextOp(<<g, i>>)] # "absent"
        BY <2>2, <2>3, SentStays DEF PartsInOrder
    <2>4. CASE status[TextOp(<<g, i>>)] = "absent"
        <3>1. PICK c \in Caller : pc[c].op = TextOp(<<g, i>>)
            BY <1>0, <1>1, <2>2, <2>4
        <3>2. status[TextOp(<<g, i - 1>>)] = "sent"
            BY <2>2, <3>1 DEF Entered
        <3> QED BY <2>2, <3>2, SentStays
    <2> QED BY <2>3, <2>4
<1>2. ASSUME NEW g \in Reacting, status'[ReactionOp(g)] # "absent"
      PROVE  status'[TextOp(<<g, PartCount[g]>>)] = "sent"
    <2>1. <<g, PartCount[g]>> \in Part
        BY PartFacts, DeliveryAssumption
    <2>2. /\ ReactionOp(g) \in Op /\ TextOp(<<g, PartCount[g]>>) \in Op
          /\ ReactionOp(g).kind = "reaction" /\ ReactionOp(g).event = <<g, PartCount[g]>>
        BY <2>1, OpsOf
    <2>3. CASE status[ReactionOp(g)] # "absent"
        BY <2>2, <2>3, SentStays DEF PartsInOrder
    <2>4. CASE status[ReactionOp(g)] = "absent"
        <3>1. PICK c \in Caller : pc[c].op = ReactionOp(g)
            BY <1>0, <1>2, <2>2, <2>4
        <3>2. status[TextOp(<<g, PartCount[g]>>)] = "sent"
            BY <2>2, <3>1 DEF Entered
        <3> QED BY <2>2, <3>2, SentStays
    <2> QED BY <2>3, <2>4
<1> QED BY <1>1, <1>2 DEF PartsInOrder

(* A reply of any number of parts is never cut in the middle or shuffled,   *)
(* however many tasks send it and wherever the process dies.                *)
THEOREM Ordered == Spec => []PartsInOrder
<1>1. Init => Entered /\ PartsInOrder
    <2> SUFFICES ASSUME Init PROVE Entered /\ PartsInOrder
        OBVIOUS
    <2>1. Entered
        BY PlaceType, OpsOf DEF Init, Entered
    <2>2. PartsInOrder
        BY PartFacts, OpsOf, DeliveryAssumption DEF Init, PartsInOrder
    <2> QED BY <2>1, <2>2
<1> QED BY <1>1, Start, Step, EnteredStep, OrderStep, PTL DEF Spec

-----------------------------------------------------------------------------
(* The promise of AtMostOnce. *)

(* A task is about to call OneBot only after it took its row from fresh. *)
LEMMA Taking ==
    ASSUME IInv, [Next]_vars, NEW c \in Caller, pc'[c].at = "calling"
    PROVE  \/ pc'[c] = pc[c]
           \/ /\ pc[c].op \in Op /\ status[pc[c].op] \in Fresh
              /\ pc'[c].op = pc[c].op /\ UNCHANGED net
<1>0. TypeOK /\ Places /\ Owned
    BY DEF IInv
<1>1. CASE pc'[c] = pc[c]
    BY <1>1
<1>2. CASE Transmit(c)
    BY <1>0, <1>2, PlaceType DEF Transmit, TypeOK
<1>3. CASE Prepare(c) \/ BeginDispatch(c)
    <2>1. pc[c].op \in Op
        BY <1>0, <1>3 DEF Prepare, BeginDispatch, Places
    <2>2. CASE pc' = [pc EXCEPT ![c] = Doing("calling", pc[c].op)] /\ status[pc[c].op] \in Fresh
        BY <1>0, <1>3, <2>1, <2>2, PlaceType DEF TypeOK, Prepare, BeginDispatch
    <2>3. CASE pc' = [pc EXCEPT ![c] = Continue(pc[c].op, status[pc[c].op])]
        BY <1>0, <2>1, <2>3, ContinuingWell DEF TypeOK
    <2> QED BY <1>3, <2>2, <2>3 DEF Prepare, BeginDispatch, MayBegin, Fresh
<1>4. CASE CreateIntent(c)
    <2>1. pc[c].op \in Op
        BY <1>0, <1>4 DEF CreateIntent, Places
    <2>2. pc'[c] = Doing("begin", pc[c].op) \/ pc'[c] = Continue(pc[c].op, status[pc[c].op])
        BY <1>0, <1>4 DEF CreateIntent, TypeOK
    <2> QED BY <2>1, <2>2, PlaceType, ContinuingWell
<1>5. CASE Answer(c)
    BY <1>5, AnswerStep DEF Holds
<1>6. CASE Call(c) \/ GuardRejects(c) \/ InsertEvent(c)
    <2>1. CASE \E g \in Group : CallSend(c, g)
        BY <1>0, <2>1, PlaceType DEF CallSend, StartPart, TypeOK
    <2>2. CASE (\E x \in Solo : CallSolo(c, x)) \/ (\E k \in Poke : CallPoke(c, k))
        BY <1>0, <2>2, PlaceType DEF CallSolo, CallPoke, TypeOK
    <2>3. CASE GuardRejects(c) \/ InsertEvent(c)
        BY <1>0, <2>3, PlaceType DEF GuardRejects, InsertEvent, TypeOK
    <2> QED BY <1>6, <2>1, <2>2, <2>3 DEF Call
<1>7. CASE \E d \in Caller \ {c} : Call(d) \/ Store(d) \/ Transmit(d) \/ Answer(d)
    <2>1. PICK d \in Caller \ {c} : Call(d) \/ Store(d) \/ Transmit(d) \/ Answer(d)
        BY <1>7
    <2>2. pc'[c] = pc[c]
        BY <1>0, <2>1
        DEF TypeOK, Call, Store, Answer, CallSend, CallSolo, CallPoke, GuardRejects, Prepare,
            InsertEvent, CreateIntent, BeginDispatch, Transmit, Ambiguous, Refused, DoneSilent,
            DoneText
    <2> QED BY <1>1, <2>2
<1>8. CASE Crash
    BY <1>8, PlaceType DEF Crash
<1>9. CASE (Environment /\ ~Crash) \/ UNCHANGED vars
    BY <1>1, <1>9
    DEF Environment, Accept, RefuseOrLose, InboundId, GuardChanges, RecoverReaction, vars
<1> QED BY <1>2, <1>3, <1>4, <1>5, <1>6, <1>7, <1>8, <1>9 DEF Next, Store

(* Who moves the network. *)
LEMMA NetStep ==
    [Next]_vars => \/ UNCHANGED net
                   \/ \E c \in Caller : Transmit(c)
                   \/ \E op \in Op : Accept(op) \/ RefuseOrLose(op)
BY DEF Next, Call, Store, Answer, Environment, CallSend, CallSolo, CallPoke, GuardRejects, Prepare,
       InsertEvent, CreateIntent, BeginDispatch, Ambiguous, Refused, DoneSilent, DoneText,
       InboundId, GuardChanges, RecoverReaction, Crash, vars

(* Rows and platform stay in agreement. *)
LEMMA TruthfulStep == IInv /\ Truthful /\ [Next]_vars => Truthful'
<1> SUFFICES ASSUME IInv, Truthful, [Next]_vars PROVE Truthful'
    OBVIOUS
<1>0. TypeOK /\ Places /\ Owned
    BY DEF IInv
<1>1. Once \subseteq Op
    BY OpsOf
<1>2. CASE UNCHANGED net
    <2>1. UNCHANGED <<platform, effects>>
        BY <1>2 DEF net
    <2>2. ASSUME NEW op \in Once
          PROVE  /\ status'[op] \in {"absent", "pending"} => platform'[op] = "quiet"
                 /\ effects'[op] = IF platform'[op] = "accepted" THEN 1 ELSE 0
                 /\ status'[op] = "sent" => platform'[op] = "accepted"
                 /\ status'[op] = "failed" => platform'[op] = "refused"
        BY <1>1, <2>1, RowStep DEF Truthful, Fresh, Terminal
    <2>3. ASSUME NEW c \in Caller, pc'[c].at = "calling", pc'[c].op \in Once
          PROVE  platform'[pc'[c].op] = "quiet"
        BY <2>1, <2>3, Taking DEF Truthful, Fresh
    <2> QED BY <2>2, <2>3 DEF Truthful
<1>3. ASSUME NEW c \in Caller, Transmit(c) PROVE Truthful'
    <2> DEFINE op == pc[c].op
    <2>1. op \in Op /\ Holds(c) /\ status[op] = "dispatched"
        BY <1>0, <1>3 DEF Transmit, Places, Owned, Holds
    <2>2. /\ platform' = [platform EXCEPT ![op] = "wire"]
          /\ UNCHANGED <<status, effects>>
          /\ pc'[c].at = "waiting" /\ \A d \in Caller \ {c} : pc'[d] = pc[d]
        BY <1>0, <1>3, PlaceType DEF Transmit, rows, TypeOK
    <2>3. op \in Once => platform[op] = "quiet"
        BY <1>3 DEF Truthful, Transmit
    <2>4. \A o \in Op \ {op} : platform'[o] = platform[o]
        BY <1>0, <2>2 DEF TypeOK
    <2>5. platform'[op] = "wire"
        BY <1>0, <2>1, <2>2 DEF TypeOK
    <2>6. ASSUME NEW d \in Caller, pc'[d].at = "calling", pc'[d].op \in Once
          PROVE  platform'[pc'[d].op] = "quiet"
        <3>1. d # c /\ pc'[d] = pc[d]
            BY <2>2, <2>6
        <3>2. pc[d].op # op
            BY <1>0, <2>1, <2>6, <3>1 DEF Owned, Holds
        <3> QED BY <1>1, <2>4, <2>6, <3>1, <3>2 DEF Truthful
    <2>7. ASSUME NEW o \in Once
          PROVE  /\ status'[o] \in {"absent", "pending"} => platform'[o] = "quiet"
                 /\ effects'[o] = IF platform'[o] = "accepted" THEN 1 ELSE 0
                 /\ status'[o] = "sent" => platform'[o] = "accepted"
                 /\ status'[o] = "failed" => platform'[o] = "refused"
        BY <1>1, <2>1, <2>2, <2>3, <2>4, <2>5 DEF Truthful
    <2> QED BY <2>6, <2>7 DEF Truthful
<1>4. ASSUME NEW op \in Op, Accept(op) \/ RefuseOrLose(op) PROVE Truthful'
    <2>1. /\ platform[op] = "wire" /\ UNCHANGED <<status, pc>>
          /\ \A o \in Op \ {op} : platform'[o] = platform[o] /\ effects'[o] = effects[o]
          /\ \/ platform'[op] = "accepted" /\ effects'[op] = effects[op] + 1
             \/ platform'[op] \in {"refused", "lost"} /\ effects'[op] = effects[op]
        BY <1>0, <1>4 DEF Accept, RefuseOrLose, rows, TypeOK
    <2> QED BY <1>1, <2>1 DEF Truthful
<1> QED BY <1>2, <1>3, <1>4, NetStep

(* What AtMostOnce sees of a row, by the status of the row alone. *)
LEMMA VerdictOf ==
    ASSUME NEW op
    PROVE  /\ status[op] \in Fresh => Verdict(op) = "none"
           /\ status[op] = "dispatched" => Verdict(op) = "undecided"
           /\ status[op] \in Terminal => Verdict(op) = status[op]
           /\ status'[op] \in Fresh => Verdict(op)' = "none"
           /\ status'[op] = "dispatched" => Verdict(op)' = "undecided"
           /\ status'[op] \in Terminal => Verdict(op)' = status'[op]
           /\ status'[op] = status[op] => Verdict(op)' = Verdict(op)
BY DEF Verdict, Fresh, Terminal

(* Every step of the sender is a step of AtMostOnce, or none it sees. *)
LEMMA PromiseStep == IInv /\ Truthful /\ [Next]_vars => [Promise!Next]_(Promise!vars)
<1> SUFFICES ASSUME IInv, Truthful, [Next]_vars PROVE [Promise!Next]_(Promise!vars)
    OBVIOUS
<1> DEFINE V == [op \in Once |-> Verdict(op)]
           E == [op \in Once |-> effects[op]]
<1>0. TypeOK /\ Places /\ Owned
    BY DEF IInv
<1>1. Once \subseteq Op
    BY OpsOf
<1>2. ASSUME NEW op \in Once,
             \A o \in Once \ {op} : status'[o] = status[o],
             UNCHANGED effects
      PROVE  V' = [V EXCEPT ![op] = Verdict(op)'] /\ E' = E
    BY <1>2, VerdictOf
<1>3. CASE UNCHANGED <<status, effects>>
    <2>1. V' = V /\ E' = E
        BY <1>3 DEF Verdict
    <2> QED BY <2>1 DEF Promise!vars
<1>4. ASSUME NEW c \in Caller, Prepare(c) \/ CreateIntent(c) \/ BeginDispatch(c)
      PROVE  [Promise!Next]_(Promise!vars)
    <2>0. PICK op \in Op : op = pc[c].op
        BY <1>0, <1>4 DEF Prepare, CreateIntent, BeginDispatch, Places
    <2>1. UNCHANGED effects /\ \A o \in Op \ {op} : status'[o] = status[o]
        BY <1>0, <1>4, <2>0
        DEF Prepare, CreateIntent, BeginDispatch, Places, TypeOK, net
    <2>2. CASE op \notin Once \/ status'[op] = status[op]
        <3>1. V' = V /\ E' = E
            BY <1>1, <2>1, <2>2, VerdictOf
        <3> QED BY <3>1 DEF Promise!vars
    <2>3. CASE op \in Once /\ status'[op] # status[op]
        <3>1. V' = [V EXCEPT ![op] = Verdict(op)'] /\ E' = E
            BY <1>1, <1>2, <2>1, <2>3
        <3>2. status[op] \in Fresh /\ status'[op] \in {"pending", "dispatched"}
            BY <1>0, <1>4, <2>0, <2>1, <2>3
            DEF Prepare, CreateIntent, BeginDispatch, TypeOK, MayBegin, Fresh
        <3>3. V[op] = "none"
            BY <2>3, <3>2, VerdictOf
        <3>4. CASE status'[op] = "pending"
            <4>1. Verdict(op)' = "none"
                BY <3>4, VerdictOf DEF Fresh
            <4>2. V' = V
                BY <2>3, <3>1, <3>3, <4>1
            <4> QED BY <3>1, <4>2 DEF Promise!vars
        <3>5. CASE status'[op] = "dispatched"
            <4>1. V' = [V EXCEPT ![op] = "undecided"]
                BY <3>1, <3>5, VerdictOf
            <4>2. Promise!Start(op)
                BY <3>1, <3>3, <4>1 DEF Promise!Start
            <4> QED BY <2>3, <4>2 DEF Promise!Next
        <3> QED BY <3>2, <3>4, <3>5
    <2> QED BY <2>2, <2>3
<1>5. ASSUME NEW c \in Caller, Answer(c) PROVE [Promise!Next]_(Promise!vars)
    <2> DEFINE op == pc[c].op
    <2>1. PICK st \in Terminal :
              /\ status' = [status EXCEPT ![op] = st]
              /\ st = "sent" => platform[op] = "accepted"
              /\ st = "failed" => platform[op] = "refused"
        BY <1>5, AnswerStep
    <2>2. op \in Op /\ status[op] = "dispatched" /\ UNCHANGED effects
        BY <1>5, AnswerStep
    <2>3. status'[op] = st /\ \A o \in Op \ {op} : status'[o] = status[o]
        BY <1>0, <2>1, <2>2 DEF TypeOK
    <2>4. CASE op \notin Once
        <3>1. V' = V /\ E' = E
            BY <1>1, <2>2, <2>3, <2>4, VerdictOf
        <3> QED BY <3>1 DEF Promise!vars
    <2>5. CASE op \in Once
        <3>1. V' = [V EXCEPT ![op] = st] /\ E' = E
            BY <1>1, <1>2, <2>2, <2>3, <2>5, VerdictOf
        <3>2. V[op] = "undecided" /\ E[op] = IF platform[op] = "accepted" THEN 1 ELSE 0
            BY <2>2, <2>5, VerdictOf DEF Truthful
        <3>3. Promise!Report(op, st)
            BY <2>1, <3>1, <3>2 DEF Promise!Report, Terminal
        <3> QED BY <2>5, <3>3 DEF Promise!Next, Terminal
    <2> QED BY <2>4, <2>5
<1>6. ASSUME NEW op \in Op, Accept(op) PROVE [Promise!Next]_(Promise!vars)
    <2>1. /\ platform[op] = "wire" /\ UNCHANGED status
          /\ \A o \in Op \ {op} : effects'[o] = effects[o]
          /\ effects'[op] = effects[op] + 1
        BY <1>0, <1>6 DEF Accept, TypeOK, rows
    <2>2. V' = V
        BY <2>1 DEF Verdict
    <2>3. CASE op \notin Once
        <3>1. E' = E
            BY <1>1, <2>1, <2>3
        <3> QED BY <2>2, <3>1 DEF Promise!vars
    <2>4. CASE op \in Once
        <3>1. effects[op] = 0 /\ status[op] \in {"dispatched", "unknown"}
            BY <1>0, <1>1, <2>1, <2>4 DEF Truthful, TypeOK, OutboxStatus, Terminal
        <3>2. V[op] \in {"undecided", "unknown"}
            BY <2>4, <3>1, VerdictOf DEF Terminal
        <3>3. E[op] = 0 /\ E' = [E EXCEPT ![op] = 1]
            <4>1. effects'[op] = 1
                BY <2>1, <3>1
            <4> QED BY <1>1, <2>1, <2>4, <3>1, <4>1
        <3>4. Promise!Happen(op)
            BY <2>2, <3>2, <3>3 DEF Promise!Happen
        <3> QED BY <2>4, <3>4 DEF Promise!Next
    <2> QED BY <2>3, <2>4
<1>7. ASSUME NEW g \in Group, RecoverReaction(g) PROVE [Promise!Next]_(Promise!vars)
    <2>1. ReactionOp(g) \in Op /\ ReactionOp(g) \notin Once
        BY <1>7, OpsOf, OpFacts DEF RecoverReaction
    <2>2. UNCHANGED effects /\ \A o \in Once : status'[o] = status[o]
        BY <1>0, <1>1, <1>7, <2>1 DEF RecoverReaction, TypeOK, net
    <2>3. V' = V /\ E' = E
        BY <2>2, VerdictOf
    <2> QED BY <2>3 DEF Promise!vars
<1>8. \/ UNCHANGED <<status, effects>>
      \/ \E c \in Caller : Prepare(c) \/ CreateIntent(c) \/ BeginDispatch(c) \/ Answer(c)
      \/ \E op \in Op : Accept(op)
      \/ \E g \in Group : RecoverReaction(g)
    BY DEF Next, Call, Store, Environment, CallSend, CallSolo, CallPoke, GuardRejects, InsertEvent,
           Transmit, RefuseOrLose, InboundId, GuardChanges, Crash, vars, rows, net
<1> QED BY <1>3, <1>4, <1>5, <1>6, <1>7, <1>8

(* The sender keeps the promise of AtMostOnce: however many tasks ask for a *)
(* text, poke, notice or record, and wherever the process dies, the         *)
(* platform carries it out at most once and its verdict is truthful.        *)
THEOREM Kept == Spec => KeepsPromise
<1>1. Init => Truthful
    BY PlaceType, OpsOf DEF Init, Truthful
<1>2. Init => Promise!Init
    <2> SUFFICES ASSUME Init PROVE Promise!Init
        OBVIOUS
    <2>1. \A op \in Once : Verdict(op) = "none" /\ effects[op] = 0
        BY OpsOf DEF Init, Verdict
    <2> QED BY <2>1 DEF Promise!Init
<1> QED BY <1>1, <1>2, Start, Step, TruthfulStep, PromiseStep, PTL
        DEF Spec, KeepsPromise, Promise!Spec

-----------------------------------------------------------------------------
(* The bookkeeping of the caller. *)

(* The hook runs in the transaction that makes the first part sent. *)
LEMMA HookStep == IInv /\ HookWithFirstPart /\ [Next]_vars => HookWithFirstPart'
<1> SUFFICES ASSUME IInv, HookWithFirstPart, [Next]_vars, NEW g \in Guarded
             PROVE  hooks'[g] = IF status'[TextOp(<<g, 1>>)] = "sent" THEN 1 ELSE 0
    BY DEF HookWithFirstPart
<1>0. TypeOK /\ Places /\ Owned
    BY DEF IInv
<1> DEFINE first == TextOp(<<g, 1>>)
<1>1. /\ g \in Group /\ first \in Once /\ first \in Op
      /\ first.kind = "text" /\ first.event = <<g, 1>>
    <2>1. <<g, 1>> \in Part
        BY PartFacts, DeliveryAssumption
    <2> QED BY <2>1, OpsOf, DeliveryAssumption
<1>2. hooks[g] = IF status[first] = "sent" THEN 1 ELSE 0
    BY DEF HookWithFirstPart
<1>3. ASSUME UNCHANGED hooks, status[first] # "sent" => status'[first] # "sent"
      PROVE  hooks'[g] = IF status'[first] = "sent" THEN 1 ELSE 0
    BY <1>1, <1>2, <1>3, SentStays
<1>4. ASSUME NEW c \in Caller, Prepare(c) \/ CreateIntent(c) \/ BeginDispatch(c)
      PROVE  UNCHANGED hooks /\ (status[first] # "sent" => status'[first] # "sent")
    BY <1>0, <1>1, <1>4 DEF Prepare, CreateIntent, BeginDispatch, TypeOK
<1>5. ASSUME NEW c \in Caller, Ambiguous(c) \/ Refused(c) \/ DoneSilent(c)
      PROVE  UNCHANGED hooks /\ (status[first] # "sent" => status'[first] # "sent")
    <2>1. first \in Spoken
        BY <1>1 DEF Spoken
    <2> QED BY <1>0, <1>1, <1>5, <2>1
            DEF Ambiguous, Refused, DoneSilent, Settle, UnclearVerdict, TypeOK
<1>6. ASSUME NEW c \in Caller, NEW m \in MsgId, DoneText(c, m)
      PROVE  hooks'[g] = IF status'[first] = "sent" THEN 1 ELSE 0
    <2> DEFINE op == pc[c].op
    <2>1. op \in Op /\ status[op] = "dispatched"
        BY <1>0, <1>6, AnswerStep DEF Answer
    <2>2. CASE Collides(op.event, m)
        <3>1. UNCHANGED hooks /\ (status[first] # "sent" => status'[first] # "sent")
            BY <1>0, <1>1, <1>6, <2>1, <2>2 DEF DoneText, Settle, TypeOK
        <3> QED BY <1>3, <3>1
    <2>3. CASE ~Collides(op.event, m) /\ op = first
        <3>1. status'[first] = "sent" /\ status[first] # "sent"
            BY <1>0, <1>1, <1>6, <2>1, <2>3 DEF DoneText, Settle, TypeOK
        <3>2. hooks' = [hooks EXCEPT ![g] = @ + 1]
            BY <1>1, <1>6, <2>3 DEF DoneText, Hooked
        <3> QED BY <1>0, <1>1, <1>2, <3>1, <3>2 DEF TypeOK
    <2>4. CASE ~Collides(op.event, m) /\ op # first
        <3>1. op.kind = "text" /\ op.event[1] = g => op.event[2] # 1
            BY <2>1, <2>4, OpFacts, PartFacts
        <3>2. hooks'[g] = hooks[g]
            BY <1>0, <1>1, <1>6, <2>4, <3>1 DEF DoneText, Hooked, TypeOK
        <3>3. status'[first] = status[first]
            BY <1>0, <1>1, <1>6, <2>1, <2>4 DEF DoneText, Settle, TypeOK
        <3> QED BY <1>2, <3>2, <3>3
    <2> QED BY <2>2, <2>3, <2>4
<1>7. ASSUME NEW h \in Group, RecoverReaction(h)
      PROVE  UNCHANGED hooks /\ (status[first] # "sent" => status'[first] # "sent")
    BY <1>0, <1>1, <1>7 DEF RecoverReaction, TypeOK
<1>8. \/ UNCHANGED <<hooks, status>>
      \/ \E c \in Caller : Prepare(c) \/ CreateIntent(c) \/ BeginDispatch(c)
      \/ \E c \in Caller : Ambiguous(c) \/ Refused(c) \/ DoneSilent(c)
      \/ \E c \in Caller, m \in MsgId : DoneText(c, m)
      \/ \E h \in Group : RecoverReaction(h)
    BY DEF Next, Call, Store, Answer, Environment, CallSend, CallSolo, CallPoke, GuardRejects,
           InsertEvent, Transmit, Accept, RefuseOrLose, InboundId, GuardChanges, Crash, vars, rows
<1> QED BY <1>2, <1>3, <1>4, <1>5, <1>6, <1>7, <1>8

(* The hook of a guarded reply runs exactly once, with the delivery of its  *)
(* first part.                                                              *)
THEOREM Hooks == Spec => []HookWithFirstPart
<1>1. Init => HookWithFirstPart
    <2> SUFFICES ASSUME Init, NEW g \in Guarded
                 PROVE  hooks[g] = IF status[TextOp(<<g, 1>>)] = "sent" THEN 1 ELSE 0
        BY DEF HookWithFirstPart
    <2>1. <<g, 1>> \in Part /\ g \in Group
        BY PartFacts, DeliveryAssumption
    <2> QED BY <2>1, OpsOf DEF Init
<1> QED BY <1>1, Start, Step, HookStep, PTL DEF Spec

-----------------------------------------------------------------------------
(* The events and the outbox. *)

(* An event belongs to one spoken operation. *)
LEMMA EventOfOne ==
    ASSUME NEW o \in Spoken, NEW p \in Spoken, o.event = p.event
    PROVE  o = p
<1>1. /\ o \in Op /\ p \in Op
      /\ o.kind \in {"text", "solo"} /\ p.kind \in {"text", "solo"}
    BY OpFacts
<1> QED BY <1>1, OpFacts, DeliveryAssumption

(* Who changes an event, and how. *)
LEMMA EventStep ==
    ASSUME IInv, [Next]_vars, NEW o \in Spoken
    PROVE  \/ evStatus'[o.event] = evStatus[o.event] /\ status'[o] = status[o]
           \/ evStatus[o.event] = "absent" /\ evStatus'[o.event] = "pending" /\ status'[o] = status[o]
           \/ /\ status'[o] \in {"pending", "dispatched"} /\ status[o] \in Fresh
              /\ evStatus'[o.event] = IF evStatus[o.event] = "absent" THEN "pending"
                                      ELSE evStatus[o.event]
              /\ \E c \in Caller : Prepare(c)
           \/ /\ status'[o] \in {"pending", "dispatched"} /\ status[o] \in Fresh
              /\ evStatus'[o.event] = evStatus[o.event]
              /\ \E c \in Caller : pc[c].at \in {"intent", "begin"} /\ pc[c].op = o
           \/ status'[o] \in Terminal /\ evStatus'[o.event] = status'[o]
<1>0. TypeOK /\ Places /\ Owned
    BY DEF IInv
<1>1. o \in Op /\ o \in Once /\ o.event \in Event /\ o.kind \in {"text", "solo"}
    BY OpFacts DEF Event
<1>2. ASSUME NEW c \in Caller, NEW s \in Solo, CallSolo(c, s)
      PROVE  /\ status'[o] = status[o]
             /\ \/ evStatus'[o.event] = evStatus[o.event]
                \/ evStatus[o.event] = "absent" /\ evStatus'[o.event] = "pending"
    BY <1>0, <1>1, <1>2 DEF CallSolo, TypeOK
<1>3. ASSUME NEW c \in Caller, Prepare(c)
      PROVE  \/ /\ status'[o] = status[o]
                /\ \/ evStatus'[o.event] = evStatus[o.event]
                   \/ evStatus[o.event] = "absent" /\ evStatus'[o.event] = "pending"
             \/ /\ status'[o] = "dispatched" /\ status[o] \in Fresh
                /\ evStatus'[o.event] = IF evStatus[o.event] = "absent" THEN "pending"
                                        ELSE evStatus[o.event]
    <2>1. pc[c].op \in Op /\ pc[c].op.event \in Event /\ pc[c].op \in Spoken
        BY <1>0, <1>3, OpFacts DEF Prepare, Places, Event
    <2>2. CASE pc[c].op = o
        BY <1>0, <1>1, <1>3, <2>2 DEF Prepare, TypeOK
    <2>3. CASE pc[c].op # o
        <3>1. pc[c].op.event # o.event
            BY <2>1, <2>3, EventOfOne
        <3> QED BY <1>0, <1>1, <1>3, <2>1, <2>3, <3>1 DEF Prepare, TypeOK
    <2> QED BY <2>2, <2>3
<1>4. ASSUME NEW c \in Caller, InsertEvent(c)
      PROVE  /\ status'[o] = status[o]
             /\ \/ evStatus'[o.event] = evStatus[o.event]
                \/ evStatus[o.event] = "absent" /\ evStatus'[o.event] = "pending"
    BY <1>0, <1>1, <1>4 DEF InsertEvent, TypeOK
<1>5. ASSUME NEW c \in Caller, CreateIntent(c) \/ BeginDispatch(c)
      PROVE  /\ evStatus'[o.event] = evStatus[o.event]
             /\ \/ status'[o] = status[o]
                \/ /\ status'[o] \in {"pending", "dispatched"} /\ status[o] \in Fresh
                   /\ pc[c].at \in {"intent", "begin"} /\ pc[c].op = o
    BY <1>0, <1>1, <1>5 DEF CreateIntent, BeginDispatch, MayBegin, Fresh, TypeOK
<1>6. ASSUME NEW c \in Caller, Answer(c)
      PROVE  \/ evStatus'[o.event] = evStatus[o.event] /\ status'[o] = status[o]
             \/ status'[o] \in Terminal /\ evStatus'[o.event] = status'[o]
    <2>1. PICK st \in Terminal : Settle(pc[c].op, st)
        BY <1>6, AnswerStep
    <2>2. pc[c].op \in Op
        BY <1>6, AnswerStep
    <2>3. CASE pc[c].op = o
        BY <1>0, <1>1, <2>1, <2>3 DEF Settle, TypeOK
    <2>4. CASE pc[c].op # o /\ pc[c].op \in Spoken
        <3>1. pc[c].op.event # o.event
            BY <2>4, EventOfOne
        <3> QED BY <1>0, <1>1, <2>1, <2>2, <2>4, <3>1 DEF Settle, TypeOK
    <2>5. CASE pc[c].op # o /\ pc[c].op \notin Spoken
        BY <1>0, <1>1, <2>1, <2>2, <2>5 DEF Settle, TypeOK
    <2> QED BY <2>3, <2>4, <2>5
<1>7. ASSUME NEW g \in Group, RecoverReaction(g)
      PROVE  evStatus'[o.event] = evStatus[o.event] /\ status'[o] = status[o]
    <2>1. ReactionOp(g) # o
        BY <1>1, <1>7, OpsOf DEF RecoverReaction
    <2> QED BY <1>0, <1>1, <1>7, <2>1 DEF RecoverReaction, TypeOK
<1>8. \/ UNCHANGED <<evStatus, status>>
      \/ \E c \in Caller, s \in Solo : CallSolo(c, s)
      \/ \E c \in Caller : \/ Prepare(c) \/ InsertEvent(c)
                           \/ CreateIntent(c) \/ BeginDispatch(c) \/ Answer(c)
      \/ \E g \in Group : RecoverReaction(g)
    BY DEF Next, Call, Store, Environment, CallSend, CallPoke, GuardRejects, Transmit, Accept,
           RefuseOrLose, InboundId, GuardChanges, Crash, vars, rows
<1> QED BY <1>2, <1>3, <1>4, <1>5, <1>6, <1>7, <1>8

(* An event follows its row. *)
LEMMA MirrorStep == IInv /\ Inserted /\ EventMirrorsOutbox /\ [Next]_vars => EventMirrorsOutbox'
<1> SUFFICES ASSUME IInv, Inserted, EventMirrorsOutbox, [Next]_vars, NEW o \in Spoken
             PROVE  /\ status'[o] \in Terminal => evStatus'[o.event] = status'[o]
                    /\ status'[o] \notin Terminal => evStatus'[o.event] \in {"absent", "pending"}
                    /\ status'[o] # "absent" => evStatus'[o.event] # "absent"
    BY DEF EventMirrorsOutbox
<1>1. /\ status[o] \in Terminal => evStatus[o.event] = status[o]
      /\ status[o] \notin Terminal => evStatus[o.event] \in {"absent", "pending"}
      /\ status[o] # "absent" => evStatus[o.event] # "absent"
    BY DEF EventMirrorsOutbox
<1>2. ASSUME NEW c \in Caller, pc[c].at \in {"intent", "begin"}, pc[c].op = o
      PROVE  evStatus[o.event] # "absent"
    BY <1>2 DEF Inserted
<1> QED BY <1>1, <1>2, EventStep DEF Terminal, Fresh

(* A task writes a row only after the event it belongs to. *)
LEMMA InsertedStep == IInv /\ Inserted /\ [Next]_vars => Inserted'
<1> SUFFICES ASSUME IInv, Inserted, [Next]_vars, NEW c \in Caller,
                    pc'[c].at \in {"intent", "begin"} \cup {"calling", "waiting"},
                    pc'[c].op \in Spoken
             PROVE  evStatus'[pc'[c].op.event] # "absent"
    BY DEF Inserted
<1>0. TypeOK /\ Places /\ Owned
    BY DEF IInv
<1>1. CASE /\ pc[c].op = pc'[c].op
           /\ pc[c].at \in {"intent", "begin"} \cup {"calling", "waiting"}
    <2>1. evStatus[pc'[c].op.event] # "absent"
        BY <1>1 DEF Inserted
    <2> QED BY <2>1, EventStep DEF Terminal
<1>2. CASE \E s \in Solo : CallSolo(c, s)
    <2>1. PICK s \in Solo : CallSolo(c, s)
        BY <1>2
    <2>2. pc'[c].op = SoloOp(s) /\ SoloOp(s).event = s /\ s \in Event
        BY <1>0, <2>1, PlaceType, OpsOf DEF CallSolo, TypeOK, Event
    <2> QED BY <1>0, <2>1, <2>2 DEF CallSolo, TypeOK
<1>3. CASE InsertEvent(c) \/ Prepare(c)
    <2>1. /\ pc[c].op \in Op /\ pc[c].op.event \in Event
        BY <1>0, <1>3, OpFacts DEF InsertEvent, Prepare, Places, Event
    <2>2. evStatus'[pc[c].op.event] # "absent"
        BY <1>0, <1>3, <2>1 DEF InsertEvent, Prepare, TypeOK
    <2>3. CASE pc'[c].op = pc[c].op
        BY <2>2, <2>3
    <2>4. CASE pc' = [pc EXCEPT ![c] = Continue(pc[c].op, status[pc[c].op])]
        BY <1>0, <2>1, <2>4, ContinuingIntent DEF TypeOK
    <2> QED BY <1>0, <1>3, <2>1, <2>3, <2>4, PlaceType DEF InsertEvent, Prepare, TypeOK
<1>4. CASE CreateIntent(c) \/ BeginDispatch(c)
    <2>1. pc[c].op \in Op /\ pc[c].at \in {"intent", "begin"}
        BY <1>0, <1>4 DEF CreateIntent, BeginDispatch, Places
    <2>2. pc'[c].op = pc[c].op \/ pc'[c] = Continue(pc[c].op, status[pc[c].op])
        BY <1>0, <1>4, PlaceType DEF CreateIntent, BeginDispatch, TypeOK
    <2> QED BY <1>1, <2>1, <2>2, ContinuingIntent
<1>5. CASE Answer(c)
    <2>1. pc[c].op \in Op
        BY <1>5, AnswerStep
    <2>2. pc'[c] = Idle \/ pc'[c] = Continue(pc[c].op, "sent")
        BY <1>0, <1>5 DEF Answer, Ambiguous, Refused, DoneSilent, DoneText, TypeOK
    <2> QED BY <2>1, <2>2, ContinuingIntent, PlaceType
<1>6. CASE Transmit(c)
    BY <1>0, <1>1, <1>6, PlaceType DEF Transmit, TypeOK
<1>7. CASE \E g \in Group : CallSend(c, g)
    BY <1>0, <1>7, PlaceType DEF CallSend, StartPart, TypeOK
<1>8. CASE (\E k \in Poke : CallPoke(c, k)) \/ GuardRejects(c)
    BY <1>0, <1>8, PlaceType, OpsOf DEF CallPoke, GuardRejects, TypeOK, Spoken
<1>9. CASE \E d \in Caller \ {c} : Call(d) \/ Store(d) \/ Transmit(d) \/ Answer(d)
    <2>1. PICK d \in Caller \ {c} : Call(d) \/ Store(d) \/ Transmit(d) \/ Answer(d)
        BY <1>9
    <2>2. pc'[c] = pc[c]
        BY <1>0, <2>1
        DEF TypeOK, Call, Store, Answer, CallSend, CallSolo, CallPoke, GuardRejects, Prepare,
            InsertEvent, CreateIntent, BeginDispatch, Transmit, Ambiguous, Refused, DoneSilent,
            DoneText
    <2> QED BY <1>1, <2>2
<1>10. CASE Crash
    BY <1>10, PlaceType DEF Crash
<1>11. CASE (Environment /\ ~Crash) \/ UNCHANGED vars
    BY <1>1, <1>11
    DEF Environment, Accept, RefuseOrLose, InboundId, GuardChanges, RecoverReaction, vars
<1> QED BY <1>2, <1>3, <1>4, <1>5, <1>6, <1>7, <1>8, <1>9, <1>10, <1>11 DEF Next, Call, Store

(* What later turns read as history agrees with the outbox in every state. *)
THEOREM Mirrored == Spec => []EventMirrorsOutbox
<1>1. Init => Inserted /\ EventMirrorsOutbox
    <2> SUFFICES ASSUME Init PROVE Inserted /\ EventMirrorsOutbox
        OBVIOUS
    <2>1. Inserted
        BY PlaceType DEF Init, Inserted
    <2>2. \A o \in Spoken : o \in Op /\ o.event \in Event
        BY OpFacts DEF Event
    <2>3. EventMirrorsOutbox
        BY <2>2 DEF Init, EventMirrorsOutbox, Terminal
    <2> QED BY <2>1, <2>3
<1> QED BY <1>1, Start, Step, InsertedStep, MirrorStep, PTL DEF Spec

-----------------------------------------------------------------------------
(* Dispatched rows and their tasks. *)

(* A task keeps the call it makes until it settles the row, or the process  *)
(* dies.                                                                    *)
LEMMA HolderStays ==
    ASSUME IInv, [Next]_vars, crashes' = crashes, NEW c \in Caller, Holds(c)
    PROVE  \/ Holds(c)' /\ pc'[c].op = pc[c].op
           \/ status'[pc[c].op] # "dispatched"
<1>0. TypeOK /\ Places /\ Owned
    BY DEF IInv
<1>1. ASSUME pc'[c] = pc[c] PROVE Holds(c)' /\ pc'[c].op = pc[c].op
    BY <1>1 DEF Holds
<1>2. CASE Transmit(c)
    BY <1>0, <1>2, PlaceType DEF Transmit, Holds, TypeOK
<1>3. CASE Answer(c)
    <2>1. PICK st \in Terminal : status' = [status EXCEPT ![pc[c].op] = st]
        BY <1>3, AnswerStep
    <2>2. pc[c].op \in Op
        BY <1>3, AnswerStep
    <2> QED BY <1>0, <2>1, <2>2 DEF TypeOK, Terminal
<1>4. CASE Call(c) \/ Store(c)
    BY <1>4 DEF Holds, Call, Store, CallSend, CallSolo, CallPoke, GuardRejects, Prepare,
           InsertEvent, CreateIntent, BeginDispatch
<1>5. CASE \E d \in Caller \ {c} : Call(d) \/ Store(d) \/ Transmit(d) \/ Answer(d)
    <2>1. PICK d \in Caller \ {c} : Call(d) \/ Store(d) \/ Transmit(d) \/ Answer(d)
        BY <1>5
    <2>2. pc'[c] = pc[c]
        BY <1>0, <2>1
        DEF TypeOK, Call, Store, Answer, CallSend, CallSolo, CallPoke, GuardRejects, Prepare,
            InsertEvent, CreateIntent, BeginDispatch, Transmit, Ambiguous, Refused, DoneSilent,
            DoneText
    <2> QED BY <1>1, <2>2
<1>6. ~Crash
    BY <1>0 DEF Crash, TypeOK
<1>7. CASE (Environment /\ ~Crash) \/ UNCHANGED vars
    BY <1>1, <1>7
    DEF Environment, Accept, RefuseOrLose, InboundId, GuardChanges, RecoverReaction, vars
<1> QED BY <1>2, <1>3, <1>4, <1>5, <1>6, <1>7 DEF Next

(* A row becomes dispatched in the transaction after which its task calls.  *)
LEMMA DispatchIsHeld ==
    ASSUME IInv, [Next]_vars, NEW op \in Op,
           status[op] # "dispatched", status'[op] = "dispatched"
    PROVE  \E c \in Caller : Holds(c)' /\ pc'[c].op = op
<1>0. TypeOK /\ Places /\ Owned
    BY DEF IInv
<1>1. ASSUME NEW c \in Caller, Prepare(c) \/ BeginDispatch(c) PROVE Holds(c)' /\ pc'[c].op = op
    <2>1. /\ pc[c].op = op
          /\ pc' = [pc EXCEPT ![c] = Doing("calling", pc[c].op)]
        BY <1>0, <1>1 DEF Prepare, BeginDispatch, TypeOK
    <2>2. pc'[c] = Doing("calling", op)
        BY <1>0, <2>1 DEF TypeOK
    <2> QED BY <2>2, PlaceType DEF Holds
<1>2. ASSUME NEW c \in Caller, CreateIntent(c) PROVE FALSE
    BY <1>0, <1>2 DEF CreateIntent, TypeOK
<1>3. ASSUME NEW c \in Caller, Answer(c) PROVE FALSE
    BY <1>0, <1>3, AnswerStep DEF TypeOK, Terminal
<1>4. ASSUME NEW g \in Group, RecoverReaction(g) PROVE FALSE
    BY <1>0, <1>4 DEF RecoverReaction, TypeOK
<1>5. \/ UNCHANGED status
      \/ \E c \in Caller : Prepare(c) \/ BeginDispatch(c) \/ CreateIntent(c) \/ Answer(c)
      \/ \E g \in Group : RecoverReaction(g)
    BY DEF Next, Call, Store, Environment, CallSend, CallSolo, CallPoke, GuardRejects, InsertEvent,
           Transmit, Accept, RefuseOrLose, InboundId, GuardChanges, Crash, vars, rows
<1> QED BY <1>1, <1>2, <1>3, <1>4, <1>5

(* Every step keeps a task behind every dispatched row. *)
LEMMA FrozenStep == IInv /\ FrozenOnlyByCrash /\ [Next]_vars => FrozenOnlyByCrash'
<1> SUFFICES ASSUME IInv, FrozenOnlyByCrash, [Next]_vars, NEW op \in Op,
                    status'[op] = "dispatched", crashes' = 0
             PROVE  \E c \in Caller : pc'[c].op = op /\ Holds(c)'
    BY DEF FrozenOnlyByCrash, Holds
<1>1. crashes' = crashes
    <2>1. crashes' \in {crashes, crashes + 1}
        BY DEF Next, Call, Store, Answer, Environment, CallSend, CallSolo, CallPoke, GuardRejects,
               Prepare, InsertEvent, CreateIntent, BeginDispatch, Transmit, Ambiguous, Refused,
               DoneSilent, DoneText, Accept, RefuseOrLose, InboundId, GuardChanges,
               RecoverReaction, Crash, vars
    <2>2. crashes \in Nat
        BY DeliveryAssumption DEF IInv, TypeOK
    <2> QED BY <2>1, <2>2
<1>2. CASE status[op] = "dispatched"
    <2>1. PICK c \in Caller : pc[c].op = op /\ Holds(c)
        BY <1>1, <1>2 DEF FrozenOnlyByCrash, Holds
    <2> QED BY <1>1, <2>1, HolderStays
<1>3. CASE status[op] # "dispatched"
    BY <1>3, DispatchIsHeld
<1> QED BY <1>2, <1>3

(* No error path of the sender forgets a row it has handed to OneBot: until *)
(* the process dies some task still owes every dispatched row its verdict.  *)
THEOREM NotForgotten == Spec => []FrozenOnlyByCrash
<1>1. Init => FrozenOnlyByCrash
    BY DEF Init, FrozenOnlyByCrash
<1> QED BY <1>1, Start, Step, FrozenStep, PTL DEF Spec

-----------------------------------------------------------------------------
(* Platform ids. *)

(* The ids of an event: one when its row is sent, and none before. *)
Names(m, e) == \A n \in MsgId : mapping[n] = e <=> n = m

OneId ==
    \A op \in Spoken :
        /\ status[op] = "sent" => \E m \in MsgId : Names(m, op.event)
        /\ status[op] # "sent" => \A n \in MsgId : mapping[n] # op.event

(* Who changes the ids, or makes a spoken row sent. *)
LEMMA IdStep ==
    ASSUME IInv, [Next]_vars, NEW o \in Spoken
    PROVE  \/ mapping' = mapping /\ (status'[o] = "sent" <=> status[o] = "sent")
           \/ /\ \E m \in MsgId : mapping' = [mapping EXCEPT ![m] = Foreign] /\ mapping[m] = Nobody
              /\ status' = status
           \/ \E c \in Caller, m \in MsgId :
                 /\ pc[c].op \in Spoken
                 /\ ~Collides(pc[c].op.event, m)
                 /\ mapping' = [mapping EXCEPT ![m] = pc[c].op.event]
                 /\ status' = [status EXCEPT ![pc[c].op] = "sent"]
                 /\ status[pc[c].op] # "sent"
<1>0. TypeOK /\ Places /\ Owned
    BY DEF IInv
<1>1. o \in Op
    BY OpFacts
<1>2. ASSUME NEW c \in Caller, NEW m \in MsgId, DoneText(c, m)
      PROVE  \/ mapping' = mapping /\ (status'[o] = "sent" <=> status[o] = "sent")
             \/ /\ pc[c].op \in Spoken
                /\ ~Collides(pc[c].op.event, m)
                /\ mapping' = [mapping EXCEPT ![m] = pc[c].op.event]
                /\ status' = [status EXCEPT ![pc[c].op] = "sent"]
                /\ status[pc[c].op] # "sent"
    <2>1. pc[c].op \in Op /\ status[pc[c].op] = "dispatched"
        BY <1>2, AnswerStep DEF Answer
    <2>2. CASE Collides(pc[c].op.event, m)
        BY <1>0, <1>1, <1>2, <2>1, <2>2 DEF DoneText, Settle, TypeOK
    <2>3. CASE ~Collides(pc[c].op.event, m)
        BY <1>2, <2>1, <2>3 DEF DoneText, Settle
    <2> QED BY <2>2, <2>3
<1>3. ASSUME NEW m \in MsgId, InboundId(m)
      PROVE  /\ mapping' = [mapping EXCEPT ![m] = Foreign] /\ mapping[m] = Nobody
             /\ status' = status
    BY <1>3 DEF InboundId
<1>4. ASSUME status[o] # "sent", status'[o] = "sent"
      PROVE  \E c \in Caller, m \in MsgId : DoneText(c, m)
    <2>1. ASSUME NEW c \in Caller,
                 \/ Prepare(c) \/ CreateIntent(c) \/ BeginDispatch(c)
                 \/ Ambiguous(c) \/ Refused(c) \/ DoneSilent(c)
          PROVE  FALSE
        BY <1>0, <1>1, <1>4, <2>1
        DEF Prepare, CreateIntent, BeginDispatch, Ambiguous, Refused, DoneSilent, Settle,
            UnclearVerdict, TypeOK
    <2>2. ASSUME NEW g \in Group, RecoverReaction(g) PROVE FALSE
        BY <1>0, <1>1, <1>4, <2>2 DEF RecoverReaction, TypeOK
    <2> QED BY <1>4, <2>1, <2>2
            DEF Next, Call, Store, Answer, Environment, CallSend, CallSolo, CallPoke,
                GuardRejects, InsertEvent, Transmit, Accept, RefuseOrLose, InboundId,
                GuardChanges, Crash, vars, rows
<1>5. CASE mapping' = mapping /\ ~\E c \in Caller, m \in MsgId : DoneText(c, m)
    BY <1>1, <1>4, <1>5, SentStays
<1>6. \/ mapping' = mapping
      \/ \E m \in MsgId : InboundId(m)
      \/ \E c \in Caller, m \in MsgId : DoneText(c, m)
    BY DEF Next, Call, Store, Answer, Environment, CallSend, CallSolo, CallPoke, GuardRejects,
           Prepare, InsertEvent, CreateIntent, BeginDispatch, Transmit, Ambiguous, Refused,
           DoneSilent, Accept, RefuseOrLose, GuardChanges, RecoverReaction, Crash, vars, rows
<1> QED BY <1>2, <1>3, <1>5, <1>6

(* An id is given where it collides with none. *)
LEMMA OneIdStep == IInv /\ OneId /\ [Next]_vars => OneId'
<1> SUFFICES ASSUME IInv, OneId, [Next]_vars, NEW o \in Spoken
             PROVE  /\ status'[o] = "sent" => \E m \in MsgId : Names(m, o.event)'
                    /\ status'[o] # "sent" => \A n \in MsgId : mapping'[n] # o.event
    BY DEF OneId
<1>0. TypeOK
    BY DEF IInv
<1>1. o \in Op /\ o.event \in Event /\ o.event \notin {Nobody, Foreign}
    BY OpFacts, DeliveryAssumption DEF Event
<1>2. /\ status[o] = "sent" => \E m \in MsgId : Names(m, o.event)
      /\ status[o] # "sent" => \A n \in MsgId : mapping[n] # o.event
    BY DEF OneId
<1>3. CASE mapping' = mapping /\ (status'[o] = "sent" <=> status[o] = "sent")
    BY <1>2, <1>3 DEF Names
<1>4. ASSUME NEW m \in MsgId, mapping' = [mapping EXCEPT ![m] = Foreign], mapping[m] = Nobody,
             status' = status
      PROVE  /\ status'[o] = "sent" => \E n \in MsgId : Names(n, o.event)'
             /\ status'[o] # "sent" => \A n \in MsgId : mapping'[n] # o.event
    <2>1. \A n \in MsgId : mapping'[n] = o.event <=> mapping[n] = o.event
        BY <1>0, <1>1, <1>4 DEF TypeOK
    <2> QED BY <1>2, <1>4, <2>1 DEF Names
<1>5. ASSUME NEW c \in Caller, NEW m \in MsgId,
             pc[c].op \in Spoken, ~Collides(pc[c].op.event, m),
             mapping' = [mapping EXCEPT ![m] = pc[c].op.event],
             status' = [status EXCEPT ![pc[c].op] = "sent"],
             status[pc[c].op] # "sent"
      PROVE  /\ status'[o] = "sent" => \E n \in MsgId : Names(n, o.event)'
             /\ status'[o] # "sent" => \A n \in MsgId : mapping'[n] # o.event
    <2> DEFINE op == pc[c].op
    <2>1. op \in Op /\ mapping[m] \in {Nobody, op.event}
        BY <1>5, OpFacts DEF Collides
    <2>2. CASE op = o
        <3>1. status'[o] = "sent"
            BY <1>0, <1>1, <1>5, <2>2 DEF TypeOK
        <3>2. mapping'[m] = o.event /\ \A n \in MsgId \ {m} : mapping'[n] = mapping[n]
            BY <1>0, <1>5, <2>2 DEF TypeOK
        <3>3. \A n \in MsgId \ {m} : mapping[n] # o.event
            BY <1>5, <2>2 DEF Collides
        <3> QED BY <3>1, <3>2, <3>3 DEF Names
    <2>3. CASE op # o
        <3>1. op.event # o.event
            BY <1>5, <2>3, EventOfOne
        <3>2. \A n \in MsgId : mapping'[n] = o.event <=> mapping[n] = o.event
            BY <1>0, <1>1, <1>5, <2>1, <3>1 DEF TypeOK
        <3>3. status'[o] = status[o]
            BY <1>0, <1>1, <1>5, <2>1, <2>3 DEF TypeOK
        <3> QED BY <1>2, <3>2, <3>3 DEF Names
    <2> QED BY <2>2, <2>3
<1> QED BY <1>3, <1>4, <1>5, IdStep

(* One id means a set of one id. *)
LEMMA OneIdCounts == OneId => SentHasOneId
<1> SUFFICES ASSUME OneId, NEW op \in Spoken
             PROVE  Cardinality({m \in MsgId : mapping[m] = op.event}) =
                        IF status[op] = "sent" THEN 1 ELSE 0
    BY DEF SentHasOneId
<1>1. CASE status[op] = "sent"
    <2>1. PICK m \in MsgId : Names(m, op.event)
        BY <1>1 DEF OneId
    <2>2. {n \in MsgId : mapping[n] = op.event} = {m}
        BY <2>1 DEF Names
    <2> QED BY <1>1, <2>2, FS_Singleton
<1>2. CASE status[op] # "sent"
    <2>1. {n \in MsgId : mapping[n] = op.event} = {}
        BY <1>2 DEF OneId
    <2> QED BY <1>2, <2>1, FS_EmptySet
<1> QED BY <1>1, <1>2

(* A platform id names one event and a sent message has exactly one id,     *)
(* whatever ids the platform returns and however often it repeats them.     *)
THEOREM Quotable == Spec => []SentHasOneId
<1>1. Init => OneId
    <2> SUFFICES ASSUME Init, NEW op \in Spoken
                 PROVE  status[op] # "sent" /\ \A n \in MsgId : mapping[n] # op.event
        BY DEF OneId
    <2>1. op \in Op /\ op.event \in Event
        BY OpFacts DEF Event
    <2> QED BY <2>1, DeliveryAssumption DEF Init
<1> QED BY <1>1, Start, Step, OneIdStep, OneIdCounts, PTL DEF Spec

=============================================================================

# Qichi: TLA+ verification project

Qichi is a one-owner companion bot: a Python asyncio process that speaks to QQ
through OneBot (NapCat), answers through a language model, speaks first when the
owner has been silent, consolidates conversations into memories, unfolds them again
when a message leads to them, and keeps everything it needs to survive a crash in one
SQLite database.

This directory models the parts of it whose correctness depends on the order of
things: what is dispatched and recorded, what a turn may still say when the world
has moved, what a claim on a slot or a session is worth after its owner died, who
holds the instance when several processes are started, what becomes of a memory over
reviews, corrections and restores, what of the past a message opens, and how one
question to the model ends. TLC checks the models on small instances, and TLAPS proves
the central results for every instance.

```
tlc -workers 2 -config DeliveryGroup.cfg MCDelivery      # any run of PROJECT.json
tlapm DeliveryProofs.tla                                 # the proofs
```

`PROJECT.json` lists the runs, the mutants each property is tried against, the
source lines of every definition, the findings, the hazards and the theorems.

## 1. Inventory

| Component (src/qichi/) | State | Operations | Status |
|---|---|---|---|
| outbox and sender: `storage/outbox_repository.py`, `transport/sender.py` | `outbox`, outgoing rows of `conversation_events`, `platform_message_map` | `send`, `send_failure_notice`, `send_poke`, `dispatch_record`, `create_intent`, `begin_dispatch`, `complete_dispatch`, `recover_idempotent_reaction` | modelled: `Delivery` |
| event ledger: `storage/event_repository.py` | `conversation_events`, `conversation_cursors` | `insert`, `update_status`, `mark_failed_and_processed` | partly: `Delivery`, `Turn` |
| conversation turns: `app.py` (`handle_onebot`) | semantic lock, `_voice_tasks` | receive, three checkpoints, generate, dispatch, mark | modelled: `Turn` |
| initiative: `initiative/*.py`, `app.py` (`generate_initiative`) | `runtime_meta` rows `initiative` and `initiative-control`, trigger events | `tick`, `pause`, `resume`, `defer_once`, the attempt | modelled: `Initiative` |
| memory worker: `memory/worker.py`, `memory/detail_pass.py` | `memory_session_jobs`, `memory_job_events`, two cursors, fragments | `notify_reliable_activity`, `run_once`, `recover_pending`, the split, the success transaction | modelled: `MemoryWorker`, `Details` |
| memory repositories: `storage/memory_repository.py`, `memory_detail_repository.py`, `domain/memory*.py` | `memory_records`, `memory_evidence`, `memory_audit_events`, `memory_fragments`, `memory_detail_records` | consolidate, activate, supersede, reject, expire, restore, backfill, store within caps, look up | modelled: `Memories`, `Details`, `Recall` |
| memory retrieval: `memory/retriever.py`, `index_digest.py`, `lexical.py`, `dates.py`, `verbatim.py`, `app.py` (`_build_input`) | the days the last messages named, `_last_detail_fragments`, `_carried_images` | pointer and keys of a message, gates of privacy, index, picture window | modelled: `Recall` |
| context builder: `dialogue/context_builder.py` and the capability manifest | none across calls | assemble a prompt within the preferred window, or the wide one | partly: `Context` (budgets), `Recall` (gates), not the wording |
| dialogue engine: `dialogue/engine.py`, `output_guard.py`, `response_protocol.py` | none across calls | attempts, structural retry, tool round, guard, protocol | modelled: `Reply` |
| model client: `dialogue/llm_client.py` | none across calls | one request and the error it ends in | partly: `Reply` |
| memory extraction: `memory/extractor.py` | none across calls | the shapes of a candidate, a review and a detail that pass | partly: `Memories`, `Details` |
| supervisor: `supervisor.py` | worker statuses, ready and stop events, first failure, tasks | start, wait, stop, reconnect, the three loops | modelled: `Lifecycle`; its serial consumer also in `Turn` |
| runtime and readiness: `runtime.py`, `readiness.py`, `scripts/start_stack.py` | lock, READY marker and recovery guard files, semantic gate | start, stop, `recover_database`, reclaim stale artifacts | partly: `Lifecycle` (not the wiring, digests and versions) |
| voice dispatcher: `voice/dispatch.py` | none of its own | `deliver`, degrade to text, residue text | partly, as answers in `Turn` and `Initiative` |
| OneBot client and normalizer: `transport/onebot_client.py`, `normalizer.py` | one WebSocket | `event_stream`, `_action` | partly: how the stream ends in `Lifecycle`, the answers of an action in `Delivery` |
| media, search tools: `media/*.py`, `net/*.py` | picture files | a picture carried, refused; one tool round | partly: `Recall`, `Reply` |
| maintenance scripts: `scripts/repair_*.py`, `backfill_memory_records.py`, `apply_privacy_review.py`, `memory_restore.py` | none of their own | write memories and details beside the bot | partly: `Memories`, `Details` |
| quotes, voice synthesis, migrations, dashboard, configuration, observability, expressions | see PROJECT.json | I/O, parsing, rendering | not modelled |

### How they interact

- The supervisor's single consumer hands each payload to `handle_onebot`. The
  handler persists it (one transaction: row, sequence, context version), waits for
  the conversation's semantic lock and awaits the model, the sender and the voice
  dispatcher. Between two awaits nothing else of the process runs.
- Before it asks the model, `_build_input` looks the message up in the memories
  (`Recall`), the context builder packs what was found and the history into a window
  (`Context`), and the engine asks, searches, judges and retries (`Reply`). `Turn` and
  `Initiative` take the result as an answer.
- The initiative loop calls `tick`; a claimed slot becomes an attempt that waits
  for the *same* lock and uses the same sender.
- The sender writes event, outbox row and, for guarded texts, evaluates the
  caller's `dispatch_guard` in one transaction; it hands the action to OneBot and
  records the answer in another. Its `sent_commit_hook` runs in that second one.
- Every turn ends with `notify_reliable_activity`; the memory loop calls
  `run_once`, which calls the extractor outside any transaction (`MemoryWorker`) and
  stores fragments, details (`Details`) and records (`Memories`) in one.
- Voice tails run in tasks of their own, outside the lock.
- At start-up stale files of a dead process are archived, the instance lock is taken,
  `recover_database` refuses to serve over unfinished inbound rows, the three loops start
  (`recover_pending` of memory and initiative is their first pass), and only then is the
  READY marker written and the semantic gate opened. Messages are consumed, and handled,
  from the moment the WebSocket is up, before READY.
- Any loop that ends takes the others and the process with it: the loops are drained,
  the marker is withdrawn, the lock is released.

### What is hard

Two tasks or two processes between the same read and write; answers that never
come or come late; a crash between the dispatch and its record; a guard evaluated
before an await and used after it; leases that expire under a live worker; two
cursors over one sequence; counters that survive only if every path carries them;
records whose right to be active is decided by legal steps weeks apart; gates of
privacy spread over four files; a budget that is counted twice, once while packing and
once as it is sent. `hazards` in PROJECT.json lists each at its line with the property
that covers it.

## 2. Modules

| Module | Models | Checked by |
|---|---|---|
| `AtMostOnce` | the promise about one external action | refined by `Delivery` |
| `Delivery` | outbox and sender | `DeliveryGroup`, `DeliveryLive` |
| `Turn` | turns of one conversation | `TurnAll` |
| `Initiative` | scheduler, policy, attempt | `InitiativeAll` |
| `MemoryWorker` | the durable consolidation job | `Memory`, `MemoryBoundedBudget` (violation) |
| `Lifecycle` | processes, their files and loops | `LifecycleThree` |
| `Memories` | memory records, evidence, audit | `MemoriesAll` |
| `Details` | fragments and details of a session | `DetailsAll` |
| `Recall` | what of the past a turn unfolds | `RecallAll`, `RecallOrdinaryKeys` (violation) |
| `Context` | what fits into one question to the model | extended by `Reply` |
| `Reply` | one question to the model and its end | `ReplyAll` |
| `DeliveryProofs`, `TurnProofs`, `InitiativeProofs`, `MemoryWorkerProofs`, `LifecycleProofs`, `MemoriesProofs`, `RecallProofs`, `ReplyProofs` | theorems | TLAPS |

The `MC` modules (`MCDelivery`, `MCInitiative`, `MCMemoryWorker`, `MCMemories`,
`MCRecall`, `MCReply`) only define the constants a .cfg cannot write and the symmetry
sets; `Turn`, `Lifecycle` and `Details` need none. In each module, next to a decision of
the code, stand variants of it with a telling name (`LeaseOverSoon`,
`TerminalUncounted`, `AgainEndlessly`, ...). They are used by no action: they are the
plausible slips that the properties are tried against.

### Delivery

`status` and `attempts` are the columns of `outbox` by operation key, `evStatus` the
status of outgoing events, `mapping` the platform id map, `hooks` counts committed
hooks. `platform` and `effects` describe OneBot: the last request of an operation and
how often it was carried out. `pc` says where each task is between two transactions
or network exchanges; those are the steps (`Prepare` is `_prepare_guarded_text`;
`InsertEvent`, `CreateIntent`, `BeginDispatch` are the three transactions of the
unguarded branch; `DoneText` is `_complete_text_success` with its collision branch).
OneBot may act on a request after its caller gave up, refuse it, or lose it. What the
guard reads changes at any time. A crash loses the tasks and no row.

`AtMostOnce` says what a user may rely on: an action is carried out at most once,
verdicts are final, "sent" and "failed" are true, "unknown" claims nothing.
`KeepsPromise` is the refinement, with the verdict read from the outbox row. Reactions
are idempotent and outside it.

### Turn

`stream` is what was pushed and not read, `version` and `seq` the context version and
the version of each message, `watermark` is `last_processed_sequence`, `queue` the
semantic lock with its waiters, `at` the await each handler is suspended in. A reply
is a `Plan`: a number of text parts and a voice part that is absent, a background
tail, or the whole turn. `said` records each dispatch and whether the conversation held
a newer message at that moment. What the sender does with a part is an answer here.
A database with one conversation is modelled: locks and cursors are per conversation.

`Consumers` is the number of handlers the stream feeds at once. The supervisor's
consumer is serial (1); `handle_onebot` is written and tested for concurrent calls, and
the run with 2 exercises the checkpoints that way. `MaxUnread` bounds what was pushed and
not yet read. With the serial consumer the
checkpoints of a message can only be triggered by its own voice tail or never, because
no newer message is read while a handler runs.

### Initiative

`state` is the decoded record `initiative`, `control` the pause and deferral, `trigger`
the internal event of each claim, `last` the outbox status of the part recovery reads
(the row of the group id, which is the last text part), `heard` whether the platform
confirmed anything of the claim. Several runtimes share the database: a runtime whose
lease expired while its model call was slow meets its successor. `Claim`, `Converge` and
`NothingToDo` are the three outcomes of the transaction in `tick`; the rest follows
`generate_initiative` await by await. `Opening` are the openings the model may give
(parts and voice), `Deferrals` the times the owner may defer to. `Interval` units make
sixty minutes.

### MemoryWorker

`job` is the one row of `memory_session_jobs`, `fails` the `failed` entries of
`memory_job_events` by first event, `processed` and `quarantined` the two cursors, `work`
what each worker extracts. `stored`, `given` and `spent` are history. Events carry an
arrival time (sessions are runs without a pause of `Gap`) and a weight (fragments are cut
at `MaxTokens`). What an extraction stores is in `Details` and `Memories`.

A claim ends in two ways that must not be confused. Others may take the row once the lease
is over by their clock (`Reclaimable`). The worker itself compares the lease with
`finish_now`, and production builds it without a clock (runtime.py:822), so that
`finish_now` is the time of the claim (worker.py:562): `Matches` therefore asks whether the
row is still the one it claimed, and never refuses a result for being late. `work` keeps
that time as `since`; a retry is due so long after it.

### Lifecycle

`lock`, `marker` and `guard` are the three files of readiness.py, each the process its
content names; `unfinished` says that an inbound row is `received` beyond the watermark,
which is all that `recover_database` and the readiness evidence ask of the database. Per
process, `pc` is where `start_stack._run` stands (reclaim, log in, acquire, recover, start,
serve, drain, unmark, unlock, close), `loop` the state of the WebSocket, memory and
initiative loops, `ready`, `failure` and `halting` the events of the supervisor, `gate`
the semantic gate, `record` whether `InstanceLock` believes it holds the lock. `Workers` are
the loops that wait for the gate, memory and initiative, which go through the same code;
`Proc` are all processes that are ever started on the directory.

A step is one operation on a shared file or the database, or what one task does between
two awaits. Reclaiming is therefore four steps (read, probe, rename the marker, rename the
lock), and it renames whatever is at the path by then. `Serve` is one step: from the wake
of `supervisor.start` to the written marker and the open gate nothing else of the process
runs, and no other process writes these files while the lock is held. The history begins
with the last process before it (`Old`): it is over, or it was killed and left its files, or
its loops are drained and it is about to remove them. Every process can fail, time out, be
interrupted or be killed at any await, and each is started once (a restart is another
process). What a process knew is forgotten as it ends (`Forgotten`).

A reclaimer may judge by an outdated reading: it reads the lock, its owner removes it by
itself, and only then is the owner probed and found gone. From there on the reclaimer
archives whatever is at the two paths, also what a process that started in between has put
there. Nothing in the code prevents it, and after it the lock says nothing any more;
`overtaken`, a history variable set by such a probe (`Outdated`), is the premise of
`OneInstance` and the exception in `ReadyIsTrue` and `WorkUnderReady`. Everything else
about reclaiming is covered: files that are archived after an up-to-date probe are those of
a process that is gone, however many others start, stop or die meanwhile.

Not modelled: parent pids of the launcher and reused pids, `--exit-when-ready`, a second
Ctrl+C during shutdown, malformed files, build digests and marker versions.

### Memories

`record` is a row of `memory_records` with its evidence, `audit` the table of decisions.
A consolidation is one transaction of the single writer: `Consolidate` opens it,
`TakeCandidate` and `TakeReview` are its items in the order candidates, then reviews, and
work on `stage`; `Commit` makes the stage the record, an item that raises rolls all of it
back (`Raised`). Each maintenance script (`Backfill`, `ReviewPrivacy`, `Activate`, `Reject`,
`Expire`, `Restore`) is a transaction of its own between two consolidations. `Eligible` is
the activation matrix, `Activated` the change of one status or two with its audit events.

An event of evidence is its role and the time of its session, because that is all the code
compares. Ids are hashes of what identifies a memory, so a memory is proposed again under
the same id. Audit ids are hashes too: two events of one time come in any order, and `LastOf`
leaves the choice open. `removed` and `restored` are history.

### Details

The session is the events `1..N`. Two answers of a model reach the store: the details of an
extraction and the timeline of the detail pass; both may be anything that passes
`_parse_details`. `Parts` is the recursion of `_stores_within_cap`, by how often a span may
still be halved: all the ways a session is halved until its answers fit. `Write` is the transaction that stores the spans chosen
and the timeline of each, cut at the cap; it is the same one for the worker and for
the repair scripts. A split runs between two transactions and touches nothing stored, so it
has no steps of its own. Its specification is `DetailSpec`: the proofs extend it beside
`MemoryWorker`.

### Recall

`Pointed` follows `_episode_pointer`: the key of a message is the first that applies of a
day it names, a quote, words it repeats, and what the last messages or resemblance leave.
`Claimed` are the details within the budget, `InContext` the records admitted, `Shown` what
the gate of the context builder leaves of the details, `Index` the lines of the index.
`Built` is `_build_input`; `Refuse` is the second build of a turn whose picture the
endpoint rejects; an opening is built like a turn in which nothing is said. Days have `H`
hours of which the first `NewDay` belong to the evening before. How alike two texts are is
given with the message (`copies`, `alike`, `hits`).

### Context and Reply

A request to `Context` is what there is, each by its cost in tokens. `WorkingFit` is the
halving of `_fit_working_records`, `Packed` the loop over the history with the cost of each
event on its own, `Trimmed` the correction once the transcript is counted as it is sent,
`Assembled` one assembly, `Context` the choice between the preferred window and the wide one.

`Reply` follows one question: `Build`, the request to the provider (`Fail`, `Answer`), the
one tool round (`Search`), guard and protocol (`Judge`), and the callers' second tries (a
silent provider in an opening, a rejected picture in a turn). A text is known by what the
guard and the parser see: its flaw, its marks, its parts. The protocol's rules are `Malformed`.

## 3. Runs

| Run | Shows | Bounds |
|---|---|---|
| `DeliveryGroup` | two tasks, one guarded two-part reply with a reaction, a poke, one crash: promise kept, parts in order, hook with the first part, event and outbox agree | two ids suffice for a collision either way; two dispatches of a reaction |
| `DeliveryLive` | an unguarded reply and a notice share the platform's ids; every call returns | one part, one crash |
| `TurnAll` | a poke, a text and an opening, answered in texts, records or both, compete for the lock over a crash: nothing stale is said, the watermark passes nobody who runs, no input is left in silence | two messages, two parts, two handlers at once, one unread payload |
| `InitiativeAll` | openings of one part, of two with a tail and of a record alone, by a runtime and a zombie, one of which dies, under an owner who writes, pauses, resumes and defers, with quiet hours | cap 1; two owner messages, so each anchor can reach its cap; seven units, three slots |
| `Memory` | two workers, leases that expire, late results, retries, rounds, a cut session, a restart | three events, the third over the token limit |
| `LifecycleThree` | two processes started over nothing, over the files of a killed one or beside one that stops, each failing, interrupted or killed anywhere: one instance, READY is true, background work only under READY, nothing left behind, one failure domain, every start decides | three processes; one of the two like loops; no second delay |
| `MemoriesAll` | two corrections of one of two preferences in almost the same words, over every consolidation and every script | four memories, three assessments (ambiguous, confirmed, contradicted), one item a consolidation, four transactions, evidence one transaction old |
| `DetailsAll` | every answer for a session of three events, every split, refusals, retries and repairs | cap 2 and answers of up to three details, so that the cap is passed; two levels of split; two repairs |
| `RecallAll` | eight kinds of message over three days of four hours, with openings, rejected pictures, restarts, a fragment and records stored meanwhile | four fragments that hold every class of detail, three records; every limit (days, lines, budget, carry) is reached |
| `ReplyAll` | 3600 requests around every budget, then every verdict, error and tool call | five events with an internal one and two pauses; windows 14 and 36, one retry, both tools |

Each bound is a constant of the .cfg. Two actors, one crash and two or three items are
enough for the hazards listed because each of them is a race of two parties over one
row, at most once interrupted; the time bounds leave room for every lease, delay and
slot to expire at least once and be followed by another. In `MemoriesAll` four
transactions are a creation, an activation, a removal and what follows it.

Three processes are what the hazards of `Lifecycle` need: one that leaves its files, one that
clears them away, and one that puts its own in their place. The run reaches the gap
described above: without the exception for `overtaken`, TLC breaks `OneInstance` in twelve
steps. The safety properties are proved for any number of processes and any set of
background loops.

`WiderLosesNothing` holds for windows that are further apart than working set, history and
memories may cost together (`FarApart`), as the default windows of the builder are (262 144
and 524 288 tokens, for budgets of 6 000 and 16 384 and a few memories), or that are equal, as
those of config.example.yaml are. `MCReply` assumes it of its constants, so TLC checks that it
is met. With windows closer than that an expanded context may hold fewer events than the
preferred one would have.

`CHECK_DEADLOCK FALSE` is set where a bounded clock or a process that refused to start
ends the run for good.

### Fairness

- `Delivery!FairSpec`: each task goes on (the event loop serves ready tasks), and a wait
  ends because the HTTP client has a timeout. Nothing is assumed about OneBot.
- `Turn!FairSpec`: the consumer reads on, and each handler goes on: `asyncio.Lock` serves
  its waiters in order and every await has a timeout. No fairness for new messages, crashes
  or restarts.
- `Lifecycle!FairSpec`: the main task of a process goes on, because its waits are timed or end with an
  event and its file and database calls return; a cancelled task is resumed by the event
  loop. Nothing is assumed of the WebSocket, the workers or whoever starts processes, so
  `StartDecides` holds although the reconnect loop may go round for ever.
- `Reply!Spec`: a step of a generation that can be taken is taken, because the request and
  the searches have timeouts. What the provider answers is not constrained.

The other modules state safety only.

### Violations

Each is a run with one property that a document or comment of the repository states.

| Run | What the code does |
|---|---|
| `MemoryBoundedBudget` | a session that must be cut loses its attempt count at every claim and is retried without end |
| `RecallOrdinaryKeys` | under the keys today, verbatim and correction, which the architecture document reserves for ordinary details, a private `topic_only` detail is unfolded once a private record was admitted by the same message |

Noticed on the way, and not a property of a run:

- Turns: a voice-only turn whose record ended unknown repeats the words as text
  (app.py:937). A handler that raised leaves its input behind the watermark of the next turn
  (supervisor.py:381), so recovery does not see it. The voice tail of a reply or an opening
  has no guard: it may land over a newer message or in quiet hours; `TextNeverStale` and
  `TextsWelcome` are about the text parts.
- Initiative: an opening cut after its first part does not count against the cap
  (app.py:1375), nor does a record that outlasts its claim; after a two-part opening whose
  first part ended unknown by an exception recovery reads the row of the last part, which is
  absent, and concludes that it failed. `CapHolds` and `UnknownEndsSilence` are stated for
  openings of one written part.
- Memory worker: a turn that ends while a cut session is claimed rewrites the claimed row,
  and the result of the claim is dropped; `ClaimRespected` is about claims on whole sessions.
  A worker that comes back after its lease commits its result, or counts its failure, as long
  as nobody has taken the row: the comment "a slow provider must never commit an expired
  claim" (worker.py:560) holds only with the clock the tests give. For the same reason a
  retry is due so long after the claim, not after the answer. A late worker whose row a
  restart has put back to `pending` refreshes it and so resets its attempts. A worker whose
  evidence changed leaves the row claimed in its own name until the lease ends.
- Lifecycle: "archive only structurally valid runtime evidence owned by dead processes"
  (readiness.py:409) fails when the owner of the evidence stops by itself between the reading
  and the probe and another process starts: the lock and the marker of that one are archived
  while it serves, and a third may start beside it. A process killed while it reclaims leaves its guard file, and every later start
  is refused until somebody removes it. After a start abandoned over its evidence the lock is
  released before the loops are cancelled. A message that arrives during start-up makes the
  readiness evidence refuse the start; its handler is cut, and the unfinished row refuses
  later starts. The reconnect delay is never reset by a connection that worked.
- Memories: a restore gives the grading back and leaves privacy class and recall policy as the
  removing review set them (memory_repository.py:290).
- Details: one unsound detail refuses the whole consolidation (worker.py:561), against the
  comment there. `--tail-of` run twice may tell the same tail twice under two keys.
- Recall: the index announces details that the gate of the context builder then drops. A
  message at night whose time words are over opens yesterday or today by its first word
  alone. An opening built while a pointer is inherited overwrites what the last turn unfolded
  and uses up a turn of the picture; an opening whose picture is rejected fails.
- Reply: after the tool round no structural retry is left (engine.py:210). A picture rejected
  after a search starts the generation over and may search again. A picture that is gone from
  the store fails the turn.

## 4. Proofs

Every theorem is proved from the assumptions its module states about the constants, for any
finite or infinite sets of tasks, processes, runtimes, workers or memories and any bounds.
`WiderWindow` alone assumes more, that the windows are `FarApart`, because nearer ones
refute it. The theorems about `Details` stand at the end of
`MemoryWorkerProofs`, whose worker runs the detail pass.

The theorems that state a property of a run:

| Module | Theorem | Property |
|---|---|---|
| `DeliveryProofs` | `Ordered` | `[]PartsInOrder` |
| | `Kept` | `KeepsPromise`, the refinement of `AtMostOnce` |
| | `Hooks` | `[]HookWithFirstPart` |
| | `Mirrored` | `[]EventMirrorsOutbox` |
| | `NotForgotten` | `[]FrozenOnlyByCrash` |
| | `Quotable` | `[]SentHasOneId` |
| `TurnProofs` | `Serial` | `[]OneSpeaker` |
| | `Behind` | `[]WatermarkBehindRunning` |
| | `Blocked` | `[]CutBlocksRestart` |
| | `NeverStale` | `[]TextNeverStale` |
| | `Decided` | `[]OneOutcome` |
| `InitiativeProofs` | `Decodes` | `[]StateDecodes` |
| | `Fresh` | `SlotsAreFresh` |
| | `Welcome` | `[]TextsWelcome` |
| | `Apart` | `[]Spaced` |
| | `Silence` | `[]UnknownEndsSilence` |
| | `Capped` | `[]CapHolds` |
| `MemoryWorkerProofs` | `NothingLost` | `[]Accounted` |
| | `NoCauselessLoss` | `[]GivenUpForCause` |
| | `ClaimsHold` | `ClaimRespected` |
| | `TimelineStaysOne` | `[]OneTimeline` of `Details` |
| | `StoredWhole` | `Tiles` of `Details` |
| `LifecycleProofs` | `NothingLeft` | `[]LeavesNothing` |
| | `Alone` | `[]OneInstance` |
| | `ReadyTold` | `[]ReadyIsTrue` |
| | `WorkCovered` | `[]WorkUnderReady` |
| `MemoriesProofs` | `Succession` | `[]OneSuccessor` |
| | `Contradicted` | `ContradictedStaysOut` |
| | `Restoration` | `RestoresGrading` |
| `RecallProofs` | `Announced` | `[]ShownIsIndexed` |
| | `Separate` | `[]EachAdmitted` |
| | `Fades` | `[]PictureWindow` |
| | `Sealed` | `SealedNeedsThePast` |
| `ReplyProofs` | `AsFullAsItCanBe` | `[]FillsWhatFits` |
| | `WiderWindow` (windows far apart) | `[]WiderLosesNothing` |

`DeliveryProofs`, `TurnProofs`, `InitiativeProofs`, `MemoryWorkerProofs`, `LifecycleProofs`,
`RecallProofs` and `ReplyProofs` also prove `TypeCorrect`, the type invariant of their module, which no run
checks a second time. In `Reply` it bounds the attempts of one question.

None of these properties is inductive as it stands. What each needs to know besides:

**Delivery.** `IInv` is `TypeOK` with `Places` (where a task stands fits the operation it
holds: it inserts only an unguarded text, prepares only a guarded one, and waits only for a
row that is dispatched) and `Owned` (an operation that is not a reaction and is being called
or waited for belongs to one task, which is what the compare-and-set of `begin_dispatch`
gives). On top of it stand `Truthful`, which relates row, platform and effects (a terminal row
is never on its way to a second effect), `Entered` (a part a task stands at follows a sent
one) and `Inserted` (an outbox row is preceded by its event). `NotForgotten` follows the holder of
a dispatched row: in each step that is no crash he keeps it or settles it (`HolderStays`), and
a row is only dispatched by one who holds it (`DispatchIsHeld`). `Quotable` says the same of
platform ids without counting (`OneId`: one id for a sent text, none for another); `OneIdCounts`
turns that into the cardinality.

**Turn.** `Base` is the types with `Lock`: who runs is in the queue, once, its head is who is
suspended past the lock, and the queue is in the order of the versions. The watermark is the
version of some turn that ended, so that order is why it passes nobody who waits. `Recoverable`
adds what a crash leaves: a running message is still `received`, a dead process runs nobody, a
cut message is known to recovery until it is failed. `Outcome` counts, for each await of a
handler, what it may have said and noticed by then, and `Latest` names the message a newer
version belongs to.

**Initiative.** `IInv` is `TypeOK` with `Claims` (a claim is of a conversation that has begun, on
a slot of its silence that is over, below the cap) and `Closed` (the times of an ended
attempt are in order). `History` says what a claim has left behind: `Order` (every slot acted on
lies at or before the one on record, and two runtimes never hold the same), `Traces` (nothing
is said without a trigger, nor for a skipped one) and `Stages` (what the ledger holds at each
await of an attempt). Each property then has its own part: `Waited` (every text of this
silence is an interval older than the claim on record or than what comes next), `Hushed` (a
slot left behind was not left to an opening nobody knows the fate of) and `Tally` (the openings
that count, without the one on record, are as many as the record says). `BoxStepIs` reduces
every step to six shapes, and these proofs are about those. A zombie needs no case of its
own: it fails the guard, because its claim is no longer the one on record.

**MemoryWorker.** `InStep` aligns the row with the cursors: the range of a live row begins where
the two cursors end, the holder of a claim extracts for the range of the row, and a failed
row's range is aligned or given up. With it each transaction that moves a cursor is about
exactly the events behind the new cursor and ahead of the old one. For `ClaimsHold`, a step that
leaves the holder of a live claim alone finds a row that is neither due nor out of date
(`UndisturbedRow`), and every handler then returns early or stands in the way of its own claim.

**Details.** `Stored` says that the details of each fragment are numbered from the first without
a hole, are no more than the cap and come from events of its span. What is stored may meet what
is written again under the same key, and is kept when the two agree: of two timelines that agree where
they meet one holds the other (`Nested`), so their union is one timeline still. What a
recursion computes is proved by hand: such a function exists because a least argument without one
would have one after all, and then its equation can be used. So `PartsTile` shows by the depth that
every way of halving a span covers it with spans that do not overlap.

**Lifecycle.** `Places`: the guard file names a process only while it reclaims, the lock only
between acquiring and releasing, the marker only between writing and removing, and a process
named by the lock and not killed has its `record`, so that its release is not skipped.
`KeepsPlaces` reduces every action to what it does to the files of its own process. `Held` adds
what a process knows of itself: it reclaims behind its guard file (`GuardHeld`), its record is
kept from acquiring to releasing, and an open gate stands for record and marker until the loops
have been drained (`GateHeld`, `DrainedFirst`). The last part, `Orderly`, is why reclaiming is
safe although it judges by what it read before, as long as no probe was outdated: the marker is
never without the lock of the same process (`MarkerBacked`), so what is judged is a lock
(`LockRead`); the lock that is archived is still the one that was judged, and its owner is
gone (`JudgedGone`), for nobody can acquire over it, nobody else reclaims beside the guard file
and a process that is gone removes nothing (`ArchivedAlone`). So while files are archived
nobody holds the instance (`NobodyHolds`), and the marker of the next one is never among them
(`MarkerFirst`). All of it is for any number of processes.

**Memories.** `Base` holds of what is committed and of the stage of the open consolidation alike:
records and audit are typed, one correction succeeded whatever was superseded, and a self
expression never has counterevidence. For `ContradictedStaysOut` the stage also remembers
(`Inherits`) that it has not made a contradicted memory active. For `RestoresGrading`, `Kept` orders
the audit trail in time: a memory that counts was assessed after all its removals (`Before`), so
the last removal by time is the one that is undone, and of a removed memory that one knows the
grading (`Remembered`); `Staging` says the same of a consolidation that is still open.

**Recall.** The properties of what a turn shows are about one state each, but they rest on how it is
computed: sorted by nearness, cut to the window, pinned, indexed. `SortedFacts` (a sorted sequence
of a finite set has each element once, in order), `TopFacts` and `IndexFacts` give what
the cuts keep; the index makes room for what is pinned before anything else, so that `ShownFacts`
and `UsedFacts` can say that nothing unfolded lost its line and no private record came in
under another's admission. `PictureSpent` adds the turns a picture has been attached to those it may
still be. `Sealed` follows every path to an explicit detail (`PointedCases`, `NamingFacts`) back
to a quote, a named past day or the unchecked rest of today.

**Reply.** A tool is offered only while an attempt is left, so the tool round adds one
question and no more (`Rounds`). A context that was built is an assembly of what was asked in one
of the two windows (`Chosen`); the rest is about what the loops of the builder compute.
`SumFacts` is the sum over a finite set, in whatever order a fold adds it up (`SumMonotone`
compares two). `HalvingFinds` is the search for the longest prefix: below its range all fits and above
it nothing does, though only the middle is ever tried. `PackedFacts` follows the packing event by
event: what is kept is the newest run of the history and costs what it counted, because an
older event does not change the gap after a newer one (`CostsOfOlder`), and the event that ended it was
not affordable. `TrimmedFacts` is the correction by the whole transcript, which never costs less than
its events (`BundleFacts`); that is why what the packing refused could not have been sent either
(`AssembledFull`). `WiderHolds` compares two assemblies: with that much more room nothing but the
budgets limits the wide one, and they limited the narrow one too.

Left to TLC: liveness (`CallsReturn`, `Heard`, `FallsTogether`, `StartDecides`, `Ends`), which is
out of the prover's reach. Every safety property of a passing run is proved.

## 5. Not modelled, and the plan

Text is data everywhere: prompts, replies, memories and their parsing are abstracted to what
the control flow distinguishes. SQLite transactions are atomic and durable, the wall clock
does not run backwards in `Initiative` and `MemoryWorker` (the code clamps times it
compares), and one conversation exists because the configuration admits one owner.

| Part | Why |
|---|---|
| `dashboard/service.py`, `dashboard/app.js` | reads of the rows modelled here, and rendering; its controls are `Pause`, `Resume` and `DeferOnce` of `Initiative` |
| `config.py`, `api_credentials.py`, `autostart.py` | parsing and validation, once, before anything runs |
| `storage/migrations.py`, `storage/database.py` | the transactions every module takes as atomic; migrations run alone |
| `media/store.py`, `media/fetch.py`, `net/search.py` | files and HTTP; what a caller sees of them is an answer in `Recall` and `Reply` |
| `transport/quote_resolver.py` | a look-up over the id map of `Delivery` |
| `voice/synth.py`, `voice/cache.py`, `voice/director.py` | rendering; success or failure is an answer in `Turn` and `Initiative` |
| `quality/`, `observability/` | offline evaluation and records beside a turn nobody reads back |
| `dialogue/prompt_loader.py`, `memory/extractor.py` (parsing) | wording, and a parser without state |
| `domain/`, `expression/` | immutable types and a static table |

Next, in this order:

1. The voice dispatcher in detail: record, degraded text and residue, and the check the voice
   tail of an opening lacks.
2. The eviction of pictures beside the window that carries them.

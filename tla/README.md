# LINKA in TLA+

TLA+ models of the chat platform in this repository, TLC runs over small
instances of them, and TLAPS proofs about the parts every message goes through.

Contents: 1 the system, 2 modules and code, 3 runs and bounds, 4 fairness,
5 proofs, 6 what the models refute, 7 not modelled, 8 limits and next steps.

## 1. The system

Linka is a FastAPI application (any number of processes), a Rust WebSocket
gateway, a Rust id service and an agent worker (any number of containers).
Postgres holds the rows, Redis the streams, sorted sets, locks, counters and
pub/sub channels, an S3-compatible store the media. A message goes like this:

    client -> gateway -> send stream -> SendWorker -> Postgres
                                            |-> embedding queue
                                            `-> fan-out stream -> FanoutWorker -> pub/sub -> gateways
                                                      `-> trigger stream -> TriggerWorker -> debounce
                                                              -> invoke stream -> agent turn -> send stream
    client -> gateway -> receipt stream -> ReceiptWorker -> watermarks, cursors, log rows, live events

| Component | State | Operations | Hard behaviour | What makes it correct |
| --- | --- | --- | --- | --- |
| Stream consumer loop (`realtime/fanout/base_worker.py`) | a Redis stream, its group's pending list | read, claim stale, process, acknowledge with retry | crash between effect and XACK; reclaim of a batch still worked on; MAXLEN | acknowledged implies effect; an entry is handed out again only to a worker that does not have it while another is slow, or after a fault; every entry served |
| Send pipeline (`fanout/worker.py`, `messaging/send.py`) | idempotency key, rows, blob references, two outgoing queues | check, reserve, mint id, commit, record, enqueue | four systems, a failure or crash between any two; a retry that assumes its predecessor is dead, or comes after the key is gone | nothing acknowledged is unsettled; ids that leave name committed rows; a second row only by a take-over or after the key ran out |
| Scheduled messages (`fanout/scheduled_worker.py`, `messaging/scheduled_service.py`, `crud_scheduled.py`) | rows with a status, a due set in Redis | create, move, cancel; poll, fire, give up, reconcile | two workers on one id; XADD inside a transaction; Redis flushed | a cancelled row was not sent; sent again only after a fault; every pending row ends |
| Receipt watermarks and cursors (`chats/crud/crud_participant.py`, `messaging/crud.py`) | watermark per participant, cursor per chat | send, acknowledge, join, leave | READ COMMITTED: a minimum read before others commit | no tick too early; exact when alone; never back |
| Receipt stream and log (`modules/receipts`) | watermarks, log rows | fold a batch, move, log, publish, acknowledge | two commits and several calls per batch, redelivery | progress is never lost, a row per move |
| Media blobs (`modules/media`, `messaging/media_validation.py`, `edit_delete.py`) | blob row, object, references, quota | ticket, upload, confirm, delete, restore, purge | row and object change apart; purges overlap sends | a message that can be shown has its object |
| Message history and editing (`messaging/crud.py`, `read_api.py`, `edit_delete.py`, `search/crud.py`) | rows with id and creation time, preview in the chats row | commit, page, find by id, edit, delete, restore, purge | rows are dated when committed and found by bounds derived from their ids | a page skips nothing it could reach; the preview is the last message's text |
| Agent turns (`modules/agents/invoke_*.py`, `trigger_engine.py`) | debounce stash and due set, invoke stream, turn lock, superseded flag | evaluate, poll, take, turn, release, acknowledge | five actors on five Redis keys; timeouts, merging, supersession | one turn per chat; no message forgotten; no reply past a message that superseded it |
| Agent triggers (`agents/trigger_engine.py`, `trigger_queue.py`, `crud.py`, `cache.py`) | rules in the agent's row, their cached copy, quota counters | queue, match, charge, spend a fire, arm, refund; pause, delete, switch off | a copy of another age at every step; renewals of the cache that fail or overtake each other | fires are accounted for; a paused or deleted rule is quiet once the cache has heard of it |
| Agent schedules and tasks (`agents/goal_tasks.py`, `ephemeral_tasks.py`, `schedule.py`, `invoke_poll_loops.py`) | one JSONB value with tasks and entries, due set, Redis copy | spawn, answer, poll, close, sweep, fire, switch off | read, changed and written back whole by sessions that do not lock what they read | a closed task is noticed once; one goal task per chat; replies survive; tasks close |
| Agent budgets, rate limits (`agents/*_budget.py`, `infra/ratelimit`, `crates/common/src/ratelimit.rs`) | counters with a TTL, sorted sets | hit, refund, charge, slide | two or three calls per hit; clocks that differ | a window lets through no more than its limit |
| Agent tools (`agents/tools`, `restriction_ddl.py`) | restrictions, triggers and pending confirmation in the agent's row | send, open, leave, read, search, edit triggers; count, confirm, fetch page by page | turns act on a copy of the row while the owner changes it; triggers in the database look again | only an aged copy oversteps or is refused; a fetch answers the count that was confirmed; its last page is the last |
| Owner chat and configuration (`owner_chat_router.py`, `invoke_turn_pre.py`, `router.py`, `reset.py`) | `builder_state`, restrictions, triggers | classify, ask, patch, reset | the router decides per turn, on a copy | no second question in a row; a one-off turn does not make a wake-up permanent |
| Agent knowledge (`agents/knowledge_service.py`) | objects, documents, quota | upload, commit, embed, remove | quota counted before the commit; object goes before the row | quota holds; a document has its file |
| Fan-out routing (`fanout/routing.py`, `realtime_service.py`) and WebSocket gateway (`crates/ws_gateway`) | registrations in Redis, subscriptions, connection table, bounded queues | connect, bootstrap, join, heartbeat, fan in, close, reconnect | edge detection and Redis write are separate awaits; pub/sub loses messages | what is served is registered; a gap in a client's frames is known; an added member gets the chat |
| Connection cap (`ws.rs`, `ratelimit.rs`) | sorted set of a user's connections | register, evict, kick | the set knows a connection before its process does | no more connections than the cap once kicks are through, but for those whose kick was lost |
| Presence (`presence.rs`, `presence_service.py`, `presence_authz.py`) | foreground set with a TTL, watches | toggle, expire, subscribe, check privacy, publish | snapshot read before the subscription is heard | watchers converge to the status they may see |
| Chats and membership (`chats/membership.py`, `creation.py`) | participants, roles, private pairs | create, add, leave, hand over, remove, change role | several transactions per request | a group that exists has its owner; a pair has one chat |
| Chat lists, profiles and photos (`chats/listing.py`, `preferences.py`, `group_details.py`, `users/avatar_service.py`) | switches, list pages, profile row, avatar objects | pin, mute, page; set, clear, rename, broadcast | commit before publish; photo objects beside rows | devices and viewers end with what the row says; lists are complete |
| Accounts (`auth/service.py`, `users/service.py`, `crud.py`) | users, handles with grace hold, refresh tokens | log in, rename, refresh, log out | answers out of date at the write; tokens swapped in two calls | a handle held is nobody else's; a session is one line of tokens |
| Ids (`infra/ids`, `id_service`) | last timestamp and sequence | mint under a lock, by compare-and-swap, fall back | clock steps, exhausted sequences, restarts | unique; increasing within a life |
| Text and vector search (`modules/search`, `vector_search`) | stream lock, embedding queue | stream, drain, flush, embed, push back | generators left early; pop before work | one stream at a time; no text lost but in the gaps named |
| Partition scripts (`scripts/manage_partitions.py`, `prune_receipt_log.py`) | dated partitions, DEFAULT | ensure, migrate, prune | transactions of one migration between application writes; interruption; a partition the other parent's DEFAULT refuses | every row has a table |
| Prompts and personas, settings, start-up | | | text, single-row writes, wiring | not modelled (section 7) |

Components interact through streams (each consumed with the loop of
`base_worker.py`, or a close relative of it), through rows (the send pipeline
moves the sender's watermark, counts blob references and is what a scheduled
message and an agent's reply end in) and through Redis keys that several
processes read and write without a transaction. `PROJECT.json` has every
component under "components" and, under "hazards", what can go wrong at which
line and which property watches it.

## 2. Modules and code

| Module | Models | Notes |
| --- | --- | --- |
| `ConsumerGroup` | Redis stream + consumer group + `BaseStreamConsumer` | the actions the three consumers below are built from; EXTENDed by them |
| `AtLeastOnce` | nothing in the code: the promise | abstract specification, implemented by `StreamWorker`, `SendPipeline` and `ReceiptLog` |
| `StreamWorker` | the loop with an opaque `process_entry` | what is true of every worker |
| `SendPipeline` | `SendWorker.process_entry`, `process_outgoing`, `create_message` | the loop with the real handler, call by call |
| `ScheduledMessages` | REST calls, due set, poll worker, reconcile | an entry on the send stream is a count; the send pipeline takes it from there |
| `ReceiptCursors` | statements and row locks of four transactions | session = one database transaction at a time |
| `ReceiptLog` | the receipt worker's drain | the loop with a batch handler |
| `MediaBlobs` | ticket to purge of one file | one blob row, one hash |
| `MessageHistory` | one chat's rows, its readers, the preview | a reader pages while rows commit |
| `AgentInvoke` | from "a message matched" to "its turn is over" | one agent in one chat |
| `AgentTriggers` | from a queued message to an armed debounce | ends where `AgentInvoke` begins |
| `AgentBoard` | tasks and schedule of one agent | sessions that each hold a copy of the row |
| `AgentTools` | what turns may do: restrictions, the owner chat's router, triggers of the database | a turn has a copy of the row; a tool call is one action |
| `BulkFetch`, `Knowledge` | the whole-chat fetch; the documents of an agent | the tools and services with state of their own |
| `GatewayRouting` | gateway processes, Redis registrations, the publishers | connection tasks, fan-in tasks, heartbeats |
| `GatewayPresence`, `ConnectionCap` | one user's presence and its watchers; one user's connections | |
| `GroupMembership`, `PrivateChats` | one group; the private chat of one pair | a request is a sequence of transactions |
| `ChatLists`, `ProfileUpdates` | one user's list and switches; one profile, of a user or a group | |
| `Handles`, `Sessions` | handles of several accounts; refresh tokens of one user | |
| `RateWindows`, `SlidingWindow` | fixed windows with refund and weights; sorted-set windows | |
| `SnowflakeIds` | the lock-based and the compare-and-swap generator | one clock for all |
| `SearchStreams`, `EmbeddingQueue` | one user's streamed searches; the queue of texts | |
| `TimePartitions` | the partitions of one table, the scripts and the writing application | |
| `MC*` | | constants for TLC; `MCLive`, `MCChatServices`, `MCPlatformServices` take several components (section 3) |
| `*Proofs` | | theorems, section 5; `ChatServicesProofs`, `PlatformServicesProofs` and `LiveProofs` are about the modules of the MC module of that name |

How to read them. Every action is what happens between two awaits: a Redis
call, a statement, a commit. A guard is a condition of the code at that point;
a step variable (`step`, `phase`, `at`, `stage`, `engine`, `polling`) is the
place in the coroutine. A failing call is `EntryRaises`, `Fail`, `Rollback`,
`TurnFails`; a dying process is `Die`, `Crash`, `EngineDies`. Variables marked
"history" in their declaration are not in the code: they record what a property
speaks about and guard no action. Where a promise has a gap that the code
leaves open, the gap has a history variable of its own (`raced`, `crossed`,
`shared`, `hurt`, ...) that says when it was met, and the property holds
outside of it: the name is the documentation of the gap, and section 6 lists
them. `PROJECT.json` "map" gives, for each definition, the lines it stands for.

`ConsumerGroup`. `stream` is the sequence ever added; `trimmed` the prefix
MAXLEN cut off; `cursor` the group's last delivered entry; `fresh[w]` and
`claimed[w]` what `w` got by `>` and by XAUTOCLAIM; `ackIds[w]` what it will
acknowledge. With `SlowHandlers` an entry may be claimed from a worker that is
still on it (it has been idle for `claim_idle_ms`, which is all XAUTOCLAIM looks at);
without, only from one that failed it or died, which is an assumption about handlers
that `send_settles` makes and no other run. `Read` is claim then read, as in `_drain_shard`; `Ack` is
one XACK for the batch; `AckLost` is the case of all three tries failing.

`SendPipeline`. `process_outgoing` in its order: `Check` (membership,
content, and `confirm_and_ref`, which commits), `Reserve` (SET NX), `MintId`,
`CommitRow`, `RecordId`, `EnqueueEmbedding`, `EnqueueFanout`, `EntryDone`; on
a key already there `FoundSent` (then fan out again and tell) or `TakeOver`
after the two-second wait. A payload is a `client_message_id`: a client that
got no answer enqueues the same one again. The key lives for a day; `KeyLapses` ends
it at any moment, once for each payload, and `lapsed` remembers it.

`ScheduledMessages`. Workers follow `boot, readd, idle, claim, lock, sender,
xadd, mark, commit`, or `bump, requeue, giveup, fail` after an error; clients
`pin, insert, add` and `remove, unpin`. The clock is an integer that stops at
`MaxTime`.

`ReceiptCursors`. A transaction's writes are in `txn[s]` until it commits,
which is when others see them; an UPDATE waits for the row lock and then looks
at the committed row again. A deadlock (sender and acknowledger take chat row
and participant row in opposite order) ends by `Rollback`, which also stands
for a lost connection. A client may acknowledge an id that no row has (`Guesses`): nothing
checks it, and `foretold` is set when a transaction that does so starts.

`MessageHistory`. `ids` is the order in which ids were minted, `createdAt` the
hour a row was committed; partitions are looked up by the id's hour plus or
minus `Skew`, as `MESSAGE_PARTITION_QUERY_SKEW_HOURS` does.

`AgentInvoke`. Each message has its own evaluation (`engine[m]`), each poll
loop its popped message, each task its entry. The flag is taken by GETDEL, so
`TakeFlag` is a step of whoever looks. `lost` names, and only for these
reasons, messages the code gives up: the agent is disabled; `arm_debounce`
swallowed an error; a process died with a popped pair, or with one a busy task was
putting back; the judge, the clarify
gate or the timeout disposed of a turn another message had been left to; the
model's answer was cut off, was text that no tool sends, or was nothing in the last
round trip, so that the turn ended with nobody answered (`AnswerIsDropped`); a turn used up its round trips on a flag older than
itself; a turn gave way to a message that had been skipped; `arm_debounce` failed for a
busy pair, which is swallowed, and the entry was acknowledged (`BusyArmFails`); the
stash ran out before its poll (`StashExpires`).

`AgentTriggers`. `rules` is the committed value, `cached` the copy the engine
matches against, `mine[m]` what the evaluation of `m` read: the three may be of
different ages. `at[m]` follows an evaluation from queue to armed debounce;
`charges` is the hourly quota. What excuses a promise is a history of its own:
`raced` (a write from a copy older than the row), `misled` (a message matched a
copy when the row had nothing for it), `strayed` (a renewal of the cache failed, came
from an aged copy, was passed by another, or was of a write that was rolled back);
`hushed` are the messages that the
row had nothing for since they were queued. The owner's request commits (`OwnerDeletes`,
`Resume`, `Switch`) and only then renews the cache (`Renew`, by which time the next
request may be on its way); a tool of a turn flushes and renews (`TurnDeletes`,
`TurnPauses`), and the turn commits or fails later. Every renewal may fail, which
`sync_agent_cache` only logs.

`AgentBoard`. `row` is the committed value, `mind[s]` the copy session `s`
works on until it closes, `holder` the session whose UPDATE is not committed.
`cache` and `due` are the Redis copies, which the agent's own code renews
before its commit and the REST API after it, and either may fail to. `Replaces` is a
request or tool that writes `on_schedule` as a whole: entries it leaves out go with their
due members, fired or not. What happened to a notice is in `lapse`.

`AgentTools`. `limits`, `builder` and `wakes` are columns of the row; `runs[r]` is the
turn in place `r` (the owner's chat, another chat, or none) with the restrictions it
loaded, `copy` what else the turn of the owner's chat loaded. `Calls` is the
dispatch: what there is to call depends on the place and on the state the router left.
`InsertIsRefused` and `LeaveIsRefused` are the triggers of `restriction_ddl.py`, on the
committed row. `SendGate` and `Deliver` are apart because the owner's send budget is
waited for between check and insert.

`GatewayRouting`. `pc[c]` is the task of a connection from accept to close;
`edge` the local first or last member of a chat, taken under the local lock;
`op[t]` a Redis call under way, which `RedisAnswers` ends. `commands`, `inbox`
and `fanin` belong to the fan-in task of a process; `queue[c]` is bounded and
`dropped` is the set the next heartbeat of the client turns into a resync.

`GatewayPresence`. The edges of the foreground set publish; a watcher's
subscription goes through privacy check, snapshot, answer and fan-in command,
each a step of its own.

`GroupMembership` and `PrivateChats`. `request[r].step` (`call[c]`) is the next
transaction of a request; between two, any other may commit or the process may
end. A group whose creator turns out to be no user is `bare` until it is undone.

`EmbeddingQueue`. `RedisFails` is any call of a task to Redis that fails after it popped:
the hands of the task are lost. `BatchIsLost` is the reply to the pop itself that does
not arrive. Both are noted in `textsLost`.

`ConnectionCap` and `SlidingWindow`. A kick that was published may be lost (`LoseKick`),
and the process that was to send it may die (`GatewayDies`); the device goes to `missed`.
A script that gets no answer (`SlideFails`) lets the call through: `let` has
those the script let through, `unanswered` the others.

`Handles`. A hold counts from `since`, the day its transaction began. `Tails` are the
handles of the last resort, which nobody asks about before the write.

`Knowledge`. The object of a text is read before the commit, that of a PDF never is: its
chunks come from the client. `Upload` may come before or after the commit.

`TimePartitions`. A moment is the number of its period. A migration is detach,
create, copy batch by batch, attach, each a committed transaction. The other parent
is there by what it does: it may refuse the creation (`CreateRefused`), which ends the
script with DEFAULT detached.

## 3. Runs and bounds

| Run | Instance | Question |
| --- | --- | --- |
| `stream` | 2 workers, 3 entries, MAXLEN 2, 1 failure, 1 crash, slow handlers | the loop alone: bounded redelivery, service, refinement (which implies effect before acknowledgement) |
| `send_retries` | 2 workers, 1 media message queued twice, 1 failure, 1 crash, slow handlers | retries, duplicates, take-overs and blob references |
| `send_settles` | 1 text and 1 refused message, 1 membership change, 1 crash | refinement; liveness: every queued message is fanned out or reported in the end, and its entry acknowledged |
| `scheduled_fire` | 2 workers, 1 REST call at a time, 1 row, 2 attempts, 2 failures, 1 crash, clock 0..1 | fire, cancel and move race |
| `receipt_log` | 2 workers, 2 keys, 2 entries, 2 crashes, slow batches, MAXLEN 1 | fold, move, log, publish |
| `receipt_lost` | the same, 1 crash | refuted claim |
| `agent_turns` | 2 messages, 2 tasks, 1 poll loop, 3 round trips, no fault | debounce, merging, supersession; liveness |
| `agent_faults` | 1 message, 1 instruction, 2 tasks, 2 round trips, 1 fault | crash, failed call, reclaimed turn, agent off |
| `agent_instruction` | 1 message, 1 instruction | refuted claim |
| `live` | routing, presence, agent's tasks | what must happen in the end, and its safety |
| `chat_services` | ten components around a chat | ticks, media, history, membership, lists, profiles, search, partitions |
| `platform_services` | eleven components around accounts and agents | limits, tasks, triggers, ids, accounts, tools |

The last three runs hold several components that share no state: `part` chooses
one in the initial state, its `Next` runs with every interleaving of its own
actors and faults, and the others keep the initial state their `Init` gives.
A behaviour is thus one of a single module, and the state space the sum of
theirs, not the product. Modules that declare the same constant (`Sessions`,
`Users`, ...) share its value.

Invariants that are conjunctions, each with the type invariant of its modules:

| Property | Parts | Module |
| --- | --- | --- |
| `StatusHolds` | `CancelledWasNotQueued`, `SentIsQueued` | `ScheduledMessages` |
| `LogHolds` | `AckedIsCovered`, `RowsMatchMoves`, `MovedIsLoggedWithoutFault` | `ReceiptLog` |
| `TicksHold` | `NoPrematureTick`, `ExactWithoutOverlap` | `ReceiptCursors` |
| `MediaHolds` | `MediaKept`, `RefsCoverMessages`, `UsageCoversMessages` | `MediaBlobs` |
| `HistoryHolds` | `PagesAreComplete`, `PreviewFollows` | `MessageHistory` |
| `ChatsHold` | `GroupIsHeld`; `PairIsOne` | `GroupMembership`; `PrivateChats` |
| `ViewsHold` | `ListIsComplete`, `DevicesShowSwitches`; `PhotoIsStored`, `ViewersShowTheRow` | `ChatLists`; `ProfileUpdates` |
| `SearchHolds` | `StreamsTakeTurns`; `TextIsKept`, `DroppedForCause` | `SearchStreams`; `EmbeddingQueue` |
| `TablesHold` | `RowsHaveAHome` | `TimePartitions` |
| `RoutesHold` | `ServedIsRegistered`, `GapIsKnown` | `GatewayRouting` |
| `LimitsHold` | `CapHolds`; `WindowHolds`; `SlidingHolds` | `ConnectionCap`; `RateWindows`; `SlidingWindow` |
| `TasksHold` | `ClosedIsNoticed`, `NoticeIsDue`, `RepliesSurvive` | `AgentBoard` |
| `TriggersHold` | `FiresAreAccounted`, `QuietIsKept` | `AgentTriggers` |
| `IdsHold` | `IdsUnique` | `SnowflakeIds` |
| `AccountsHold` | `HandleHeld`, `QuotaHolds`; `SessionIsOne` | `Handles`; `Sessions` |
| `ToolsHold` | `LastPageIsLast`, `OneFetchPerCount`; `QuotaIsKept`, `DocHasItsFile`; `RefusalsAreFew`, `OnlyAgedTurnsCross`, `OneClarify`, `StandingIsBuilt` | `BulkFetch`; `Knowledge`; `AgentTools` |

Why these bounds are enough to see the cases. The races are between two actors
on one object, so two workers (tasks, sessions, requests) and one object are
the least instance that has them; a third actor would take one of the two
roles. Three entries with MAXLEN 2 let a worker hold one entry while another
is cut off. One failure and one crash fall between any two steps, so every
prefix of a handler is followed by a redelivery; two failures let a scheduled
message use up its attempts. Two messages are the least for a minimum, a fold,
an out-of-order commit and a superseding message. `MaxTrips = 2` is three round
trips: merge, call, send. `MaxIds = 3` lets an attempt, its redelivery and a
take-over each mint one. Bounds on entries, ids, moves, time, faults and
crashes are guards on the environment's actions or on minting an id or adding
an entry, and are as large as the instance can use up.

In the services: `ReceiptCursors` has two users, two sessions and two messages, of
which the second may be acknowledged before it is written,
enough for two acknowledgements, or a send and a join, to overlap; `MediaBlobs`
two messages with one file, two kinds and a purge. `MessageHistory` has two
messages, a page of one and `Skew` 1 in hours 0..2, so that a row can commit
inside and outside of its window. `GroupMembership` has three requests (an owner's
leave, one that overlaps it, one after both), one of the first people no user;
`PrivateChats` three calls (a race and who finds its result), the second of the pair a
user in one initial state and none in the other. `ChatLists` has
three chats and pages of two: a full page, and one that ends on a pin;
`SearchStreams` three streams and a lock that outlives one or is outlived;
`EmbeddingQueue` three texts in chunks of two, one of them unfit, so that a chunk
has both, and two tries. `TimePartitions` has two rows moved one at a time over
periods 0..3, one interruption and retention 1. `ConnectionCap` has three devices
for a cap of one; `AgentBoard` a goal task and a relay task over two chats, from five
rows (empty, one task, both, a last turn) with two sessions, or one and a failure; `RateWindows` two hits for a limit of one and four ticks of a window of
two; `SlidingWindow` four callers on two processes, one with a fast clock, and one call
without an answer; `AgentTriggers` two messages of a chat and, for owner and turns, two readings
of the row without a failure or one with one;
`SnowflakeIds` a lock-based and two compare-and-swap minters of three ids, sequences
of two, one step back and one restart; `Handles` two accounts, three handles (one
of them a tail), two renames; `Sessions` two devices, three refreshes; `BulkFetch` two turns, three
messages, two ranges; `Knowledge` three commits for a quota of one; `AgentTools` the
owner's chat and a place that is a chat, a group and a private chat to be opened, a
wake-up of a chat and one of a flag, two changes of the restrictions. It has two kinds of
behaviours, since their product is too large and nothing but the turn's step relates
them: one in which restrictions and chats change (`gates`), one in which the router's
state and the triggers do (`wakes`); the proof is of both at once. `live` has one
gateway process with two connections of one user, one chat and a queue of one,
with two chat events, or a membership change and a fault; one user's two devices and
a watcher; two goal tasks in one chat and two sessions.

`SYMMETRY` (workers are interchangeable) is used in safety runs only.
`CHECK_DEADLOCK FALSE` stands in the runs because each system stops when its
bounded supply of messages, requests and faults is used up.

Each property of a passing run has a mutant in `PROJECT.json`: a definition
with a plausible bug (next to the original in its module) under which TLC
finds the property violated. Reading the mutants is a quick way to see what a
property is for.

## 4. Fairness

Every liveness property is checked under weak fairness of each process's own
steps, one condition per worker, loop or task: `run_forever` and the poll loops
catch whatever an iteration raises and go on until cancelled, so a task that
has something to do does it. Faults, crashes, arrivals, trimming and REST calls
are not fair; they are bounded in number, as liveness through unboundedly many
crashes is not what the code offers. In `AgentInvoke` the lock's expiry is fair
(Redis expires it), the flag's is not. A crashed process's work is picked up by
any other worker of the group, or by itself once restarted, which the loops'
claim of stale entries justifies.

`agent_turns` has one poll loop. With two, the passes of one may forever undo
those of the other (one reads the pair as due, the other removes it, the first
finds nothing): the code has no rule against it, only improbability, and
fairness does not exclude it.

`GatewayRouting`: the task of each connection goes on (`TaskStep`), Redis
answers the calls in flight, and a notice that was committed is published. The
fan-in task takes its commands and its messages from one `select!`, where each
may be passed over while the other is ready: both have strong fairness, as
`select!` chooses at random. `GatewayPresence`: a client that once watched sends
its subscription again with its heartbeat, and the gateway's tasks run; devices
need not do anything. `AgentBoard`: the poll loop ticks, and a session that holds
the row lock commits or rolls back; neither turns nor requests need go on, and
the participant need not answer.

## 5. Proofs

All theorems hold for every value of the constants that satisfies the named
assumptions of the modules: `GroupAssumption`, `SendAssumption`, `AgentAssumption`,
`ScheduledAssumption`, `ReceiptAssumption`, `ReceiptLogAssumption`, `MediaAssumption`,
`PairAssumption`, `PartitionAssumption`, `ListAssumption`, `ProfileAssumption`,
`HistoryAssumption`, `CapAssumption`, `RateAssumption`, `SlideAssumption`,
`KnowledgeAssumption`, `BulkAssumption`, `BoardAssumption`, `TriggersAssumption`,
`IdsAssumption`, `HandlesAssumption`, `SessionsAssumption`, `ToolsAssumption`,
`RoutingAssumption`, `PresenceAssumption`, `StreamAssumption`, `EmbedAssumption`. Thus
any number of workers, poll loops, sessions, callers, connections, messages and
payloads, any batch, chunk and queue size, MAXLEN, page size, quota, TTL, number of
round trips and number of faults. What the assumptions ask is that bounds are numbers, that a
sentinel (`None`, `NoFile`, `NoPhoto`, ...) is not a value, and that sets somebody
counts are finite.

Each of the three consumers' proof modules (`StreamWorkerProofs`, `SendPipelineProofs`,
`ReceiptLogProofs`) begins with the lemmas that the actions of the consumer group it
is built from preserve `GroupTypeOK`.

`StreamWorkerProofs`:

* `TypeCorrect`.
* `AckedHadEffectHolds`. The invariant must also say that what a worker is
  about to acknowledge (`ackIds`) had its effect: `EffectInv`.
* `LoopImplementsAtLeastOnce`: `Spec => Promise!Spec`, from the same
  invariant; `Acknowledge` is `Retire`, `ProcessEntry` is `Handle`, a failure
  is one of `Handle` or a stutter, all else stutters or adds.
* `RedeliveryIsPaidForHolds`. While an entry is not acknowledged, its deliveries
  beyond faults and crashes are at most the workers that hold it (`RedeliveryInv`): a
  claim adds a holder, a worker leaves an entry alone only by a fault or by the XACK,
  and after that XACK nobody is given it. It needs finitely many workers.

`SendPipelineProofs`:

* `TypeCorrect`, with the part that matters: a step that uses a message id has one.
* `AckedIsSettledHolds` and `IdsNameCommittedRowsHolds`, from `SettleInv`. No
  message is lost: what is acknowledged was fanned out or reported, and an id
  that is fanned out, embedded or recorded names a committed row with the same
  `client_message_id`. Neither is inductive alone. `SettleInv` adds what the
  worker's place says about the world: at `record` and after, its row is
  committed; at `refan`, the id it found in the key names a row; at `after`, its
  entry is settled; what it collected for the XACK is settled. Rows, fan-out
  entries and notices only grow (`GrowsKeeps`, `NamesKept`), which keeps all of it
  under the steps of others.
* `PipelineImplementsAtLeastOnce`: `Spec => ImplementsAtLeastOnce`, the
  refinement the runs check, from `SettleInv`: a step that fans out or reports is
  `Handle`, `Acknowledge` is `Retire` of what is settled, a client's XADD is
  `Add`, and what a worker does in between stutters.
* `DuplicateNeedsTakeOverHolds`. Of the attempts for one `client_message_id`
  that have not given way to a take-over, at most one may still write or has
  written: whoever passes `Reserve` finds no key, and the key stays, unless it ran out:
  `lapsed` excuses its payload.
* `BlobRefsCoverRowsHolds`. References are counted before rows are committed,
  so the invariant counts the attempts between the two as well; it needs
  finitely many workers, as `MediaHoldsAlways` needs finitely many messages.

`AgentInvokeProofs`:

* `TypeCorrect`, a lemma per action. `TypeOK` is a conjunction of one type per
  group of variables, so that what an action leaves alone is settled by one
  lemma (`FrameType`) and each proof is about what it changes.
* `OneTurnHolds`. The inductive form is `TurnHoldsLock`: whoever is in a turn is
  the lock's holder. Only `StartTurn`, `Release`, `LockExpires` and `Crash` touch
  the lock: the first finds it free, so nobody is in a turn; the second frees it
  only for its holder, who leaves; the third is the lock of a dead task or of
  one past its turn, because the lock's TTL is the turn's timeout and 20 s more
  (`config/agent_settings.py`) and the timeout cancels the turn first; the last
  leaves it to nobody.
* `NoStaleReplyHolds`, from `FlagSeen`: a turn past its gate that finds no flag has
  read every message that ever set it. Only the turn takes the flag, and whenever
  it does it reads on or leaves; a message that sets the flag has arrived, so a
  turn that merges it has read it too (`Bounded`).
* `NothingForgottenHolds`. `NothingForgotten` says that some token is left for the
  pair; its inductive form (`Fate`) says which tokens speak for whom, because a step
  that uses one up must leave another. `Ahead(M, s0, m)` is the account: a turn for one
  of the messages `M` is on its way to the stream, or stands in an entry other than
  `s0` that no task will drop before message `m` was read.
  * `OwnAhead`: an arrived message is settled, lost, displaced or has a token of its own.
  * `SomeAhead`: an arrived message that is not settled or lost has some token.
  * `SuccessorAhead`: whoever set the flag a turn may give way to has a token
    outside that turn's entry, so a turn that gives way leaves one.

  `Base` adds what these three need: the types, the lock, that nothing is about a
  message that has not arrived, that a busy task has one (`InHand`), and who set a flag
  a turn may find (`FlagKnown`). Most steps only keep tokens (`StepKeeps`); the overwritten
  stash, a turn that ends and `Crash` are the ones that use some up, each with its own lemma.

`ReceiptLogProofs`: `LogHoldsAlways`, `LogImplementsAtLeastOnce`.

* A batch is folded per participant, chat and kind; `CollapseCovers` shows that
  no receipt of it is left without one that reaches as far (a least member of
  the negated positions, from well-foundedness of the naturals).
* `CoverInv`: what a worker holds is covered by a watermark or by a receipt it
  has still to apply; watermarks only grow, so at the XACK the batch is covered.
* `RowInv`: a receipt that moved a watermark lies below it and moves it no more,
  so before its row is written exactly one batch can have it, and a batch
  publishes only what is written. Without a crash or failure it is never dropped.
* The refinement follows from `CoverInv` and from `CoveredStays`: `EnqueueReceipt` is
  `Add` (a receipt that is already covered counts as handled from the start),
  `ApplyReceipt` is `Handle`, which may cover entries other workers hold, `AckBatch` is
  `Retire`, all else stutters. It says more than `AckedIsCovered`: what was covered
  when it was acknowledged stays so. No run lists it, since `LogHolds` has its parts;
  TLC finds it true of `receipt_log`'s instance too.

`ScheduledMessagesProofs`: `RefireNeedsFaultHolds`, `StatusHoldsAlways`,
`TerminalStopsFiringHolds`.

* The row lock is what everything stands on: `LocksHold` says that whoever is between
  `lock` and `commit` holds it, and that the row is pending until then. So an XADD is
  made on a pending row, and a final row gets none (`StepFiresPending`), whatever
  stale ids workers act on.
* `FiresHold` counts: while a row is pending and nobody is past its XADD, each
  XADD so far is one that a failure or crash undid. `OutcomesHold` says that
  whoever is about to commit "sent" has put the message on the stream.

`ChatServicesProofs`, receipts:

* `TicksHoldAlways`, of which `NoPrematureTickHolds` and
  `ExactWithoutOverlapHolds` are parts, and `WatermarkForwardHolds`. They stand on
  `CursorInv`, what one transaction may know of another: values are in their
  ranges, the steps of a transaction relate to its user and message, row locks
  have one holder, uncommitted writes belong to whoever holds the lock, ids that
  were minted differ.
* `TickInv` adds that a committed cursor, a cursor a transaction has written,
  and a minimum it has read and not yet written are all reached by everybody in
  the audience. A minimum read before others commit is worth what it was when
  it was read, since watermarks only go forward; the theorem says so of rows
  that commit in the order of their ids, and while no id was acknowledged before it
  was written, as the property does.
* `ExactInv` follows the one transaction that is under way while others are not:
  what it read is what is there, and its last write leaves the cursor at the least
  watermark.

`ChatServicesProofs`, media:

* `MediaHoldsAlways`. `CountInv` counts every message that refers to the file,
  shown, in the trash or counted and not yet committed, and not those a purge
  has wiped: a purge that still has to give back reference or quota has one more
  than that to give. `KeepInv` says that a purge past its last reference is
  alone with the file. The counters are bounded by the messages ever counted.

`ChatServicesProofs`, groups and pairs: `ChatsHoldAlways`.

* `GroupIsHeld` speaks of groups at rest; `OwnerStays` of all states: there is an
  owner nobody is about to take away (`Secure`), or the one request under way is
  an owner's leave that will hand over, or the first row is still to come.
  `EmptyIsSeen`: a group nobody is in has a request that will look.
* `PairHolds` and `StayHolds`: a candidate that lost is empty, one that won holds the
  pair until it is undone. The attempt to prove `PairIsOne` showed that its part
  about what a call returns held in the runs only because both people were users
  there: with a stranger, a call can return the pair of a chat that is undone a
  moment later. The property now says so, and the run has both cases.

`ChatServicesProofs`, tables: `TablesHoldAlways`. `RowsHold` and `SpanHolds` say where the
rows of a half-moved period are and that the copy and what is left are all of them;
`AheadHolds`, that the periods in advance are there while no migration was cut short
or refused its partitions.

`ChatServicesProofs`, history: `HistoryHoldsAlways`. Rows come in the order of their
ids and are dated no earlier (`OrderHolds`), so what a reader is owed and has not been
shown lies before its cursor (`PageHolds`). A page is the first n of the rows below a
bound; that these exist, are n, and come before all others are facts about the order
of the naturals (`LastExists`, `FirstsAreFirst`).

`ChatServicesProofs`, lists and profiles: `ViewsHoldAlways`. `ReaderHolds` is `PageHolds`
for a list that is reordered while it is read; `SwitchHolds` and `ShownHolds` follow
what was committed and not yet broadcast, `PhotoHolds` which request may still remove
the object the row names.

`ChatServicesProofs`, search: `SearchHoldsAlways`.

* `StreamInv`: while no stream ran on past its key, a stream that runs has its key, so
  the next request is refused; a key without a stream was left by one that failed.
* `EmbedInv`: the list and the hands of the tasks (what is popped and not asked, what
  has a vector, what goes back) hold each text once and share none, and the attempts
  an item carries are the failed tries of its text. That the tries are exact is what
  makes a drop have its cause; that the hands are disjoint is needed before one can
  count. `TaskStep` does this once for every step that moves texts between one task's
  hands and the list, and each action is shown to be such a step. The pieces of a chunk
  are nested (`HalvesOK`), so the piece asked is always a front part of what is left.
* `_bump_or_drop` keeps some items of a list in their order. `NthRanks` shows, by the
  cardinality of initial parts, that each kept item comes out exactly once.

`LiveProofs`: `RoutesHoldAlways`, the gateway.

* `RegistryInv`: `ServedIsRegistered` is not inductive, as a deregistration under way
  could hit a chat that has just got a subscriber. `RemovalIsSeen` says that it is of a
  chat without subscribers or the overtaking was noted; `TasksWait` says that a
  connection's task has a call to Redis open only while it joins or leaves, so that
  its SADD is not lost from sight when another connection of the chat goes.
* `GapIsKnown` is inductive by itself. What is to be shown is that a frame appended to
  a bounded queue or taken from it keeps or hands over the chats it names
  (`NamesAppend`, `NamesTail`), and that a report that finds no room is noted.
* Presence takes part with its types.

`PlatformServicesProofs`, ids: `IdsHoldAlways`. `IdsInv` says that the last state of a
generator covers every id it minted in its life, and that an id another thread is
about to swap in is made later than all of them as long as the word it loaded is
still there; ids of different machines differ by their machine id, those of one
machine by timestamp and sequence unless it restarted.

`PlatformServicesProofs`, limits: `LimitsHoldAlways`.

* `SlotsHold`: a connection that is open has a slot in the sorted set, or somebody has
  it on a list of those to be told to go. The rest is about sequences: taking members
  out of a sequence without repetition (`RemoveAtShape`, `FirstLeaves`, `SlotLeaves`).
* `HitsHold`: the n callers that saw the least counts saw at least n, as each INCR sees
  one more than any before it; so no more callers saw at most the limit than the limit.
  `TtlHolds` names, for a counter without TTL, the caller that is about to set it.
* `SlidesHold`: whatever moment one looks back to, the sorted set has a hit for every
  caller the script let through since, unless two chose one member.

`PlatformServicesProofs`, tools: `ToolsHoldAlways`. `OwedLiesAhead`: what a fetch owes and
has not returned lies after its cursor. `ConfirmIsCounted`: a confirmation, in the row or
in the one open turn, is worth a fetch not yet made. `FilesAreOwn`: no two commits or
documents name a file, unless they are in `shares`. `QuotaIsKept` counts the
documents against the commit between its count and its insert. For `AgentTools`,
`CopiesAge` says that a turn whose copy is as old as the last change has the
restrictions of the row, and that a place was refused no more often than changes came
before its turn; `OnlyAgedTurnsCross` and `RefusalsAreFew` follow since each tool checks,
on its copy, what the database checks on the row. `QuestionStands`: after a question the
state is `clarify` until a turn goes on in another, from which the router's own case
distinction does not ask again. `CopyIsBuilt`: row and copy have a standing entry of a
chat only if it was vetted, so that writing either back keeps it so.

`PlatformServicesProofs`, tasks: `TasksHoldAlways`, `OneGoalPerChatHolds`. The row is one
value that sessions copy, change and write back, so what holds of the row must hold of the
copy of whoever is about to write it: `BoardsKeep` states replies, goals, notices and
entries of every such board, and each lapse takes away just the parts it can break.

`PlatformServicesProofs`, triggers: `TriggersHoldAlways`. `WriterKnows`, `EditKnows` and
`MindMatches` say what an evaluation, or a turn, knows of the row at each of its steps:
who holds the row lock has read the row. `AllRest`: while no renewal of the cache was
lost, whatever a message may be matched with (`Rows`: the row, the row to be, the cached
copy and the copies still to be cached) has nothing for a hushed message. Counting fires against `max_fires` needs
finitely many messages.

`PlatformServicesProofs`, accounts: `AccountsHoldAlways`.

* `LogsHold`: the log in a user's row is what is left of all their renames when the
  first ones, which have left the window, are dropped; the window is the last
  entries of the log (`LastOnes`), a rename keeps those (`LogGrows`), and so there are
  no more renames in a window than the log may have. `RowIsFresh`: a rename that no
  other of its user raced goes by the row as it is.
* `AsksLast`: a hold counts from the day its rename asked, not from its write; whoever
  let go earlier of the handle a rename will let go of asked before that rename did, so
  the hold that is written last is the one that lasts longest.
* `HoldsHold`: a handle that was let go is held for as long as the grace period of
  any release of it lasts, or whoever has it, or its hold, is excused. The attempt
  showed that `HandleHeld` had been true only of the run's two renames: with three
  names and five renames the second of two overlapping renames of a user writes its
  hold over that of another user, who was excused nowhere. The property now says so.
* `OneOfALine`, `LineIsKept`: a line of refresh tokens is one token that is valid, or
  one that is taken out and not yet exchanged.

Only model-checked:

* Liveness: fairness and ENABLED are out of the prover's reach.

Every invariant a run checks is stated by a theorem. Nothing is proved by induction over data, and no module that is proved about declares a
recursive operator. Each inductive invariant was checked by TLC on the run's instance
before it was proved, some on larger ones: with three messages and two chats two
properties of `AgentTriggers` failed that hold with two messages in one chat.
`FiresAreAccounted` and `QuietIsKept` were wrong where an evaluation reads the cache after
a write that was rolled back or passed by an older fill; they now except `misled` and
`strayed`, and section 6 lists the gap. `NothingForgotten` held in `agent_faults`, which has
one fault, and failed with two; a message that is skipped was excused too narrowly as well.
`lost` now says so: `HoldsPair` is also a busy task whose entry another task claimed, and
`SkipEntry` gives up what a turn may have left to the skipped message.

## 6. What the models refute

Two claims of the repository's own text, each with a run:

* `receipt_lost`. `receipt_log.py:173-174` calls re-running keys that succeeded
  "harmless". Watermarks commit one by one and the log rows at the end, so
  after a failure in between the redelivered receipt moves nothing and its log
  row and event are never written.
* `agent_instruction`. `invoke_worker.py:257-259` keeps an instruction
  unacknowledged so that it is not lost, but a schedule or knowledge turn that
  finds the flag (`invoke_turn_steps.py:115`) ends as superseded and is acknowledged.

Others met while modelling. The models have them; the properties name them as
the exception under which they hold, or say what is still true:

Messages and media

* ADR 0031:40 says a crash or retry "can't double-send". A crash between the row
  commit and the SET of the key (`send.py:130`) leaves the key at "pending"; the
  redelivered entry waits two seconds, takes over and writes a second row, the
  take-over of `DuplicateNeedsTakeOver`.
* The key lives for a day (`send.py:33`): a retry after that writes a second row without a
  take-over, `lapsed`.
* Two processes on one shard can write one chat's messages out of queue order
  (`send_queue.py:36` says order is preserved on a single consumer).
* A redelivered entry whose message went out is reported failed if its sender
  has left meanwhile (`send.py:76`).
* A scheduled message moved to a later time may fire at the old one: reconcile
  re-adds a fire time it read earlier and `_fire_one` does not look at
  `scheduled_for`.
* The give-up path writes FAILED without a lock, over a row that was cancelled
  or sent meanwhile (`scheduled_worker.py:132`); its blob reference is released by
  cancel only, although ADR 0031:96-100 has it on failure and fire too.
* Two calls can pass the limit of pending scheduled messages together
  (`scheduled_service.py:174`).
* Two participants who acknowledge together leave the chat cursor behind until
  somebody writes a watermark again (`crud_participant.py:271`); a message that
  commits between a joiner's read of `last_message_id` and its row counts as read
  by everyone while the joiner has it unread (`crud_participant.py:34`).
* Nothing checks that an acknowledged id is a message (`receipts.py:40-57`,
  `apply.py:55-63`, `crud_participant.py:314-325`): after an acknowledgement of an id that
  is still to be written, the user's own send takes the watermark back
  (`messaging/crud.py:177`), and the message may be born with its tick (`foretold`).
* A "played" of a later text message in the same batch hides a real listen
  (`apply.py:58`).
* A purge that overlaps a restore, a second purge or a deduplicated send may
  remove an object a message shows (`messaging/crud.py:546`, `edit_delete.py:104`);
  a file known under one kind and asked for under another gets a ticket whose
  key has no object.
* A row committed longer after its id was minted than the skew cannot be found
  by its id, and pages after the first skip it; `create_message` sets
  `last_message_id` whatever its order. Editing a deleted message, or deleting
  one after a system message, leaves deleted text in the preview, which the
  comment of `soft_delete_message` sets out to prevent.
* A page of the chat list that ends on a pinned chat skips chats: the cursor
  ignores pins, although `crud_participant.py:91` says it keeps pagination
  "stable across the boundary".
* A profile broadcast carries what its own session read, so overlapping changes
  may leave viewers with the older one.
* A search stream left at its first yield keeps its lock until it expires, and a
  stream that outlived its lock deletes the next one's (`search/service.py:249`;
  the docstring says it is always released).
* Texts to embed: a process that dies between pop and push-back loses them, and so does
  a failure of Redis in between (`vector_search/service.py:75`, `:87`), or one that
  loses the answer to the pop; a
  failed UPDATE fails the later chunks of its session too; a refused API key is
  taken for a refused text.
* A migration creates partitions for both parents (`manage_partitions.py:349`, `:188-197`).
  If the other parent's DEFAULT holds rows of a wanted period, Postgres refuses, and
  the script ends with DEFAULT detached: rows without a partition are refused, and those
  in DEFAULT cannot be read, until it is attached again (`stranded`).
* An interrupted migration leaves a partition that was created beside its
  parent, which the next migration does not attach; inserts are refused between
  DETACH and CREATE; rows written between its count and the detach are reported
  as a mismatch (`manage_partitions.py:283-337`).

People and chats

* A group can stay without an owner: the heir leaves before the hand-over, the
  last owner's role is lowered, somebody is added while the last member leaves.
  A system message for a chat that is gone raises before those removed are told.
* A call that dies after the pair was reserved leaves a private chat with fewer
  than two members for good; leaving a private chat is not refused, and the next
  call returns the chat without adding anybody.
* Two renames of one user at once lose the hold of the handle in between, and an
  entry of the quota; the second releases the handle it read, which is no longer its
  user's, and by the upsert (`users/crud.py:170-182`) takes over the hold another
  user may have on it since. A check out of date passes over a hold, and so does a
  first login whose drawn handles were all taken (`users/service.py:80-82`). A hold counts
  from the start of its transaction (`func.now()`), a little less than the grace period.
* A crash between removing the old refresh token and storing the new one ends
  the session (`auth/service.py:301`).
* The refund of a rate limit reduces the next window's counter if its own has
  expired in between (its docstring calls this a no-op).
* A limiter of the gateway lets a call through when Redis does not answer
  (`ratelimit.rs:132-135`), and a hit of a script whose answer was lost stays.
* A kick that Redis refuses, or that is published while the gateway's subscriber
  reconnects, is dropped (`state.rs:260-267`, `fanin.rs:25-33`): the connection stays
  open beside the cap and is counted nowhere; so with a gateway that dies
  between eviction and kick.
* Two processes with the default machine id (`app_settings.py:14`: random) may share
  one; a process that restarts while its clock is behind mints its old ids again.

Gateway

* A SREM that follows the SADD of a newer connection deregisters a chat that is
  served, and the heartbeat does not put it back (`routing.rs:9-10`, "self-heals");
  the registration of a dead process does not expire while another refreshes
  the key.
* A gap report dropped on a full queue is lost (`ws.rs:416-424`; ADR 0060:74-76 has
  the flag survive).
* A message between bootstrap's reads and its subscription is not delivered
  (`ws.rs:217`, `:231`); a late Unsubscribe follows the Subscribe of the user's next
  connection (`ws.rs:302`).

Agents

* In a chat with somebody else, an answer that is cut off (MAX_TOKENS), or is text that no
  tool sends, ends the turn in silence (`invoke_turn_loop.py:165-168`, `invoke_turn_steps.py:246-259`): nobody is
  answered, nobody is told, and the entry is acknowledged.
* For a busy pair an error of `arm_debounce` is swallowed (`invoke_debounce.py:83`) and the
  entry acknowledged (`invoke_worker.py:276`): the message waits for the next one. The
  stash may run out before it is polled (`invoke_debounce.py:74`), after which the pair is
  skipped.
* A turn that merged a newer message leaves that message's debounce entry armed,
  so a second reply follows, or the merged turn gives way (ADR 0075:45 asks for
  "never two replies").
* An entry that is reclaimed while its first task is still at it is worked on twice.
  The second task finds the pair busy, sets the flag and dies before it has put the
  message back; the first one's turn gives way to that flag and acknowledges
  the entry: the message is gone (`invoke_worker.py:255-277`).
* The verdict of the judge is on the newest message of a burst and disposes of
  the others; a turn's round trips can run out without an answer or notice; a turn
  of more than 60 s is reclaimed by its own process and supersedes itself.
* A "once" schedule entry is flushed but not committed as fired
  (`invoke_poll_loops.py:54`), so the next write of the schedule makes it due
  again; fired entries are never removed and count towards the limit, after which
  tasks close without notice.
* Sessions that overlap write old triggers back: a closed task opens again, two
  closers give two notices (`goal_tasks.py:238-240` has them never do so), a
  notice enters the due set and a poll drops it before its entry is committed.
* Disabling an agent drops its due members, and enabling it does not restore them
  (`agents/router.py:118`).
* `PATCH /agents/me`, `set_trigger`, `update_own_triggers` and a reset write `on_schedule` as a
  whole: a notice they leave out goes unfired, although its task is closed. The renewal of
  the due members after it may fail, or fail half-way.
* The trigger worker redelivers after a crash, although `trigger_worker.py:4-7` is
  "at-most-once on purpose".
* The model can count and fetch a chat in one turn, and two turns with rows of
  their own fetch twice for one confirmation, which the tool's comment has
  "structurally impossible".
* A turn's write of the triggers is told to the cache before its commit
  (`agents/crud.py`); rolled back, it stays there until the cache is filled
  again, and a rule that the row never had wakes the agent: `strayed`. A request renews
  the cache after its commit, and an error is only logged (`cache.py:36-56`): a rule that
  was deleted goes on waking the agent, as the engine's second look
  (`trigger_engine.py:476-487`) is at `is_enabled` and the pauses only.
* ADR 0066 has the database refuse a new private contact as the tools do. What
  sets `app.current_agent_id` (`creation.py:66`) is `SET LOCAL`, and `create_chat`,
  `create_pair` and `add_participant_to_chat` each commit, so the trigger on the
  participants never sees it: a turn with an old copy opens the chat (`overstep`).
  `resolve_user` and `resume_paused_chat` open one without a check, and
  `send_message` before it looks at `can_send_messages`.
* What the triggers of the database raise is no IntegrityError: nothing rolls the
  session back, the commit after the tool call fails, and with it the turn, whose
  entry is delivered again (`tools/dispatch.py:119`). The redirect of the judge is
  gated by nothing else.
* `_check_require_expiry` does not look at a patch of a flag that leaves `enabled`
  out, so a one-off turn may take the limits from one (`execution.py:412`):
  `StandingIsBuilt` is of the entries of chats. A turn that writes its copy of the
  triggers back undoes what the owner changed meanwhile.
* For a PDF nobody looks whether its object was uploaded (`knowledge_service.py:93-96`):
  a document without its file, `unread`.
* Two commits of one uploaded object share it, and the removal of one document
  takes the file of the other; two commits pass the quota together.

## 7. Not modelled

Within modelled components: sizes, wording, presigned URLs, metrics, caches
that only repeat a row (the receipt details view). In `AgentInvoke`: Redis
errors that `mark_superseded`, `is_superseded`, `release_turn_lock` and `arm_debounce_now`
swallow (they fail open), quotas, tools and prompts; a
turn that outlasts the claim idle time is a fault and thus happens at most
`MaxFaults` times. In `ReceiptCursors`: the "played" kind, which follows the
other two through the same statements. In `MediaBlobs`: several senders
(references are per blob, quota per user). In `ScheduledMessages`: editing the
text only, which has a reschedule's guard. In `AgentBoard`: recurring entries,
whose next time is a computation on dates, entries of `on_schedule` that are not of tasks,
and `on_ephemeral_task` in a tool's patch. In `AgentTriggers`: two edits of owner or turns
at once (an edit's renewal may still be on its way when the next begins), enabling by the
builder's tool, and turns of a disabled agent; a deletion takes the chat's entry and
`on_unknown_sender` together. In the gateway: client events that
are only passed on. In `Sessions`: one-time codes. In search: parsing of queries,
ranking and snippets. In `TimePartitions`: moving cold partitions to other
storage and the reports, which change no row. In `AgentTools`: what reads and
searches return, the cap on continued messages, and pauses, which are in
`AgentTriggers`; that a goal task narrows a turn's tools is in `AgentBoard`.

Whole components:

* Prompts, personas, the judges' verdicts and the model client: what is right or
  wrong there is a text, which a model checker does not judge; a verdict or a
  classification is any of its outcomes in `AgentTools`.
* User settings and receipts privacy: single-row writes; the privacy rule is an
  input of `ReceiptLog` and `GatewayPresence`.
* Start-up, REST wiring, configuration, seed data: no state of their own. The
  settings that matter are constants of the modules.

Postgres, Redis and the object store are modelled by how the code uses them: a
Redis command, a Lua script and a commit are atomic, READ COMMITTED is as
described in `ReceiptCursors`.

## 8. Limits and next steps

The modules are composed where the code's components race with each other:
the consumers with their group, an agent's turn with its engine and poll loop,
the gateway with its publishers, the services inside one run by turns. A
composition of the send pipeline with the receipt worker and the gateway (one
message, from client to tick) would be the next in size; each end of it is a
row or a stream entry that both modules describe.

The invariants are proved; what only TLC checks is liveness: `EveryEntryServed`, `EveryEntrySettles`,
`PendingIsSettled`, `EveryReceiptCounts`, `EveryMessageSettled`, `AddedIsServed`,
`WatcherConverges` and `TaskCloses`. Their arguments would be leads-to chains
over the same invariants, for which the provers at hand have no rule.

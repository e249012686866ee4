# AI-Shifu: specifications and proofs

TLA+ specifications of the parts of AI-Shifu whose correctness depends on the
order in which threads, processes and transactions act, model-checked with TLC
and, for the properties that matter most, proved with TLAPS for every value of
the constants. Paths below are relative to the repository; `service/` stands for
`src/src/api/flaskr/service/`.

    tlc -workers 2 -config TurnBridgeSafety.cfg MCTurnBridge
    tlc -workers 2 -config Services.cfg MCServices
    tlc -workers 2 -config Payments.cfg MCPayments
    tlapm TurnBridgeProofs.tla

`PROJECT.json` maps every definition to the lines it models and lists the runs,
the mutants (one plausible bug per property, which the run must detect), the
findings, the hazards and the theorems.

| Module | Models | Runs | Proofs |
| --- | --- | --- | --- |
| `TurnSlots` | what the turn bridge promises a worker about its turns | as a property of `bridge_safety` | implemented by `TurnBridge` |
| `TurnBridge` | `service/learn/agent/bridge.py` | `bridge_safety`, `streams` | `TurnBridgeProofs` |
| `RunGate` | who may run a lesson, `service/learn/runscript_v2.py` | `gate` | `RunProofs` |
| `RunStream` | what an admitted run streams, same file | `streams` | `RunProofs` |
| `CreditWallet` | settlement, reservations and expiry, `service/billing` | `wallet`, `reservation_once` | `CreditWalletProofs` |
| `TurnLog` | what a browser may rely on when it reports turns | as a property of `live_safety` | implemented by `LiveTurns` |
| `LiveTurns` | turns of live voice sessions, `service/learn/live_follow_up_*.py` | `live_safety`, `streams` | `LiveTurnsProofs` |
| `LiveAdmission` | who may mint a live session, `service/learn/live_follow_up_admission.py` | `services` | `ServiceProofs` |
| `AgentLesson` | conversation and rows of a 2.0 lesson, `service/learn/agent` | `services`, `agent_cleared` | `AgentLessonProofs` |
| `CourseOrder` | course orders and their payment attempts, `service/order/funs.py` | `payments`, `order_final`, `order_payment_wins` | `CourseOrderProofs` |
| `SubscriptionRenewal` | a subscription, its renewal orders and events, `service/billing/{renewal, subscriptions}.py` | `payments`, `renewal_paid` | `RenewalProofs` |
| `DeviceGrant` | device authorization, `service/user/device_auth.py` | `services` | `ServiceProofs` |
| `RpmGate` | the rate queue of speech calls, `service/tts/rpm_gate.py` | `services` | `ServiceProofs` |

`MC<module>` extends a module for TLC and holds only symmetry sets, constraints and
constant functions. Three of them do so for several modules, which share nothing:
`MCServices` for `AgentLesson`, `LiveAdmission`, `DeviceGrant` and `RpmGate`,
`MCPayments` for `CourseOrder` and `SubscriptionRenewal`, and `MCStreams` for `RunStream`
and the liveness of `TurnBridge` and `LiveTurns`, of which it takes instances. A
behaviour of theirs is one of a single component, chosen at the start by `part`, while
the others rest in an initial state, so that TLC explores the sum of their states and
not the product; in `MCStreams` a part at rest owes no fairness. A
component may have several parts, each with a constraint of its own: `admission` and
`contest`, `orders` and `callback`, `renewal` and `decision`. Requests, workers, threads
and deciders are the same interchangeable values. So that modules can be extended side
by side, the names of the smaller ones tell where they belong (`GrantInit`, `GateNext`,
`AdmissionSpec`, `streamVars`).

## 1. Inventory

AI-Shifu is a Flask back end (gunicorn with threads or gevent), Celery workers
beside it, MySQL for the record, Redis for locks, counters and caches, and a
Next.js client. A lesson is *run*: the learner posts an input, the server
streams events until the lesson needs the next input.

### Components that are modelled

**Agent turn bridge** (`service/learn/agent/bridge.py`). State: a per-process
count of turns in flight; per turn a queue, a stop flag, a cancel hook and an
error field shared by two threads. Operations: `iter_turn` admits a turn or
raises `TurnCapacityError`, spawns a producer thread that owns an event loop and
pumps the engine's asynchronous generator into the queue, and polls the queue
from the request thread; leaving the iterator stops, cancels and drains.
Called by the agent run path inside the lesson event generator; calls the
engine, and through it the model gateway, which blocks in synchronous reads.
Hard: two threads touch every field, the producer can be cancelled at any
await, also while it is unwinding, may be out of reach, and may die before it is set
up. Correct when: slots are exact, a slot is free only after the engine is unwound, no event is lost at
the end, the queue is bounded, closing returns, stopped turns end.

**Lesson run admission** (`run_script` in `service/learn/runscript_v2.py`).
State: the Redis lock of a learner's lesson with a time to live, a Redis
semaphore of parallel asks, the running marker `get_run_status` reads. A run has
a request thread and a producer thread that may outlive it. Hard: the keys
expire under a run, calls to Redis fail and the failure is swallowed, workers die,
the release order of lock and marker. Correct when: one lesson run owns the lock,
the semaphore is exact, lock and marker stand for a run still to clean up, asks leave the lesson alone, leaving frees the lesson.

**Lesson event stream** (`run_script`, `run_script_inner`, `_lesson_events`).
State: the queue between the producer and the request thread, the stop event,
the producer's database session, how much of the run is committed. Interacts
with the engines (1.0 commits per run and emits no terminal event, 2.0 withholds
its DONE until its rows are committed), with the browser, which leaves at will,
and with the connection pool. Hard: a departure at any yield, two layers that
both release the connection, two places that may close the stream. Correct when:
DONE is sent once and last, what was told as done is delivered and durable,
readiness events never overtake their commit, a connection cut short is never
pooled, failure is told, an abandoned engine stops.

**Credit wallet** (`service/billing`: `settlement.py`, `operation_credits.py`,
`wallets.py`). State: the wallet row with its version, the buckets, the ledger
with a unique key. Operations: settle a usage record, reserve credits for an
operation and capture or release them, expire buckets. Callers: Celery tasks,
replays, backfills, request threads, scans. Hard: REPEATABLE READ snapshots
older than the locks meant to order the transactions, absolute values written
back, two idempotency keys for one hold. Correct when: no credit appears or is
lost, the ledger explains the buckets, the wallet agrees with them, spent credits
stay spent.

**Live follow-up sessions** (`service/learn/live_follow_up_*.py`). A learner talks
to a voice model directly; the browser reports each turn to the server. State:
per session a binding in Redis with the index of the last committed turn and a
claim on the next one, a retirement receipt, a MySQL named lock per progress
record, and rows for blocks, elements and usage without a unique key. Operations:
report a turn, finalize a session with a batch of turns, end it. Called by the
browser, which repeats, reorders and abandons requests; a session that replaces
another shares its record. Hard: every request crosses Redis, the lock's
connection, and two transactions, and may stop between any two; answers of Redis
are lost; keys expire under a request that waits. Correct when: an acknowledged
turn is stored, turns are stored in order and once, a retired session still
vouches for its turns, a dead writer blocks nobody.

**Live follow-up admission** (`live_follow_up_admission.py`, `create_session` in
`live_follow_up_routes.py`). A credential for the voice model cannot be revoked,
so the server counts what may be out. State, all in Redis: a record per browser
request, the ownership head of a learner's live session, ledgers of leases, the
active sessions, a recovery marker. Operations: reserve a mint, complete or fail
it, take over, replace, retire; one Lua script each. Hard: members of the ledgers
expire at different clocks, the provider may mint without answering, a worker may
die, Redis may restart without its data. Correct when: quotas bound the credentials that
may be out, and a repeated request mints once.

**Agent session and rewind** (`service/learn/agent/{run_agent, lesson_record,
rewind, session_store, lesson_entry}.py`, `reset_learn_record`). State: one stored
conversation per learner and lesson, progress records, one generated block per
turn, the next-lesson control. Operations: run turns, regenerate an answer or
answer differently at an earlier turn, reset the lesson. A turn takes a minute and
holds no database lock while it is taught. Hard: engine failures, departures at any
yield, resets that overtake a turn, a second run after the lesson lock was lost, the
lesson before and asks, which make or start records without that lock.
Correct when: conversation and rows are the same turns, every live turn can be
taken back to, no turn stays open, a reset is final.

**Course orders** (`service/order/funs.py`, `use_coupon_code`). State: the order row,
a snapshot per payment attempt, the providers' view of it, a lifecycle lock in
Redis. Operations: create, refresh or time out an order, charge it, apply a coupon,
close an attempt before repricing, callbacks and synchronisation for Stripe, Ping++,
Alipay and WeChat Pay, refund, revoke, import. Hard: providers answer late, twice or
never; some paths take the lock and some do not; a session keeps a status it read
before; a cancellation may meet a payment.
Correct when: an order is charged once, entered only when paid, and its end is
final.

**Subscriptions and renewal** (`service/billing`: `renewal.py`, `subscriptions.py`,
`renewal_event_transitions.py`, `tasks.py`, `webhooks.py`, `checkout.py`). State: the
subscription row with its cycle, one order per cycle to come, and a table of events
(RENEWAL, EXPIRE, CANCEL_EFFECTIVE) that say what happens to it and when. Operations: a
beat dispatches due events to Celery workers, which claim them by compare and swap, run
them and end them; claims that look dead are recovered; webhooks and synchronisations
settle payments; the user cancels and resumes. Interacts with the wallet, which a
settlement credits and an expiry debits. Hard: a claim is recovered under a slow worker,
a payment comes before, at or after the boundary of its cycle and is told more than once,
some transactions lock the subscription and some only read it. Correct when: a cycle is
billed once, the end of the cycle that is on is never lost, a paid cycle is not expired.

**Device authorization** (`service/user/device_auth.py`). State: a request in Redis
and its lock of five seconds. Operations: approve or deny in a browser, poll from
the command line. Hard: the lock may expire under its holder. Correct when: one poll
gets the token and the confirmed decision counts.

**Rate queue of speech calls** (`service/tts/rpm_gate.py`). State: the time of the next
free slot in Redis with a lock, and the same in each process for when Redis fails.
Hard: lock and key have different lives, a call may fall back after it wrote. Correct
when: the slots given out keep the provider's rate.

### Components that are not modelled, or not yet

| Component | State and operations | Why not, or when |
| --- | --- | --- |
| Rest of the live sessions: heartbeats, traces, the browser's outbox (`liveFollowUpTurnWriter.ts`) | pending turns and their retries | the outbox appears as the repetitions `LiveTurns` allows; the others carry no state other parts read |
| Rest of text to speech, `service/tts`, `api/tts` | segment order, providers | providers are network I/O |
| Rest of billing: Stripe and Ping++ subscriptions, preorders, upgrades and downgrades, refunds, order deadlines, retry and past-due events, top-ups and bonuses | the same rows, more event types | next (section 2): each adds transitions to `SubscriptionRenewal` |
| Rest of users, `service/user` | sessions, phone codes, passwords | create-read-update with rate limits |
| Legacy lesson engine, `service/learn/context_v2.py`, `run/` | interpretation of lesson scripts | content; its effect on shared machinery is in `RunStream` |
| Listen elements, `service/learn/listen_element*.py` | per-run transformation of events into rows | sequential; its messages and commits are in `RunStream` |
| Ask providers and follow-up context, `service/learn/ask_provider_adapters`, `handle_input_ask.py` | none of their own | network I/O and prompts |
| Course memory, `service/learn/memory` | extracted facts | later at the earliest |
| Metering, `service/metering` | appends usage records | `CreditWallet` starts from them |
| Promotions, referral, `service/promo`, `referral` | coupons and campaigns, reward queue | a coupon appears in `CourseOrder` as what it does to one order; the reward queue is a candidate |
| Profiles, onboarding, authoring, resources, `service/profile*`, `shifu`, `resource` | create-read-update of trees and variables | no concurrency protocol found in the survey |
| Dashboards, analytics, feedback, configuration, risk checks, LLM wrappers | queries and thin wrappers | nothing to get wrong across steps |
| External API clients, `flaskr/api` | none | network I/O |
| Shared infrastructure, `flaskr/common`, `dao`, `framework`, `util` | cache provider with an in-memory fallback, Celery, units of work | `unit_of_work` is the commit of `CreditWallet`; the fallback is a listed hazard |
| Routes and commands, web client, translations, packaging | none on the server | argument checks, presentation, data |

The hazards, the places where this code can go wrong in ways a test would hardly
reach, are in `PROJECT.json`, each with the properties that cover it or the
reason why none does.

## 2. Plan

Done, in this order: `TurnSlots` and `TurnBridge` (the only hand-written thread
protocol, on the path of every 2.0 lesson), `RunGate`, `RunStream`,
`CreditWallet`, `TurnLog` and `LiveTurns`, then `LiveAdmission`, `AgentLesson`,
`CourseOrder`, `DeviceGrant`, `RpmGate` and `SubscriptionRenewal`; the proofs of
`TurnBridge`, `RunGate`, `CreditWallet`, `LiveTurns`, `AgentLesson`, `DeviceGrant`,
`RpmGate`, `CourseOrder`, `RunStream`, `LiveAdmission` and `SubscriptionRenewal`.

Left:

1. The rest of billing: preorders with their credits, upgrades and downgrades, Stripe's
   own cycle, deadlines of pending orders; on top of it the wallet's grants and top-ups,
   and a usage per capture attempt.
2. The referral queue, and the fallback of the cache provider under `RunGate`.
3. Proofs: every safety property of the passing runs is the statement of a theorem; what to
   prove next comes with what is modelled next.

## 3. The modules and the code

### TurnSlots and TurnBridge

`TurnBridge` has one action per access to what the request thread and the
producer thread share, so that TLC and the proofs see every interleaving.
`inFlight` is `_InFlight.count`; `events`, `stop`, `cancelSet` and `error` are
the fields of `TurnStream`; `cancelled` is a cancellation pending on the
producer's loop; `engine` is the asynchronous generator. `consumer` and
`producer` are program counters:

* request thread: `Admit`/`Refuse` (`_InFlight.admit`), `Spawn`/`SpawnFails`
  (`_spawn` and the `except` around it), `TakeEvent`, `TakeDone`, `FindEmpty`,
  `CheckRunning`, `CheckEmpty`, `Sleep` (the loop of `_iter_turn`: the thread is
  tested for life *before* the queue is tested again), `Resume` and `Leave` (the
  caller), `SetStop`, `RequestCancel`, `CallCancel`, `Drain`, `EndDrain` (the
  `finally` block);
* producer thread: `MakeEvents`/`MakeEventsFails`, or `LoopFails`, when
  `asyncio.new_event_loop()` raises: it stands before the `try`, so the thread ends in
  the state `lost`, with no error recorded, no `_DONE` put and its slot never given
  back; the caller sees a dead thread and an empty queue. Then `PublishCancel`, `RunLoop` (the
  stop flag is read again after the hook is published), `Emit`, `PutEvent`,
  `SeeStop`, `CancelBackOff` (`pump`), `EngineEnds`, `Block`/`Unblock` (a
  synchronous provider read), `CancelEngine`, `Unwind`/`CancelUnwind`
  (`agen.aclose()`), `Teardown` (`shutdown_asyncgens`), `ReleaseSlot`, `PutDone`,
  `Exit`.

Left out: heartbeat contents, the drain's clock (it may end at any moment), and a
generator that is created but never started: its slot would leak, but both
callers start it at once.

`TurnSlots` is the abstract specification: take a slot, be refused only when all
are taken or lost, give it back once, or lose it (`Lose`). The refinement maps `held` to
the turns that are admitted or whose thread has not released, `lost` to those whose
thread died in `LoopFails`, `refused` and `over` likewise.

### RunGate

`lock`, `slots` and `marker` are the three Redis keys; `thread` follows
`run_script` from admission through `StartProducer`, `Mark`, streaming with
`Refresh`, `EndStream` and the `finally` block (`Join`, `ReleaseLock`,
`ClearMarker`, or `ReleaseSlot`); `producer` is the thread `Join` may give up on.
The faults: Redis does not answer, with the call done or not (`LoseAcquire`, `LoseUnlock`
for the lesson lock, `FailOpen`, `LoseRelease` for the semaphore, `LoseClear` for the
marker, whose delete the fallback cache may also do in the memory of the process
instead); a thread that cannot start (`StartFails`); a worker that dies (`WorkerDies`); a
time to live of `RUN_SCRIPT_TIMEOUT_SECONDS` that passes (`LockExpires`, `SlotsExpire`,
`MarkerExpires`). `expired`, `drifted` and `stranded` are history variables: which locks
ran out, whether the semaphore was disturbed, and which lesson runs a fault kept from
cleaning up. `KeysHaveARun` excuses only the last: an expiry or an overlap of two runs is
no excuse for a key without a run. What is streamed is `RunStream`; the two meet at `EndStream` (the
stream reached its end or the client left) and `ProducerEnds`.

The lock is taken by six attempts; the model keeps the attempt that succeeds and
the last one that fails.

### RunStream

One admitted (or refused) run. `gen` is the engine's generator: an optional
rewind (`reload`), the steps, the commit, the readiness events, the end. The
producer thread is `PassStopTest`, `Put`, `Break`, `Close`, its exceptions
`EngineFails` and `BudgetExceeded`; a 2.0 run without a script becomes a 1.0 run
(`FallBack`). The request thread is `Take`, `Idle`, `EnterFinally`, `JoinProducer`; the
client's choices at each yield are `Accept`, `AcceptBeat`, `AcceptError`,
`Finish`, `Leave`, `LeaveAtEnd`. `durable` counts the committed messages;
`conn` is the fate of the session, `dirty` whether its last exchange may have
been cut short; `late` counts what the engine was still asked for after the
client left. Messages are kinds with their position; content is left out, as are
a `BaseException` in the producer, a failure of the element adapter outside the
generator, and heartbeats in `sent`.

### CreditWallet

One creator. A transaction is two steps, because at REPEATABLE READ its plain
reads come from the snapshot of its first one: `BeginSettle`, `BeginCapture`,
`BeginRelease` and `BeginExpire` take the snapshot, `Settle`, `SettleFree`,
`Capture`, `Release` and `Expire` commit. What a transaction reads under lock, or
tests in the WHERE of an update, is read from the current rows instead:
`VersionHolds` (`persist_credit_wallet_snapshot`), `Unchanged`
(`_expire_bucket_available_credits_if_unchanged`), the hold's buckets in
`EndHold`. `Reserve` locks before it reads and is one step. `KeyFree` is the unique
key of the ledger. `EndWithoutEffect` is every end that leaves no trace: already
settled, too few credits, a conflict, a duplicate key, a deadlock victim, a lost
worker.

Abstractions: a debit may be split over the buckets in any way (`Takes`), the
code uses one order; the Redis lock of a settlement is absent, because a
settlement that cannot get it goes on; which buckets a usage may use depends on
the time it was recorded, any subset of the ended ones is excluded. Left out:
grants, top-ups, freezing of credit packs, the subscription gate, adjustments,
account cancellation, the fallback of `_iter_hold_buckets` for holds without
metadata.

### TurnLog and LiveTurns

`binding`, `receipt` are the keys in Redis, `lock` the named lock of the progress
record, `placed` and `top` the positions of a turn's ask/answer pair and the
highest one in the record, `usage` the number of usage rows. `task[w]` is the
request a worker handles, with a program counter that follows the routes:

* arrival: `ReportTurn`, `Finalize`, `End`; `Load` or the receipt (`TurnAway`,
  `LoadLost`); `Acquire` or `Busy`;
* under the lock: `Replay` of a committed turn, `Reload`, `ReloadFails`, `Skip`;
  `Reserve` or `ReserveRejected` (the reservation script with `recover_pending`);
  `ReadHistory`, `Insert` (one transaction in two steps, because nothing but the
  lock orders its reads and writes), `NoHistory`; `ReadUsage`, `RecordUsage`;
  `Commit` or `CommitRejected`; `Release` after anything that went wrong;
* retirement: `LoadLatest`, `Retire`, `Consume` or `ConsumeRejected`; `Leave`
  releases the lock and answers.

Faults come between any two: `Crash` of a worker, `LoseLock` (the lock's connection
goes, the worker writes on), `WriteFails`, and for every call to Redis the loss of
its answer, after or before the script ran (`ReserveLost`, `CommitLost`,
`ReleaseLost`, `RetireLost`, `ConsumeLost`, `LoadLost`, `ReadLost`). `Deadline`,
`BindingExpires` and `ReceiptExpires` are time. `acked`, `consumed`, `dropped` and
`faults` are history variables and the bound.

Abstractions: the two blocks and two elements of a turn, written in one
transaction, are one position; whether a turn has a transcript belongs to the
turn (`Silent`), not to the report; a claim is its worker, because a worker has one
request at a time and a dead one never comes back; extending the retention of a
binding is part of `Load` and `Reserve`. Left out: sessions minted without an
admission, heartbeats, traces, eviction of keys by Redis, lesson runs that write
to the same progress record without the lock.

`TurnLog` is the abstract specification: store a turn behind those that precede
it, acknowledge turns that are stored. The refinement maps `stored` to the turns
with a usage row and, unless silent, a pair.

### LiveAdmission

`Create` is the script's reservation: a call `c` stands for the session, revision
and lease it makes; `MayOwn` decides fresh sessions, replacements and takeovers,
`Room` the quotas, `InTime` whether a browser's request is young enough to be one
whose record cannot have been forgotten. `MintMade`, `MintFails`, `MintTimesOut`,
`Complete`, `CompleteFails`, `Fail`, `FailIgnored` and `MinterDies` are `create_session`
around it; `Retire` ends a session; `Restart` is Redis coming back with or without
its data and `Warm` the recovery guard, which keeps admission shut for a credential's
life. `Tick` prunes what has expired. `Exposed` is what somebody may hold: a
credential that was disclosed, is on its way, or was never shown to be unmade.

`Room` always applies the global limit. The code writes `rotation_enabled and
global_credential_limit or 24`: the limit is one number in either case, and `GlobalLimit`
is any.

Left out, because they only refuse more: rate windows, the ledger per worker, the key
kept for workers of an older version; and conflicts of identity and origin.

### AgentLesson

`record`, `block`, `session`, `controls` are rows; a conversation is the sequence of
turns that added messages. One request is `Start` (with the plan of a rewind, if
any), `Load`/`LoadUnusable`/`LoadEnds` (an unlocked read, truncated by `Restore`),
`FindRecord`, `Open` (record and block are committed before the turn is taught),
`BeginSave`/`Commit` (`_persist`, which locks the record; `Discard` if it was reset
meanwhile, `InsertLost` if another first save inserted the session row),
`Progress`, `OfferNext`, then `GoOn` or `Finish`; `Abandon` is every failure or
departure, `Die` the loss of the worker. `Reset` is `reset_learn_record`. `InsertLost`
ends in an error because the re-read after the duplicate key still sees the
transaction's snapshot. The block of a turn that failed is retired in a transaction whose
own failure is swallowed (`Retires`); `orphaned` remembers the turns whose block nobody
retired: that failed, the worker died, or a reset had overtaken the turn.

A record is `fresh` while it was not started. Others want a record of this lesson too and
do not take part in its lock: `Visit` is the read of the lesson before it, in
`apply_outline_progression`, or of an ask in the 1.0 engine's `_get_current_attend`;
`Announce` makes the record they did not find, and `HandOver` starts the one that was not
started. Like `Open` they write by key what they had read without a lock, so a record may
be made beside a live one, and one that was reset may be opened again; `crossed` remembers
either. `ResetIsFinal` allows that one step and no other; that it happens is the finding
of `agent_cleared`.

What the engine teaches is an outcome: it asks, runs out of content, finishes, or
adds nothing (`same`: it asked its question again, or failed with an error event, after
which the turn is saved all the same, empty). Left out:
previews and debug sessions, memory writes, voice and elements, content revisions.
Whether a second run may start beside the first is `RunGate`'s matter; here it may
(`MaxOverlap`), and `crossed` remembers that one did, too, or that a turn was saved over
a session it had not loaded. `MaxVisited` bounds when others ask for a record.

### CourseOrder

`order` is the row, `att` an attempt with its snapshot and the provider's view
(`remote`), `holder` the lifecycle lock. `InitRead`, then `InitCreate`, `InitReplace`
or `InitRefresh`, are `init_buy_record`, whose plain read may be old when it writes
(`raced`). `Charge` and `Coupon` take the lock; `CloseClaim`, `Cancel`, `Settle`,
`Restore` are `cancel_pending_payment_for_repricing` with its two transactions around
the provider call; `Issue`, `Apply`, `Undo` what follows. `StripeEvent`, `StripeSync`,
`NativeEvent`, `SyncRead`/`SyncApply`, `PingxxRead`/`PingxxWrite`,
`RefundAsk`/`RefundWrite`, `Revoke`, `Import` are what is learned of payments and done
about them. `Pay`, `Lapse`, `Expire` and `Crash` are the learner, the provider, time
and the loss of a worker. `overlooked` are orders with a payment that was booked on
the snapshot only.

SQLAlchemy does not refresh an object that a session already holds when a later query
locks its row, unless it is told to (`populate_existing`, as `billing/renewal.py:140` does).
So a charge, which read the order unpaid in `_resume_or_close_pending_charge`, claims it on
that status (`StatusRead`), and on the pending snapshots of its first read (`ToClose`,
REPEATABLE READ), and writes over what is there; a Stripe webhook bound to an integration
does the same with the order it read first (`WebhookRead`/`WebhookWrite`). The check of a
coupon returns without keeping its order, and the first reads of the synchronisations are
discarded, so those read the row anew. `CanCommit` lets webhooks, syncs and refunds commit beside a worker that holds
the lifecycle lock but not the row yet, because they release that lock before their unit
of work commits (`funs.py:1769`, `:2346`, `:2518`, `:2606`). `overtaken` are the orders that
were claimed or completed on a status they no longer had.

Left out: the lock of `init_buy_record` (it goes on without it), orders past the bound,
a database failure inside the recovery, a lifecycle lease that ends under its holder,
pricing rules, notifications, lists and exports.

### SubscriptionRenewal

`sub` is the row (status, cycle, `cancel_at_period_end`, and the order its cycle was paid
by), `bill[o]` a renewal order with its grant and its trade at the provider, `event[e]`
the row of an event type and time. `Synced` is `_sync_subscription_lifecycle_events`, with
`Upserted` and `Canceled` as its two helpers: a pending or failed event is canceled, a
claimed or finished one is left alone, whatever the writer thinks of the subscription.
`Claim`, `Open`, `Recover`, `Mine` and `Ended` are the claim protocol; `by` stands for
`attempt_count`. `Renew` is RENEWAL; `Notify` and `SettleBill` a payment, by webhook
or sync; `ExpireCycle` and `CancelEffective` the other two events; `Choose` and `Decide` the
user; `Checkout` and `PayBill` the provider. `RollBack` is the loss of a worker, of a claim or
of the wallet's version.

A transaction is its first plain read (`Snapshot`) and its commit. What it reads FOR
UPDATE or changes conditionally it sees as it is; what it read plainly and writes back, it
writes by primary key in the columns it changed (`Written`). `outdated` remembers that such
a write went over a subscription that had changed. The wallet appears as its version:
`fresh` says that no other writer moved it since the snapshot.

RENEWAL goes on to ask the provider when the order it finds has its trade, and drops such
an order when the subscription is obsolete. Here no order of the cycle is there before its
event is done (`RenewalMeetsNoOrder`, proved): only a preorder, a referral or a Stripe
subscription brings one, so those steps are not modelled.

`SettleBill` has the three outcomes of `_grant_paid_order_credits`: a payment of an older cycle
is left for review, one for a cycle to come is reserved, one for the cycle that is on
starts it. A late payment starts its cycle when it comes (`From`).

`EndIsScheduled` speaks of cycles that have not ended and leaves out states after an
outdated write, which is the subject of `PaidCycleNotExpired`. It also says nothing of a
subscription whose end has passed: a paid order that is told again revives one that
expired, with the events of its old end already done, and no event is left to expire it
again; the providers rarely repeat a notification after a whole cycle, and the period's
end still guards the credits.

Left out: providers other than Alipay and WeChat Pay, preorders, upgrades, downgrades,
refunds, deadlines and replaced trades, RETRY and RECONCILE events, referral and
compensation renewals, bonuses, and the lock per creator that synchronisations and refunds
share, which neither webhooks nor boundary events take. Two paid orders of one cycle, told
apart by the time they were paid, do not arise here: `CycleBilledOnce`.

### DeviceGrant

Each call is `Poll` or `Decide`, `Acquire` (or `GiveUp`), `Look`, `Reload`, `Store`, or
`MakeToken` and `Drop`, then `Release`, which raises when the lease was lost, so the caller
is told of an error; `CallDies` is the loss of its process. The lease and the request may
end at any moment (`LeaseEnds`, `SessionEnds`): time, and the guards of the polling rate,
are left out. `late` remembers that a decision was stored after its lease had ended.

### RpmGate

A call is `Arrive`, `Enter` or `LockTimesOut`, `Read`, `Write`; `FallBack` is an error of
Redis at any of them, after the write reached it or before. `TimePasses` ends keys and
leases, `RedisForgets` is the loss of Redis' data. `upset` remembers that a call wrote
without its lease or that Redis forgot. The processes' own queues are one, `local`: their
slots are not part of the property.

## 4. Runs

| Run | Instance | States | Shows |
| --- | --- | --- | --- |
| `bridge_safety` | 2 turns, 1 slot, buffer 1, 2 events, thread mode, symmetric turns | 689,000 | slots held or lost but never leaked otherwise, refusal only when full, engine unwound before its slot is free, complete end, refinement of `TurnSlots` |
| `gate` | 3 of 2 lesson runs and 2 asks, one stranded at most (`ThreeCome`), 1 ask slot, faults on | 334,000 | lock, semaphore, keys with a run; leaving frees the lesson |
| `streams` | one run of either engine, 4 messages; 1 turn, gevent pool, buffer 1, 2 events; 1 session, 2 workers, 2 turns, 2 faults, a browser that repeats | 258,000 | shape, durability, connection, failure, stop, closing; closing a turn returns, a stopped turn ends unless inside a read; turns land |
| `wallet` | 2 workers, buckets of 3 and 1 credits, a usage of 2, a free one, an operation of 2 | 591,000 | conservation, ledger, wallet row |
| `live_safety` | 2 sessions, 2 workers, 2 turns (one silent), 1 fault; one session, or two without a fault (`OneOrBrief`) | 775,000 | acknowledged turns stored in order and once, also beside the session that replaces theirs, receipts, refinement of `TurnLog` |
| `services` | parts agent, admission, contest, grant, rate, see below | 1,708,000 | conversation and rows, quotas and one mint per request, one collector and a binding decision, spaced slots |
| `payments` | parts orders, callback, renewal, decision | 1,648,000 | one charge per order, nothing for free, ends kept; one order per cycle and a scheduled end |
| `order_final` | the part `orders` of `payments` | stops at the finding | section 6 |
| `renewal_paid` | the part `renewal` of `payments` | stops at the finding | section 6 |
| `reservation_once` | the instance of `wallet` | stops at the finding | section 6 |
| `agent_cleared` | the part `agent` of `services` | stops at the finding | section 6 |
| `order_payment_wins` | the part `callback` of `payments` | stops at the finding | section 6 |

Why the bounds are enough. *Bridge*: turns share only the count and the thread
pool, so two turns and one slot show every contention; a buffer of one with two
events makes the producer back off and lets an event be in hand, queued and taken
at once. *Gate*: a second lesson run is what an expiry lets in, and a second ask
what a full semaphore refuses; lesson runs and asks share only the faults, so
three of the four show every pair beside one of the other kind, and one stranded run can
leave every key there is behind. *Streams*: four messages hold a rewind with its
readiness event, a step and a terminal event; one turn and one session show what their own
threads and workers owe them. *Wallet*: a usage of two may need
both buckets, the operation competes for what is left; two workers replay one
usage or end one hold side by side, and while they do a third transaction fits
between the snapshot and the commit of one of them. `MaxVersion` bounds only the
replays of the free usage, which would raise the version for ever. *Live
turns*: sessions share only the lock and the positions, so order, claims and
receipts show in one session and the sharing in two of one turn each, which is what `OneOrBrief` keeps. Two workers
are the writer that was interrupted and the one that takes over; a second turn,
silent, is the successor that must not overtake, and shows a turn without a pair.
One fault anywhere interrupts a request. Two sessions with a fault pass as well
(5.9 million states), but take too long for every day. *Services*: the agent's lesson
(1,036,000 states) has two requests, three turns and one reset, and the second request
may start beside the first turn, or ask for a record while the lesson has two at most: a rewind needs a turn to take back and one after it,
a reset or a second run something to overtake. Orders (1,087,000): one order, two
workers, two attempts over Stripe and a native channel, two prices, since charging
twice takes a second attempt and repricing a second price; the callbacks (287,000) add
Ping++ with a crash and orders that change under a writer (`overtaken`), which `TwoChannels`
leaves to them. Renewal (138,000) and
decision (136,000): cycles of two ticks, two workers, one recovered claim; two renewals,
since a second order, a late payment and a second boundary show there, and one renewal
beside two decisions of the user. Tasks are dispatched a tick ahead. The clock stands
while a transaction is open, because transactions are short beside the days it counts:
that a claim outlives its time is `Recover`, at any moment. A larger instance (three
orders, faults and decisions) was followed for 12 million states and showed nothing else.
Admission (181,000): one user with three requests in turn against
limits of two and one; contest (121,000): two users who repeat their requests, three
calls. Clocks of three and four ticks let a deadline, a credential and a record end
one after the other. Grant (136,000): three calls are two polls and a decision or two
decisions and a poll. Rate (234,000): three calls, an interval of two ticks, a wait as
long, and lives that can end inside a call.

`CHECK_DEADLOCK FALSE` everywhere: requests are finite and the systems come to
rest.

Each property is paired with a mutant in `PROJECT.json`, a plausible bug in a
definition that models code (a dropped guard, an off-by-one, a swapped order)
under which the same run finds the property violated.

### Fairness

* `TurnBridge`: weak fairness of each thread's own steps. The operating system
  schedules both threads and neither waits for a lock the other keeps; `Spawn` is
  fair because a pool thread past its release only has to queue `_DONE` and exit.
  The caller (`Resume`, `Leave`), the engine (`Emit`, `EngineEnds`, `Block`) and the
  provider (`Unblock`) owe nothing. `EndDrain` is fair because the drain has a
  deadline.
* `RunGate`: weak fairness of the `finally` block and of `LockExpires`: the lock is a Redis
  key with a time to live that nothing extends, so one whose run died or whose release
  went unanswered ends. Nothing is assumed of producers, clients and the other keys.
* `RunStream`: weak fairness of the producer's own steps and of the request
  thread between yields. Engine and client owe nothing, so `StreamCloses` allows
  a client that stops taking events.
* `LiveTurns`: weak fairness of each worker's steps (`Handle`), and strong fairness of
  the browser's reports, since a worker is free only now and then: `TurnsLand` is
  about a browser that goes on reporting a turn until it is acknowledged and does
  not end the session, which is what a retry in the browser does for as long as
  the page lives. Faults are bounded; time may end the session, which the property
  allows.
* `CreditWallet` has no liveness property: whether a replay or a scan comes is up
  to schedules outside the code modelled. Nor have the parts of `services` and `payments`: a learner
  may leave, a provider never answer, and nothing in that code waits on another step.

## 5. Proofs

All theorems hold for every value of the constants that meets the named
assumptions of the module.

**`TurnBridgeProofs`** (assumes `TurnsFinite`, `LimitsAssumption`). `SlotAccounting`
is not inductive by itself: a step may release a slot only if a count is there to
release, and that a producer exists only for a consumer that spawned it. `IInv`
adds `TypeOK` and the agreement of the two program counters; the slots of lost turns
are part of the count. Cardinality lemmas
about adding and removing one holder turn each action's change of `inFlight` into
the change of `Cardinality(Holders)`. From it follow `SlotsExact`,
`SpawnFindsRoom` and `BridgeImplementsSlots`: the initial state maps to the
initial state, and every action is a take, a refusal, a give-back, a loss (`LoopFails`
alone) or a stutter of `TurnSlots`. `EngineUnwound` and `BackPressure` have inductive invariants of
their own. So has `EndComplete`: while the caller listens, the events emitted are
those yielded, those queued and the one in hand, numbered through (`Flow`); `_DONE` is
the last of the queue once the thread is past its put, so that a caller that reads
`_DONE` has been given all, and one that sees the thread dead finds a queue that is
not empty. A caller that did not leave keeps that after it stops reading (`Stayed`).

**`RunProofs`** (assumes `RequestsAssumption`). Of the admission, `LockKept`: the owner of
the lock is an admitted run; a run that lost its lock is in `expired`. `KeysOwned`: the
owner of the lock is admitted and the writer of the marker between its first mark and its
clearing, or a fault stranded it; every exit that is answered clears the marker whoever
wrote it, so the run that clears last leaves none.
`SlotsExact`: while `drifted` is false each admission and release moves the count
and the set of admitted asks together. `AskKeepsApart` is an action property and
follows from the actions and the disjointness of lesson runs and asks.

Of the stream, for any number of messages under either engine. The properties speak of
what the client holds, but what makes them true happens on the producer's side, several
hand-overs before; the invariant `StreamIInv` follows every message all the way.
`EngineSound`: what was yielded is numbered, and a readiness event or the DONE is yielded
after the commit of all before it. `Flow(n, t)`: of the messages yielded, `n` were put and
`t` taken; the queue holds those between, then the error of a run that failed, then the
mark (`Queued`), and the client was sent, in order, the ones taken that it is to see
(`Sent`, `Complete`). `n` and `t` are existential: the code has no such counters.
`ProducerSound` and `StopSound` tie the fate of the connection to how the producer ended,
and allow a stopped engine one more message, which is not passed on. `EndSound` says what
was told by the time the stream ends. From these follow all six invariants of the run.

**`CreditWalletProofs`** (assumes `CreditAssumption`). `CreditsConserved` needs to know
what an old snapshot is worth: the inductive invariant says that a snapshot is
never newer than the wallet row and that one *whose version is still current
shows the current buckets*. A settlement or an expiry commits only if the version
holds, hence its absolute values were computed from the current rows, and the
move conserves. Captures, releases and reservations move relative amounts and
raise the version, which is what keeps the clause true. `SpentCreditsStaySpent` and
`NoBucketOverdrawn` follow from the same invariant.

The accounts are a second invariant on top of it. `Accounts` says that the columns of the
wallet row are the sums of its buckets' and that the ledger's rows of each kind sum up to
what left a bucket or is held in it; for that it needs that a hold belongs to one
operation and takes what the operation costs (`HoldsSound`) and that a bucket marked
exhausted is empty (`ExhaustedEmpty`). A settlement and an expiry write the wallet row
from their snapshot, so `SnapshotCurrent` also says that a snapshot with the current
version shows the current wallet row, and that an operation it saw ended is ended now; the
latter is why a hold is captured or released once. What a fold adds up to is said without
induction over data: a function on the subsets of a finite set is `Additive` if taking out
any element subtracts what the element counts for. One exists for every finite set, and
two of them agree, each by a least counterexample; the folds of the model compute it.
From there each transaction is a lemma on how far a column, a bucket and the rows of a
kind move (`AccountsStep`), and `LedgerExplains`, `WalletMatches` and `WalletTyped` follow.

**`LiveTurnsProofs`** (assumes `LiveAssumption`). Everything that can lead to an
acknowledgement (the cursor of a binding, a receipt, the cursor a worker loaded,
the turns of its batch it has passed, its program counter) vouches for turns; the
invariant `IInv` says that it vouches for stored ones only, and that the usage row
of a turn is written last. It needs no lock: a writer whose lock was lost can at
worst write a turn twice, because its claim no longer matches. Rows only grow
(`Grows`), so what is sound stays sound while other workers move (`SoundGrows`),
and each action is left with its own worker's task. `TurnsImplementLog`: each step
stores one turn behind its predecessors (`HandlerStores`), acknowledges stored
turns (`HandlerAcks`), or is a stutter.

Two more invariants need the lock, and only they are about states in which no lock was
lost. `OneWriter`: whoever is past `Acquire` and not yet past its release owns it, so what a
worker read of the rows before it writes is still so (`ReadIsCurrent`). `HistoryInv` adds
that a pair is stored behind the turns before its own and counted by `top`; `LessonReadsBack`
follows. `RetirementInv` is about cursors: that of a session in use has reached whatever the
session ever vouched for (`SessionReached`, with or without the lock), a request has nothing
in hand that its session has not reached, and a retirement under the lock holds the latest
cursor of a session nobody else retires (`RetiresLatest`), which is why the receipt it leaves
covers every acknowledged turn (`RetirementCovers`).

**`AgentLessonProofs`** (assumes `AgentAssumption`). The lesson lock is not assumed: any
number of requests run at once. What holds them apart is the row lock a saving
request has on a record that is live, which a reset needs too. `Sound` says that a
turn that was opened keeps its block and the block its record, that a saving request
holds a live record, that the writer of the session is a turn of a
live record, and that a block still open belongs to a request or is `orphaned`. `Keeps` and `StepOf` reduce each action to what it does to the
rows and to its own request. From it follow `SessionOfLiveAttempt` and
`NoTurnLeftOpen`, and `ResetIsFinal` as an action property: the one step that writes a
record by key without its lock is that of a request which had read it as not started.

`Together` is a second invariant on top of it, for a lesson in which no runs crossed.
`OnlyOne` says that one request is at work at most, so what it planned, loaded and opened
(`PlanKept`, `DocKept`, `TurnKept`) can only be overtaken by a reset, which takes everything
away. `Counted` is the heart: the checkpoint of a turn that stands splits the conversation
into what was said before it and what was not, whether or not the turn itself said anything.
A rewind truncates by that count and retires by the order of the rows; `Counted` makes these
the same cut, which is why the commit (`CommitKept`) leaves `MsgsKept` and `Recalled` true.
`SessionTellsTheRows` and `CheckpointPrecedesTurn` follow.

**`CourseOrderProofs`** (assumes `OrderAssumption`). The argument is about the attempts
that are *alive*, open or paid at their provider. `Charges` says that an order has one
at most, none when it is `INIT`, and that the one of an order in `TO_BE_PAID` or
`REPRICING` still counts as pending on the order's channel; which is why the worker
that claims the pending attempts claims all there is. `Holds` carries this over the
provider calls: from the claim on, whatever is alive is among the attempts the worker
found or still has to cancel, and past that nothing is. It needs the lifecycle lock (`Remembers`): nobody else moves the order
from one open state to another. `Step` says what any action may do to
other workers, attempts and orders, and `StepKeeps` that this keeps the invariant, so
each action is left with its own order and worker; only `Issue`, which makes an
attempt, is argued by itself. `ChargedOnce` and `NothingForFree` follow from the
invariant, and `CompletedStays` as an action property, with what a worker remembers:
it overwrites an order it had seen open, and a completion without a check is that of
an attempt that is not Stripe's. The exceptions `overlooked`, `raced` and `overtaken` are
those of the properties.

**`ServiceProofs`** is about three small components. *Device grants* (`GrantAssumption`): the lease of the lock may end, so
holding it proves nothing; but a call that lost it is told of an error, and only the
owner is told of success. The invariant speaks of the owner and of those already
told: `DecidedForGood` and `NoOtherDecides` hold always, `InTime` (the
request stands as decided, and is gone once collected) until a decision is stored by
a call whose lease had ended. From it follow `OneCollector` and `DecisionBinds`.

*The rate queue* (`GateAssumption`): a key that expired looks like one that
was never written, so the invariant says that the lives are long enough: the time told
is over before its key is (`KeyOutlivesTime`), a slot in hand is near
(`SlotInReach`), and a slot handed out is followed by the next one told or a whole
interval in the past (`Taken`). Then the slot of the lock's owner comes after all others
(`OwnerIsLater`), whence `SlotsSpaced`.

*Live admission* (`AdmissionAssumption`: a request may be sent again for less time than a
credential lives, and a credential lives less long than the record of its request is kept).
Both properties are about what Redis may have forgotten. `Remembered`: a mint is on record
under its request, or its request is too old to be sent again, or Redis lost its data and
the guard keeps admission shut for that long; so no request is given a second mint
(`RequestMintsOnce`). `Leased`: a credential that somebody may hold is counted, or admission
is shut until it has expired. `Limits` then holds the *credentials*, not the ledger's entries,
to the three limits: a reservation checks the ledger, which covers all of them whenever it
is open (`CredentialsLimited`). The limit of active learners needs that whoever owns a
session is in the ledger of active ones as long as the session lives (`HeadSound`).

**`RenewalProofs`** (assumes `RenewalAssumption`). `CycleBilledOnce` is far from inductive:
a renewal looks for an order of the cycle in a snapshot that may be older than the order.
What saves it is the claim. `Chain` says that orders follow each other (one is for the next
cycle, one started the cycle that is on, all others started earlier ones), that the order
of a cycle was made by the event before it, which is over since the same commit
(`MadeOnce`), and that a renewal event that is not over is one of the next cycle
(`Timely`). So a worker that still owns its event knows, whatever its snapshot shows, that the
cycle has no order yet (`NotOverNotBilled`, whence `RenewalMeetsNoOrder`). `Reads` says what
an overlapping transaction may hold: a cycle that had its successor unless it is the current
one, orders that were there and payments that stay; and its own cycle is current if the
wallet did not move, which is what keeps an expiry from activating an order twice. `Ends`:
an event that ends a cycle is over only when its time has come, whence `EndInSight`. Every
plain write of the subscription keeps its cycle (`PlainWrite`), every activation moves it on to
the one order of the next (`ChainActivates`); the lemmas about `Canceled`, `Upserted`,
`Synced` and `Written` say what those do to any table of events and any row.

`BackPressure` of the bridge, `AskKeepsApart` of the gate, and the type invariants of the
modules that have proofs, are proved and no run repeats them.

Model-checked only:

* liveness (`CloseReturns`, `StoppedTurnEnds`, `LeavingFreesTheLesson`,
  `StreamCloses`, `TurnsLand`): fairness and ENABLED are out of the prover's reach.

## 6. What the runs found

* `order_final`: `init_buy_record` reprices an order that waits for payment without
  closing its open attempt (`funs.py:472`). When the learner pays that attempt, the
  callback books it on the snapshot but not on the order, whose price no longer matches.
  The next charge finds no pending snapshot, opens the order again and issues a second
  attempt. The plan kept with the code
  (`docs/exec-plans/active/payment-attempt-lifecycle.md`) promises callbacks for the
  current amount "without leaving a paid learner stuck in an unpaid state".
* `renewal_paid`: `_execute_expire_subscription` loads the subscription with a plain read
  (`renewal.py:513`). A payment that comes in after the boundary, and commits after that
  read, locks the row, starts the next cycle and credits it. The worker, on its older
  snapshot, sees neither the new cycle nor the paid order; its claim is still good, a
  conflict on the wallet only makes it skip a bucket, and it writes `expired` over the
  subscription and cancels the new cycle's events. The user has paid and holds the
  credits of an expired subscription. `subscriptions.py:1623` says of the lock the payment
  takes that it serves to "Serialize activation against upgrades and cycle-boundary
  workers", which do not take it. With that write left out the property holds in both
  parts.
* `reservation_once`: capture and release load the hold before they lock the
  creator's row, which fixes their snapshot; each then looks for the other's ledger
  row in that snapshot, and their keys differ. Opened side by side both succeed,
  and the bucket's reserved credits are taken twice. Nothing in the repository
  calls the two side by side yet: they are exported through `billing/api.py`.
* `agent_cleared`: `_open_turn` reads the record of the lesson without a lock and, if it was
  not started, sets it in progress by its key (`run_agent.py:172`; the hand-over of the
  lesson before does so at `lesson_record.py:290`). If in between another run opened the
  record and saved a turn, and the learner reset the lesson, that write makes the reset
  attempt live again: its turns are shown, and the model has no conversation. The reset
  locks the rows for that very reason: "Taking the lock makes one of them go first, either
  way" (`learn_funcs.py:812`).
* `order_payment_wins`: a charge reads the order unpaid, a Ping++ callback completes it, and
  the claim for repricing, although it now locks the row, decides on the status its session
  has kept (`funs.py:695`, `:1063`): the completed order is set to `REPRICING` or `INIT`, and
  may be charged again. The plan kept with the code says the opposite: "The callback must
  fulfill that valid payment; the repricing path then observes the terminal order and
  aborts its price change". `ChargedOnce` and `CompletedStays` hold but for such orders.

One more was met without a run of its own. `produce()` creates its event loop before the
`try` whose `finally` gives the slot back (`bridge.py:229`). If that raises, as it does when
the process is out of file descriptors, the turn ends without an event or an error and the
worker takes one turn less until it is restarted, although `bridge.py:100` says of the
counter that it "Counts the turns this worker process is running". `LoopFails` is that step,
and `SlotAccounting` and `TurnSlots` count the slot as lost.

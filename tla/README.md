# Verification of the trading core

This directory holds TLA+ models of the trading system in `src/`, the TLC
configurations that check them on small instances, and TLAPS proofs of the
properties that matter most for every value of the parameters.

## The system

A 64-bit Core (FastAPI, `trading_app/`, `trading/`) decides what to trade. A
32-bit gateway (`apps/kiwoom_gateway.py`) is the only process that talks to the
Kiwoom ActiveX control. Core queues commands, the gateway polls for them,
executes them and posts events back; the events change Core's orders, its view
of the broker and its subscriptions.

| component | state | operations | how it interacts | hard behaviour |
| --- | --- | --- | --- | --- |
| Core command channel (`trading/broker/command_queue.py`, `command_persistence.py`, `gateway_state.py`) | memory queue, SQLite command rows, dedupe ledger | enqueue, dispatch, ack, fail, cancel, expire, prune, recover | order paths enqueue, REST polls dispatch, events ack and fail, sweeps ack | two copies of each record, writes that fail half-way, restarts, late events |
| Gateway process (`apps/kiwoom_gateway.py`) | local command queue, event queue, the command being executed | poll, post, drain, execute, report | polls and posts to Core, calls Kiwoom | two threads, posts that are lost or arrive late, restarts |
| Command sweeps (`theme_engine/backfill.py`, `runtime_adapters.py`) | none of their own | close commands Core gave up on | read the records, then acknowledge them | the records move between the read and the acknowledgement |
| Gateway event queue (`gateway_client.py`) | bounded deque | put, drain, coalesce, drop | Qt callbacks put, the network thread drains | overflow, reordering |
| Order event log and consumer (`storage/event_log.py`, `gateway_event_consumer.py`) | log rows with leases, receipts, inbox | append, claim, apply, receipt, retry, dead letter, recover | events come from posts, a live and a replay thread apply them to orders | two workers, transactions of one event cut off by failures and restarts |
| Managed orders (`order_manager.py`, `order_reconcile.py`, `unfilled_cancel.py`, `kill_switch.py`) | intents, orders, positions, kill switch | create, queue, reconcile an ack or an execution, cancel, give up | enqueue commands, consume events | rows saved from stale copies, reordered and repeated reports, cancel racing a fill |
| Broker reconciliation (`broker_reconcile.py`) | runs, snapshots, discrepancies, the current run | start, request, apply an answer, compare, decide | requests through the channel, answers through acks | late, partial and repeated answers, reconnects and restarts |
| Realtime subscriptions (`realtime.py`, `runtime_adapters.py`, `opening_runtime.py`) | active and pending codes, screens, generation | select, register, release, ack, mark stale, repair | commands to the gateway, events back | late acknowledgements, lost sessions, limits, retained dedupe keys |
| Runtime supervisor (`runtime_supervisor.py`) | running flag, loop task, cycle future, lock | start, stop, restart, run a cycle | runs the pipelines on one executor thread | cycles that outlive their waiter, overlapping requests |
| Everything else (scoring, dashboards, reports, UI, Kiwoom COM client, tools) | | | | no protocol state |

What makes them correct. Channel: an order reaches the gateway at most once
whatever fails; two orders with one dedupe key are kept apart for the retention
period; a cancelled order stays cancelled; retries are bounded; nothing stays
open for ever. Events: order is kept where it matters, a fill counts once,
readiness means that everything was applied, the backlog drains. Orders: fills
and positions are those of the broker, no fill is lost in silence, no order
waits for ever. Reconciliation: ready means a complete answer of the broker.
Subscriptions: what counts as active is registered, protected codes are served,
unwanted ones go. Supervisor: cycles never overlap and go on.

## Modules

* `OrderDelivery` - the promise of the channel to the order paths: an accepted
  order is sent at most once, a withdrawn one never, and two orders with one
  key at least `Retention` apart. No queue, no database, no messages.
* `GatewayCommands` - Core's side of the channel. `mem` is
  `CommandQueue._records`, `store` the table `gateway_commands`, `ledger` the
  table `gateway_command_dedupe_keys`. Each action is one critical section of
  `GatewayStateStore` (an RLock), with the SQLite half allowed to raise:
  `DispatchLost` stores any prefix of the batch, and the `ok` parameters drop
  single writes. `Restart` forgets memory and runs `recover_from_store`. Gateway
  events come in any order for any command ever delivered. `SweepCommand` is the
  acknowledgement of a sweep, which listed the active records earlier and without
  the lock: it finds the command in any state.
* `GatewayLink` - extends `GatewayCommands` with the gateway's two threads, its
  queues and the transport. Posts are applied, rejected after the memory half,
  or time out, in which case Core may still apply them later; the rest of a
  drained batch is lost with a post that raises.
* `GatewayEventQueue` - the queue between the Kiwoom callbacks and the network
  thread: `Emit` is `put` with coalescing and overflow, `Drain` the priority
  drain, `PostEvent` and `PostFails` the network loop.
* `OrderEventLog` - from a post to the closed log row. `row` is
  `gateway_event_log`, `receipts` the receipt table, `inbox` the work of the live
  thread, `batch` the rows the replay worker has claimed. The two workers take
  the same steps (claim, look for a receipt, apply, save the receipt, finish), each a
  transaction; `Restart` may come between any two. `exposed` remembers the fills
  whose window between applying and the receipt was cut off or shared. `stubs` are
  the events whose row was stored as FAILED and without the payload, because that
  could not be written as JSON (`Appended`).
* `ManagedOrders` - the orders of one code. The manager's cycle, the request
  threads and the consumer load a row, compute and save the whole row, as two
  steps, because `save_managed_order` has no version check; `raced` remembers
  the rows saved from a stale copy. Rows carry the broker's order number once a
  report told it; an acknowledgement goes to the row that names its command, a
  fill to the row with its number or to the latest open order of its side
  (`Matches`). The cancels of a cycle are decided together (`DecideCancels`) and
  enqueued and saved one by one. The broker places, refuses, fills in parts and
  cancels on its own.
* `BrokerReconcile` - `BrokerReconcileOrchestrator`: `StartupReconcile`,
  `ReconnectReconcile`, `ApplySourceResult` with the comparison and verdict,
  against a broker whose quantities change while its answers are on their way.
  A request may be executed up to `max_attempts` times; `overwritten` remembers
  the sources of a run whose complete rows a partial answer replaced.
* `RealtimeSubscriptions` - `RealTimeSubscriptionManager`, the command client with
  its dedupe keys, the opening burst and the gateway's Kiwoom calls: `Cycle` is
  a whole `sync`, `CycleRaises` one in which an enqueue raises midway,
  `HandleEvent` an event handler on the strategy executor. The gateway executes
  what it polled in any order, since the rate limiter puts commands back.
  `LoseSession`, `LoseEvents` and the outcomes of `ExecuteCommand` are the faults;
  the batch of a post that failed is lost or reaches Core later (`ReceiveLate`),
  and `belated` remembers the codes that became active by such a report.
* `RuntimeSupervisor` - the supervisor on the event loop: a step is what happens
  between two awaits, `jobs` is the executor, `CycleTimesOut` the timeout of a
  waiter whose cycle goes on, `LoopFails` the exception that ends `loop_forever`
  with `running` left true.
* `MCGatewayCommands`, `MCGatewayLink`, `MCOrderEventLog` - small instances; the
  other modules are instantiated by their `.cfg` alone.
* `GatewayCommandsProofs`, `GatewayLinkProofs`, `GatewayEventQueueProofs`,
  `OrderEventLogProofs`, `ManagedOrdersProofs`, `BrokerReconcileProofs`,
  `RealtimeSubscriptionsProofs`, `RuntimeSupervisorProofs` - the inductive
  invariants, lemmas and theorems about the module of that name.

Sorting and draining are written as what they result in, not as loops: `Sorted`
and `Listing` are the set of the one sequence that is in order, `Placements` the set
of the one assignment of screens that placing code after code makes. A fold over a
sequence cannot be reasoned about by the provers; a choice from a set of one can.

How they fit together: `OrderDelivery` is what `ManagedOrders` relies on when it
queues a command, `GatewayLink` composes the channel with the gateway,
`GatewayEventQueue` is the outbox whose order `GatewayLink` leaves open,
`OrderEventLog` counts how often a report is applied and `ManagedOrders` models
what applying it does, whatever the number and order.

### Abstractions

* Channel. Payloads, timestamps other than `expires_at`, the event-history table
  and counters are left out. Time counts whole seconds, and the TTL and attempt
  limits are already clamped as `CommandRecord.create` clamps them. `SKIPPED`
  stands for all the finished statuses of the backfill guard. Insertion order
  within equal rank and second is left open. Pruning removes any subset of the
  finished rows instead of those older than a cut-off, and a sweep may give up
  on any command it may have listed, at any time. The rate limiter puts a
  command back to the end of the gateway's queue, whose order is open, so it is
  a stuttering step. A non-order command may be enqueued again under its old id
  once its row is pruned, as the REST endpoint allows; orders carry fresh ids.
* Event log. Recovering stale claims and claiming a batch are one step. The
  default configuration (log, replay, receipts, fail closed) is modelled.
* Orders. One code; the strategy may ask for any of its orders at any time, and
  an order's age is a flag that time sets.
* Reconciliation. One order and one stock; reading the projection and comparing
  with it are one step.
* Subscriptions. The runtime with a lifecycle tracker, without the rows the
  tracker keeps; a code's number is its priority; polling and executing a command
  are one step; `SetRealRemove` never fails. The burst registers once a day, which
  is its dedupe key. A lost session is followed by a heartbeat that shows it: Core
  sees `logged_in` false or another reconnect count (`runtime_supervisor.py`
  916-945), and a relogin between two heartbeats that changes neither is left out.
* Supervisor. Status, diagnostics and the shutdown of the process are left out.

## Runs

| run | instance | checks |
| --- | --- | --- |
| `orders` | two orders, one key, 5 seconds, retention 2 | `TypeOK`, `OneFreshOrderPerKey`, `CancelledOrderNotSent`, `IInv`, `ImplementsOrderDelivery` |
| `liveness` | a backfill request and a condition command, two attempts, fair | `QueuedHasAttemptLeft`, `DeliveriesBounded`, `OpenCommandsClose` |
| `link` | one order end to end | `OrderCalledOnce`, `CallsComeFromDeliveries`, `CalledOrderIsSettled`, `AckedMeansAccepted`, `LinkImplementsCore` |
| `queue` | one code, events of all kinds, a queue of three and drains of two | `TypeOK`, `InOrder`, `NothingForgotten`, `TicksGoFirst` |
| `log_apply` | two events of one fill, two workers, three attempts, a fault | `TypeOK`, `ReadyMeansApplied`, `AppliedOnceUnlessExposed` |
| `log_drain` | an event and one that is ignored, a fault, fair | `BacklogDrains` |
| `managed_fills` | a buy of two shares, a restart | `TypeOK`, `FillsAreReal`, `PositionIsHeld`, `NoSilentLoss` |
| `managed_timeout` | a buy of one share with cancels, fair | `NoSilentLoss`, `AckOrTimeout` |
| `managed_buys` | two buys of one share, cancels, unnumbered acknowledgements, a restart | `OneLiveBuy`, `BuysAreTheirOwn` |
| `reconcile` | two runs of two sources, two attempts, a change at the broker, a fault | `TypeOK`, `ReadyUnlessOverwritten`, `AnsweredIsDecided` |
| `subscriptions` | two codes for one slot, one of them protected and registered by the opening burst too, a fault, fair | `TypeOK`, `ActiveIsServedUnlessLate`, `ProtectedGetsServed`, `UnwantedGoes` |
| `supervisor` | two clients, three futures, fair | `TypeOK`, `NoOverlap`, `RunningIsAlive`, `CyclesGoOn` |

What they show. An order reaches Kiwoom at most once whatever is lost, repeated
or restarted, and Core never shows ACKED for what Kiwoom refused. Events of one kind
and code arrive in order, and a full queue gives up ticks first. Readiness is
never reported while an event that was logged whole is unapplied, and every
logged event is closed in the end. Fills and positions of buys are never
overstated; a fill is missed only with a stop of buying or when a row is
overwritten from a stale copy. A Core that stops between sending a buy and saving
that it did so does not send another, and two buys of a code do not take over each
other's reports. A run of reconciliation that makes the broker's truth ready has
compared complete answers to that run, unless a second, partial one replaced one. What
the subscription manager takes for active is registered or its end is on its way,
unless a report applied late said so. The supervisor's cycles do not overlap, and
go on unless an exception ended the loop.

Bounds. `MaxTime` stops the clock and refuses commands whose TTL reaches past
it, so every command of an instance can expire; 5 seconds with a retention of 2
let the first order of a key be sent, its row lapse, and a second one be
accepted and sent. Two orders on one key are what the ledger properties are
about. Two attempts make one retry, of a command as of a log row. `MaxWaiting`
and `MaxOutbox` bound the gateway's queues: two copies of a request, and the two
events of one execution plus one left from before. Five events through a queue
of three overflow it with and without a tick to drop, and drains of two leave
events behind. Two event ids of one fill are what receipts must tell apart; with
two workers each pair of transactions interleaves; three attempts reach the
longest delay between them, which is one tick there. Two shares give a partial
and a full fill, in both orders and twice each. `managed_buys` allows two orders
per code (`MaxPerCode = 2`): with the default of one there is no second buy and
nothing to show. A source answers up to twice per run, the default of
`max_attempts`, and two runs let an answer come in the next run; the broker
begins with one share and may change it once. Two changes of the wanted codes
want a code and drop it while the acknowledgement is on its way; the one code of
the burst and one slot for two codes make every choice a conflict. Three futures
are the running cycle, the late one and one more. `MaxFaults` and `MaxRestarts`
allow one fault: each property is about recovery from a fault at any place, and
the counterexamples below need at most one. Where events or changes are bounded
the model ends in a state without a successor, so these runs do not check for
deadlock.

Fairness. `GatewayCommands`: the clock runs, and a poll that stays possible
happens, since the network thread polls every half to one second and a poll
sweeps before it selects. `OrderEventLog`: the live thread, the replay loop and
the clock go on. `ManagedOrders`: the manager's cycle and the consumer go on and
orders age; nothing is assumed of the broker, the gateway or the request
threads. `RuntimeSupervisor`: the event loop and the thread run and jobs end; a
cycle may always time out, `status()` may always raise and need never do so.
`RealtimeSubscriptions`: cycles go on (which `CyclesGoOn` shows of a supervisor
whose loop did not fail), the gateway polls, posts and sends heartbeats on
timers, and the executor runs what it was given. No fairness is assumed of
events of the outside, sweeps, restarts, losses or retries, which may keep
getting in the way.

## What the code does not keep

Statements of documents, comments and tests that the models refute. Each is a
definition in the module named, to be checked on the instance given in place of
the run's properties.

* `NoBuyOnTop` (`ManagedOrders`, `N = 2`, `Qty = 1`, `Sides = {"BUY"}`,
  `MaxPerCode = 2`, `MaxRestarts = 0`, the rest as in `managed_buys`). The
  reconciler saves the row as FILLED and the position afterwards, in a transaction
  of its own (`order_reconcile.py:141`). A risk check in between finds neither a
  pending order nor a position and approves a second buy. With the default
  `max_daily_orders_per_code = 1` the count of the day's orders refuses it.
  `docs/live_sim_order_manager_runbook.md:101` requires no open position and no
  pending order of the code.
* `FinishedNotReopened` (`GatewayLink`, `Ids = {o1}`, `MaxTime = 3`,
  `MaxOutbox = 2`, `MaxWaiting = 2`). `CommandQueue.ack` and
  `_update_status_no_lock` set the reported status whatever the current one is,
  and the gateway does not look at `expires_at`: an order that waits there past its
  TTL is EXPIRED in Core, then DISPATCHED by its `command_started` and ACKED by its
  `command_ack`. The runbook calls EXPIRED a finished state.
* `OneFreshActivePerKey` (`GatewayCommands`, `Ids = {c1, c2, c3}`,
  `Keys = {kControl}`, `Limits = {1}`, `ExpireStaleDispatched = FALSE`,
  `MaxTime = 3`). `expire_old_commands` upserts every EXPIRED record in memory and
  hands the ledger row of the key back to the expired command. While a second
  command with the key is queued, a third is accepted. Orders are safe
  (`OneFreshOrderPerKey` is proved): their ledger rows are renewed by the full
  retention period on each write.
* `AppliedOnce` (`OrderEventLog`, `Events = {e1}`, `Batch = 1`, `MaxPosts = 1`,
  `MaxFaults = 0`). `claim_event` refuses only closed rows (`event_log.py:231`), so
  the live consumer takes a row the replay worker is processing; both find no
  receipt and both apply the event. `docs/realtime_architecture_v2.md:1125` says
  that a duplicate fill is a no-op because of its receipt.
* `AppendFailureNotReady` (the same with `MaxFaults = 1`). When appending raises
  there is no row, and when the payload cannot be written as JSON the row is
  FAILED and without it (`event_log.py:72`). `critical_backlog_snapshot`
  (`event_log.py:389`) counts rows of the other statuses and still reports
  ready, and the replay claims no FAILED row (`event_log.py:160`); when the live
  consumer takes one, it decodes the row and not the event, and closes it as
  PROCESSED without its fill.
  `docs/runtime_reliability_qualification_runbook.md:65` (F08) says that
  `order_lifecycle_ready` is false.
* `LateAckKeepsFill`, `StopNewBuyKept` (`ManagedOrders`, `N = 1`, `Qty = 1`,
  `Sides = {"BUY"}`, `CancelGuard = TRUE`, `MaxPerCode = 1`, `MaxRestarts = 0`). An
  acknowledgement saved from a stale copy overwrites the fill the other thread
  saved (`order_reconcile.py:70`; `docs/realtime_architecture_v2.md:1124`: a late
  ack does not take FILLED back). The next `evaluate` starts from NORMAL and clears
  the STOP_NEW_BUY saved for an unmatched fill (`kill_switch.py:20`; line 1128 of
  the same document keeps it).
* `SellCountsOnce` (the same with `Sides = {"SELL"}`, `Qty = 2`, `Held = 2`).
  `_sync_live_sim_position` subtracts the cumulative quantity of each sell report
  from the position (`order_reconcile.py:191`), and a report is handled when it is
  persisted and again by the consumer.
  `docs/runtime_reliability_qualification_runbook.md:62` (F02) says an execution
  counts once.
* `NonPriceEventsPreserved` (`GatewayEventQueue`, `Kinds = {"tick", "control"}`,
  `MaxEvents = 4`). A full queue without a tick drops its oldest event, whatever it
  is (`gateway_client.py:171`); `tests/test_broker_models.py:108` is named for the
  opposite and has a tick to drop.
* `LastConditionWins` (`GatewayEventQueue`, `Kinds = {"include", "remove"}`,
  `MaxSize = 3`, `DrainLimit = 3`, `MaxEvents = 4`). A condition event replaces the
  queued one of its code and action in place (`gateway_client.py:54`): include,
  remove, include arrives as include, remove. `tests/test_broker_models.py:85`
  expects the actions in their order.
* `CleanMeansAgreed` (`BrokerReconcile`, `MaxRuns = 1`, `MaxChanges = 1`,
  `MaxFaults = 0`). The comparison walks over what the broker listed
  (`broker_reconcile.py:163`), so a position that only the projection has is no
  discrepancy. `docs/kiwoom_reconcile_tr_pilot_runbook.md:150` says CLEAN means
  that snapshot and projection agree.
* `StopNewBuyStays` (the same with `MaxRuns = 2`). `health_snapshot` reads the
  current run only (`broker_reconcile.py:344`), which a reconnect replaces and a
  restart forgets. Line 164 of that runbook forbids clearing STOP_NEW_BUY
  automatically.
* `ReadyIsBrokerTruth` (the instance of `reconcile`). A request that timed out
  is executed again, and the rows of a second, partial answer replace the
  complete ones before `complete` is looked at (`broker_reconcile.py:294`); the
  run is decided from them. `ReadyUnlessOverwritten` excepts the sources for
  which this happened. `docs/realtime_architecture_v2.md:1566` says partial
  pages are not published.
* "Running" means a live loop, without the exception that `RunningIsAlive` makes for
  `loop = "failed"` (`RuntimeSupervisor`). `run_once` returns `status()`, which reads
  SQLite; when it raises, `loop_forever` logs it and returns
  (`runtime_supervisor.py:307`), and `running` stays true without cycles until the
  next stop. `CyclesGoOn` speaks of loops that did not fail for the same reason.
* `ActiveIsServed` (`RealtimeSubscriptions`, the instance of `subscriptions`). Core
  goes on applying a post whose sender gave up. A register acknowledgement applied
  after the heartbeat of a new session and the `remove_all` that follows it makes
  the code active (`realtime.py:426`: the generation is not compared) although
  nothing serves it and nothing that would clear it is on its way.
* `DroppedIsReleased` (`RealtimeSubscriptions`, `Codes = Protected = Opening = {1}`,
  `MaxCodes = ScreenSize = 1`, `Changes = 2`, `MaxFaults = 0`). The opening burst
  registers a code on its own screen and the manager releases only the screen it
  remembers. Without the burst (`Codes = Protected = {1, 2}`, `Opening = {}`,
  `MaxCodes = ScreenSize = 2`, `Changes = 5`) a second release within the minute
  the first one's dedupe key is kept is refused, and the manager forgets the code
  all the same. `tests/test_realtime_subscription.py:163` asserts that a removed
  code is not registered.
* `WantedGetsServed` (`FairSpec`, `Codes = Protected = {1}`, `Opening = {}`,
  `MaxCodes = ScreenSize = 1`, `Changes = 3`, `MaxFaults = 0`). The key of a
  finished registration is retained, so a code that was released and is wanted
  again is refused at every cycle until the generation advances. This is why
  `ProtectedGetsServed` speaks of codes that were never released; it leaves out
  losses too, because `mark_all_stale` advances the generation only when
  something is active.
* `ScreenFits` (`Codes = Protected = {1, 2}`, `Opening = {}`, `MaxCodes = 2`,
  `ScreenSize = 1`, `Changes = 3`, `MaxFaults = 1`). A refused registration gives up
  its place on the screen while its command is queued again.

## Proofs

Each theorem is for every value of the constants that satisfies the named
assumptions of its module; TLC evaluates these on every run. Each safety
property rests on an inductive invariant: it holds initially and every action
keeps it, shown action by action in the proofs module.

### The command channel

`GatewayCommandsProofs` proves for all parameters satisfying the assumptions of
`GatewayCommands` (positive TTLs, attempts and retention; order keys used by
orders only; an order's TTL at most the retention):

* `TypeCorrect`, `QueuedAlwaysHasAttemptLeft`, `DeliveriesAreBounded`,
  `OrdersKeepTheirKeys`, `CancelledOrdersStayOut`;
* `ChannelImplementsOrderDelivery`: the refinement of `OrderDelivery`.

They rest on the inductive invariant `IInv`. `DeliveriesBounded` is not
inductive because retries consult the attempt counters, of which there are two:
`AttemptsCoverDeliveries` says both count at least the deliveries.
`OneFreshOrderPerKey` is not inductive because enqueueing consults the ledger
alone: `LedgerCoversFreshOrders` says that the row of a key lasts as long as
any live order with it, `ExpiryBounded` that rewriting the row now lasts long
enough, and `OnlyIssued` that a fresh order does not own a row already. The
refinement adds `LedgerCoversSentOrders`: the row of a sent order lasts for the
retention period, and nothing live waits on such a key.

Acknowledgements, failures, cancellations, sweeps, pruning and restarts share
one argument: each is an `Effect` under which records only move on and the
ledger only grows for keys of live orders (`EffectKeeps`, `QuietStep`). Ticks,
enqueueing and deliveries have lemmas of their own.

### The gateway and the transport

`GatewayLinkProofs` proves for any commands, queues and losses:

* `LinkRefinesCore`: each step of the gateway, its transport and Core is a step
  of `GatewayCommands` or leaves it alone, so the theorems above hold end to end;
* `CallsAreDeliveries` and `OrdersAreCalledOnce`: Kiwoom is called at most once
  for an order, for every `max_attempts` and not only for the default of one;
* `CalledOrdersAreSettled`, `AcksAreTrue`.

`LinkInv` adds to `IInv` that a command waiting at the gateway was delivered
(`OnlyDelivered`), that an event in the outbox or in a late post tells what Kiwoom
did (`OnlyGenuine`), neither of which Core looks at; that nothing is delivered
before it is accepted; and `OrderSentOnce`, which follows from a delivered order
leaving QUEUED for good in both copies.

### The event queue

`GatewayEventQueueProofs`: `TypeCorrect` (the queue never exceeds its size),
`CoreStaysInOrder` (`InOrder`), `NewestAreNotForgotten` (`NothingForgotten`)
and the action property `TicksMakeRoom` (`TicksGoFirst`), for any sizes.
`QueueInv` says that events are dated by their emission, that the queue has one
event per key (so replacing one where it stands puts nothing before an older
relative, and coalescing a drained batch has nothing left to do), that related
events are in order in what was posted, the batch and the queue taken together,
and that the newest event of a key is somewhere. Related events have one
priority, so neither the drain nor the sort before posting exchanges them.

### The order event log

`OrderEventLogProofs`: `TypeCorrect`, `ReadyCanBeBelieved`
(`ReadyMeansApplied`) and `FillsAreAppliedOnce` (`AppliedOnceUnlessExposed`),
for any events, faults and restarts. `LogInv`: a worker at a step knows what
the step before it saw (`Knows`), a receipt means an application, a PROCESSED
row a receipt or a row without payload (`Settled`), a FAILED row is one without
payload, and for a fill that is not exposed one worker at most is between
looking and saving, an application is followed by its receipt, and there has
been one at most (`FillGuarded`). The first two are needed because a row is
closed by a worker that may have lost its lease. `PowersAssumption` states that
powers of two are natural numbers, which the provers do not know of `^`.

### Managed orders

`ManagedOrdersProofs`, for any number of orders, quantities and sides:
`TypeCorrect`, `PositionsAreHeld` (`PositionIsHeld`), `ShownFillsAreReal`
(`FillsAreReal`) and `NothingIsLostInSilence` (`NoSilentLoss`). `OrdersInv` says of
the rows that they show no more than the broker filled of an order of their side,
and also of every copy a thread has loaded and may still save and of every report,
since whole rows are saved from such copies. `NothingLost` adds that until a fill
shows on a row of its side, its last report is before the consumer or in its hands.

Both speak of the side and not of the order, because a report without a number
that matches goes to the latest open order of its side (`_find_execution_order`),
which may then show a fill that was another's. `BuysAreTheirOwn`, checked by TLC,
says that buys keep apart all the same while no row is saved from a stale copy.

### Broker reconciliation

`BrokerReconcileProofs`, for any number of runs, restarts and attempts:
`TypeCorrect`, `AnsweredRunsAreDecided` (`AnsweredIsDecided`) and
`SnapshotsBelongToTheirRun`: a snapshot shows what the broker had since its run
began or no row, and never an answer to another run. `ReadyRunsHaveTheTruth`
proves `ReadyUnlessOverwritten`. `ReconcileInv` relates each answer on its way to the
run it was asked for; `CompletedIsReal` adds that a completed source has a row the
broker had since the run began, unless it was overwritten.

### Realtime subscriptions

`RealtimeSubscriptionsProofs`, for any codes, limits, changes and faults:
`TypeCorrect` and `ActiveCodesAreServed` (`ActiveIsServedUnlessLate`). The property
is not inductive because an acknowledgement makes a code active long after the
registration. `SubscriptionInv` therefore says of every claim that a code is
served, whether made by the manager of a code that is not `belated` or by an
acknowledgement in time in either queue, that it is true, that a reset is due, or
that a report behind it clears it (`Backing`), and that the queues hold
well-formed commands and reports (`Channels`).

### The supervisor

`RuntimeSupervisorProofs`, for any clients and futures: `TypeCorrect`,
`CyclesDoNotOverlap` (`NoOverlap`), `RunningMeansAlive` (`RunningIsAlive`).
`NoOverlap` needs that a cycle in the executor is the one in `_cycle_future`,
although its waiter and the lock are gone (`CycleIsKnown`). `RunningIsAlive`
needs that a supervisor without a runtime has the result of a stop to handle
(`NoBundleEnds`), that a loop is cancelled only for a stop that awaits its end
(`CancelIsAwaited`) and that one that runs without a loop is being stopped or
its loop failed (`DeadLoopIsStopped`); these hold because each start and stop is
awaited by one client, in the executor or as a result (`JobIsAwaited`,
`ResultIsAwaited`, `OneJob`, `OneResult`, `JobOrResult`).

### Only model-checked

The liveness properties (`OpenCommandsClose`, `BacklogDrains`, `AckOrTimeout`,
`CyclesGoOn`, `ProtectedGetsServed`, `UnwantedGoes`): liveness under fairness
is out of the prover's reach. `OneLiveBuy` and `BuysAreTheirOwn`: their inductive
invariant has to follow numbers, commands and copies of every row through both
handlers and is not written yet. The statements of "What the code does not keep"
are refuted, and a counterexample is all there is to say about them.

## Not modelled

Most of the source is scoring of market data, reports, dashboards, SQL migrations
and row mapping, tools and the user interface: sequential code that keeps no
protocol state, which TLC would only re-execute. Of the parts that have state:

* WebSocket pilot transport: off by default, and it falls back to the REST
  transport that `GatewayLink` models.
* Order enqueue service (`order_enqueue_service.py`): the older LIVE_SIM path. Its
  execution events are not emitted by default, and its reconcile and exit monitors
  have no caller.
* Candidate state machine: labels a candidate by what scoring and hydration say at
  that moment, on one thread and without a protocol.
* Live-sim lifecycle and promotion: a table of allowed status pairs used for
  warnings, and thresholds over reports.
* Safety guard and reliability suite: stateless mode checks and test tooling.
* Outbox: its publisher has no caller. Rate limiter: a list of call times.
* Kiwoom COM client and Qt user interface: pure I/O.

## Plan

Every safety property of a passing run but `OneLiveBuy` and `BuysAreTheirOwn` is
stated by a theorem. Next in order: an inductive invariant for these two; action
properties of the rows (a filled quantity is only taken back by a stale copy;
whether a decided run can be reopened).

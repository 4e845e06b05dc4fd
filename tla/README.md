# Botix in TLA+

Botix is a trading bot for MEXC perpetual futures. It compares the MEXC book with Binance,
scores deviations, and for each accepted signal enters a position, manages it and closes it.
This directory holds its specification: TLA+ modules translated from `src/backend`, TLC
configurations that check them on small instances, and TLAPS proofs of what holds on all.

    tlc -workers 2 -config RealExecutor_trade.cfg RealExecutor      (one line of "Runs" below)
    tlapm RealExecutorProofs.tla                                    (one line of "Proofs" below)

`PROJECT.json` lists the components, the runs, the source lines every definition stands for,
one mutation of the code per property that the property must reject, the findings, the
hazards and the theorems.

## 1. The system

| component | state it keeps | operations | talks to |
|---|---|---|---|
| live executor `real.py` | pending quotes, close keys, miss counts, a positions snapshot with its age, flags, locks | `on_signal`, `loop`/`_tick`, `_emergency_flatten_all`, `graceful_stop` | trader (REST), private stream, allocator, state, sidecar file |
| paper executor `paper.py` | pending quotes; simulated balance | `on_signal`, `loop`/`_tick` | aggregator, allocator, state, store |
| engine `engine.py` | the executor, background tasks, the scoring task | `start`, `run`, `run_stop`, `kill_all`, `set_mode`, `shutdown`, the scoring loop | everything |
| allocator `allocator.py` | none; reads `state` | `decide` | called by both executors |
| application state `state.py` | `positions`, `cooldown_until`, `kill_switch`, `engine_running`, balances, counters | plain fields under one lock never held over an await | all |
| MEXC trader `mexc_trader.py`, REST client `mexc_api.py` | session, contract cache | place, cancel, close, stop plans, positions, history | venue |
| private stream `mexc_private_ws.py` | per-symbol position table, order deals | reconnect loop, subscription | venue, executor |
| public streams `binance_ws.py`, `mexc_ws.py` | wanted and subscribed symbols | reconnect loop, `update_symbols` | venues, aggregator |
| aggregator, opportunity `aggregator.py`, `opportunity.py`, `book_utils.py` | books, sample windows | statistics, scores | engine, executors |
| universe `universe.py` | working set | `refresh`, `loop` | engine |
| persistence `persistence.py` | SQLite tables, `managed_positions` JSON sidecar | inserts, upsert/delete of a managed position | executors |
| configuration, HTTP, dashboard | settings | `/api/run/*`, `/api/mode`, ... | engine |
| Rust port `rust-bot/` | a second implementation of the same bot | as above | venues |

All Python code runs in one asyncio loop: tasks interleave only at awaits that really suspend.
`state.lock`, an uncontended `asyncio.Lock`, `add_log` and the sidecar (synchronous file I/O) do
not; the private REST calls, sleeps, SQLite writes and the first read of a contract's detail do.

Three tasks share the live executor: the **scoring task** (awaits `on_signal` for each candidate),
the **executor loop** (quotes, then positions, then kill checks, every tick) and the **HTTP
handler** running `kill_all`, `run_stop` or `run`. Stop orders are attached by tasks of their own.

What is hard in it:

* *Interleaving.* Quotes and positions are looked at before an await and acted on after it; copies of
  both dictionaries are iterated over while other tasks change them; a flatten runs beside a close.
* *Staleness.* One positions snapshot is shared by all tasks for up to a second, so a closed position
  is seen again and a new one is not seen yet; two ticks may look at the same snapshot.
* *Lost replies.* An entry or close whose call raises may still have been carried out.
* *Partial failure.* A cancel whose outcome is not looked at, a snapshot that fails inside a flatten.
* *Shutdown.* Three ways into one flatten, with orders in flight; requests that arrive inside another's stop.
* *Restarts.* A crash between a venue call and its record; a record met by a later position.
* *Reconnects.* A set of symbols that changes while three clients connect, subscribe and lose connections.

### What makes each component correct

* **live executor** - one exposure per symbol; every fill ends as exactly one trade of the ledger; nothing
  is booked as closed while it is open; managed positions and sidecar records agree; KILL ALL and stop
  stop new orders, end the loop and leave nothing open.
* **paper executor** - every simulated position is booked once and the balance is the sum of the bookings;
  a stop only moves in favour of the trade; a queued close is executed; nothing opens after the kill switch.
* **engine** - a running engine has a loop behind its executor and no two executors drive the shared positions; a stop
  leaves nothing open; a mode switch does not hand live positions to the simulation; every signal went through
  every filter, on either side alike.
* **allocator, opportunity** - never more notional or book depth than configured; a mirrored market gets the mirrored signal.
* **private and public streams** - after any sequence of reconnects and `update_symbols` the subscribed set becomes
  the wanted set.
* **universe** - what the engine applies in the end is the working set, whichever of its tasks changes it.
* **persistence** - a restart finds the record of the position it meets, and no other's; the stop at the venue survives it.

`PROJECT.json` lists the hazards of the code, each at its line with the properties that would catch it.

## 2. Modules and plan

| # | module | models | uses |
|---|---|---|---|
| 1 | `RealExecutor` | the live executor with engine operations, allocator guards, venue and sidecar | - |
|   | `RealExecutorProofs`, `RealExecutorTradeProofs`, `RealExecutorExposureProofs` | types, the ledger, flattens and the kill switch; one row per position, closed positions and their records, the epochs of a symbol; one unit per symbol | extend 1, each the previous one |
| 2 | `StopRules` | `_trail_long/_short`, `_r_trail_*` | - |
| 3 | `PaperExecutor` | quotes, latency queue, exits, bookkeeping, kill checks, overlapping loops | extends 2 |
|   | `PaperExecutorProofs` | types, positions, stops, streaks, the refinement of 4 | extends 3 |
| 4 | `TradeLife` | abstract: the life of a trade and the account | refined by 3 |
| 5 | `StopOrders` | the stop order of a live position and its record, over crashes and restarts | extends 2 |
|   | `StopRulesProofs` | the stop rules for all prices; types, records and stop orders of 5 | extends 5 |
| 6 | `Feeds` | universe, application of a set, subscriptions of the three streams over reconnects | - |
|   | `FeedsProofs` | types, subscriptions, the applied set | extends 6 |
| 7 | `Opportunity` | the ten signal algorithms, overrides, choice between algorithms, sizing | - |
| 8 | `Scoring`, `MCScoring` | the scoring loop over 7; its instance for TLC | extends 7 |
|   | `ScoringProofs` | types, mirrored sides, filters, sizes | extends 8 |
| 9 | `Engine` | `run`, `run_stop`, `kill_all`, `set_mode`, `shutdown` and the executors they replace | - |
|   | `EngineProofs` | types, loops, one executor, stops, switches of mode | extends 9 |

`RealExecutor` and `PaperExecutor` have one executor each, whole; `Engine` has several, each reduced to its effect on what they share.
`StopOrders` adds prices and restarts to one aspect of `RealExecutor`, which has neither: the two share the code of adoption,
recovery and closing, `RealExecutor` with stale snapshots and racing tasks, `StopOrders` with prices, matched records
and crashes. `Scoring` ends where an executor's `on_signal` begins.

*Abstract specification.* `TradeLife`, refined by `PaperExecutor`. `RealExecutor` does not refine it: a live position can be met
before, or long after, its fill.

*Left.* The tables of the private stream; the arithmetic of the statistics; the Rust port, a second
program; one exposure and no phantom close under weaker conditions than those of `trade`.

## 3. `RealExecutor`

### State

| variable | code |
|---|---|
| `order`, `venue`, `hist` | the venue (external): orders sent, open position per symbol, closed positions of the history endpoint |
| `quotes`, `quote` | `_quotes` and the `_Quote` objects (`entry_submit_in_flight`, `exchange_order_id`, `materialize_in_flight`, `synthetic_raw`) |
| `positions`, `obj` | `state.positions` and the `ManagedPosition` objects |
| `closedKeys`, `missing` | `_closed_position_keys`, `_raw_missing_counts` |
| `cache` | `_positions_cache_raw` with the moment it was read |
| `store` | the `managed_positions` sidecar |
| `attach` | running `_attach_initial_stop_loss` tasks |
| `ctl` | `_stop`, `_emergency_in_progress`, `_shutdown_lock`, `_shutdown_cleanup_done`, `engine_running`, `kill_switch` |
| `task` | where each task stands and its locals |
| `made`, `faults`, `ops` | counters for the bounds |

Objects are numbered in the order they are made, 0 is `None`; a venue position is named by the order
that opened it. `obj[o].truth` is the venue position an object stands for - a history variable, the code knows
only `pid`, which may be missing. `quote[n].stray` is one too (section 10).

### Steps

A step is the code from one suspending await to the next.

| actions | code |
|---|---|
| `Decide`, `ArmTaker`, `AckMaker` | `on_signal`, `_maybe_place_quote`, the allocator's guards |
| `SubmitRefused`, `Send`, `NotAcked`, `AckTaker` | `_submit_due_taker_quote`: the order leaves, is refused, its reply is lost or arrives |
| `Find`, `OpenDone`, `AttachDone` | `_materialize_filled_quote`, `_find_position`, `_open_position_from_exchange`, `_attach_initial_stop_loss` |
| `LoopStart`, `LoopTick`, `LoopExit`, `LoopKillCheck` | `init_balance`, `loop`, `_tick`, `_check_kill_switch`, `_trip_kill_switch` |
| `LoopQuotes`, `LoopQuoteUnsent/Ask/Filled/Unfilled`, `LoopCancel` | `_reconcile_quotes`, `_is_quote_filled`, `_cancel_quote` |
| `LoopSnapshot`, `LoopRecover`, `LoopAdopt`, `LoopAdoptFails`, `LoopRecovered` | `_reconcile_positions` up to `_recover_untracked_positions` |
| `LoopHold`, `LoopMove`, `LoopTrail`, `LoopRule`, `LoopMissing`, `LoopVanished` | one managed position: no exit, stop moved, exit rule, gone from the snapshot |
| `CloseSend`, `CloseReply`, `CloseBook` | `_close_market` with its three tries |
| `Flatten...` | `_emergency_flatten_all` |
| `OpKillAll`, `OpRunStop`, `OpRun` | `Engine.kill_all`, `run_stop`, `run` |
| `Venue...` | accept, fill, expire, close by a stop or by hand (external) |

`MarkClosed` (`_mark_closed_externally`) is the heart of it: the symbol's entry and record go, the object is booked
under its close key, and a key already booked is ignored.

`RunsOn` expresses that awaiting a cached contract detail does not suspend: with `MetaCached` no other
task, and no venue event, comes between the check and the act.

### What is abstracted

Sides, prices, sizes (every order is one unit), wording and equity rows. The clock decides only *when* a timeout or
an exit rule holds, so that is a choice, made a certainty only by fairness. Consequences stated at their
definitions: `CooledDown` (a cooldown longer than a snapshot is used for, `LongCooldown`),
`LoopVanished` (the eight-second hold), `LoopQuoteUnfilled` (the confirmation deadline of an IOC order).
Maximum leverage is taken as fetched at start, `emergency_close_on_stop` as its default (true); calls other
than the entry order take effect when sent, their reply comes later or never. `OpRun` starts a loop only when the previous
one has ended. A foreign position on the venue and hedged positions are outside the model.

## 4. `StopRules` and `PaperExecutor`

`StopRules` holds the trailing stops as operators on integers: prices in ticks, every multiple of sigma or R taken as a
distance of its own, `None` a stop not yet set. The code writes each rule twice, once per side. Both families are defined in
`paper.py`, whose executor uses both. The live executor imports the sigma rules only (`_trail_long`, `_trail_short`, `real.py:30-31`), so `StopOrders`
follows the sigma rule and has no R rule.

### State

| variable | code |
|---|---|
| `book` | the aggregator's book of a symbol, as its mid; `None` while a side is missing |
| `quotes`, `quote` | `_quotes` and the `_Quote` objects |
| `positions`, `obj` | `state.positions` and the `ManagedPosition` objects (`best_excursion`, `stop_price`, `pending_close_reason`) |
| `booked` | the trades in the order `_close_position` booked them - what `recent_trades` and the trades table receive |
| `acct` | `balance`, `session_trade_count`, `consecutive_losses`; `base` and `since` mark the last `init_balance` and `run` in `booked` |
| `ctl` | `_stop`, `engine_running`, `kill_switch` |
| `sized` | `_contract_size_cache` |
| `sig`, `loop` | where the scoring task and each executor loop stand; `todo` is the copy a pass still walks |
| `cpu` | the loop that runs without awaiting |
| `made`, `ops` | counters for the bounds |

`cpu` is how asyncio is modelled here: a tick is many actions, one per quote, position and check, but as long as the
loop has not reached an await that suspends, `cpu` names it and nothing else moves, not even a book. It
is given up in a sleep, a write to SQLite and the first read of a contract's size (`Awaits`), and
kept otherwise (`Goes`).

### Steps

| actions | code |
|---|---|
| `SigRound`, `SigSignal`, `SigSized`, `SigRoundEnds` | `Engine._scoring_loop`, `on_signal`, `_maybe_place_quote`, `_contract_size`, the allocator's guards (`Accepts`) |
| `LoopStart`, `LoopTop` | `init_balance`, the head of `loop` |
| `LoopQuoteWaits/Refused/Cancelled/Filled`, `LoopRejected`, `LoopQuotesDone` | `_process_quotes`, `_record_candidate_reject`, `_open_position` |
| `PosSkip`, `PosExchangeStop`, `PosWait`, `PosDue`, `PosRule`, `PosTrail`, `PosTime` | one position of `_process_positions`, the exits in the order of the code |
| `Close`, `LoopInserted` | `_close_position` before and after its write |
| `LoopPositionsDone`, `LoopCheck`, `LoopTrips` | `_log_equity_periodically`, `_check_kill_switch` |
| `OpRun`, `OpRunStop`, `OpKillAll` | `Engine.run`, `run_stop`, `kill_all` with a paper executor |
| `BookMoves` | the streams (external) |

### What is abstracted

A book is its mid, with the touch `HalfSpread` on either side; orders are one unit and fill at the touch, not at a
VWAP. The clock decides when a latency, a timeout, the stop throttle or an exit rule is due: choices, made
certain only by fairness. The exits before the stop - loss cap, take profits, edge, scratch, flip - are one
choice, `PosRule`, because each only queues a close. Cooldown, balance and score thresholds may refuse any
signal. The starting balance is 0, so `balance` is what has been won and lost since. The kill
checks on equity (daily loss, drawdown, session loss) are a choice, `LoopTrips`; those on counters
are exact. `OpRun` starts a loop beside one that has not ended only with `Overlap`.

### `TradeLife`

What the docstring of `paper.py` promises: a symbol is idle, quoted or managed; a quote becomes a position in the step that makes
the position, a managed symbol becomes idle in the step that books its trade, and the balance changes by that
trade alone, unless `init_balance` sets the account up. `ImplementsTradeLife` is `INSTANCE TradeLife WITH life <- Stages,
balance <- acct.balance, trades <- Len(booked), killed <- ctl.kill`, where `Stages` reads a symbol's stage off `quotes` and
`positions`. Awaits, copies and queued closes are stuttering steps.

## 5. `StopOrders`

One symbol; prices count in the direction of the trade, so `Fav` gives both sides the same stop rule.

| variable | code |
|---|---|
| `mid` | the aggregator's mid (external) |
| `venue`, `plans`, `order` | the open position, its stop orders, an entry order not yet ended (external) |
| `pending` | the quote in `_quotes` |
| `pos`, `held` | `state.positions[symbol]`; the object `_recover_untracked_positions` is building |
| `record` | the symbol's entry of `managed_positions.json` |
| `attach` | running `_attach_initial_stop_loss` tasks |
| `pc`, `want` | where the loop is; the stop a change asks for |
| `torn`, `bare` | history: a crash struck between a change and its record; a position was met for which no stop is asked, or in vain |
| `count` | counters for the bounds |

| actions | code |
|---|---|
| `Enter`, `Fill`, `OrderEnds`, `ReplyLost` | the entry order; a lost reply leaves a fill nobody expects |
| `Adopt` | `_open_position_from_exchange`: first stop, record, attach task |
| `AttachCall`, `AttachAnswer` | `_attach_initial_stop_loss`: the answer stamps the position id, and the plan id if it brings one, on whatever the symbol then holds |
| `Recover`, `Recovered` | `_recover_untracked_positions`: the record if it matches (`Matches`), a fresh object if not |
| `Look`, `ChangeCall`, `PassEnds` | a pass of `_reconcile_positions`: excursion, stop rule, the change of the stop order, the record |
| `Exit`, `CloseCall`, `Release` | an exit rule, `_close_market`, `_mark_closed_externally` |
| `Crash` | memory and tasks are lost; venue and record stay |

`of` and `guess` of an object are history: whose history the object carries, and whether it was restored without an id to compare.
Snapshots are current here. `SlowTicks` is an assumption: with ticks shorter than `sl_update_throttle_sec` the throttle is restarted by every
pass (`real.py:2721`) and the stop order may never follow.

## 6. `Feeds`

| variable | code |
|---|---|
| `entries`, `selected` | `UniverseManager._entries` without fees; `cfg.universe.include_only` |
| `agg` | the aggregator's symbols and `state.universe` |
| `desired`, `link`, `batch`, `heard` | per stream: `_desired`, where its task is, what it has yet to subscribe to, what the venue sends |
| `task` | the refresh loop and the requests that change the set |
| `raced`, `crossed` | history: an update raced the stream's snapshot of `_desired`; the set changed with no task to apply it alone |

`Dial`, `Connected`, `LoggedIn`, `SubscribeNext`, `ConnectFails`, `Drop` and `Notice` are the clients' `run`; `StartRefresh`, `Refreshed`,
`Select`, `PatchConfig` the universe and the requests of `app.py`; `Configure` is `_configure_universe` with its awaits, `Send` one message
of `update_symbols`. A refresh comes back with any of `Lists`; a message on a lost connection is lost. The streams do not
stop, and decoding is not modelled.

## 7. `Opportunity` and `Scoring`

`Opportunity` has every algorithm as an operator from statistics, strategy and overrides to a verdict, `"LONG"`, `"SHORT"` or
`"none"`, each side written out where the code writes it out. Quantities are integers in the code's units, and `None` a missing statistic.
Scores are not computed: they decide only which of the algorithms that fired is picked, so a choice by score is
a set of verdicts (`EvaluateMulti` in the modes ANY, BEST and CONSENSUS). `Notional` is `CapitalAllocator.decide` from the balance to
the order's size, with the caps in the order of the code.

`Scoring` is `Engine._scoring_loop`: `StartRound`, `Score` per symbol, `Rank`, then for each ranked symbol `RateLimited` or `Signal`,
`Answer` or `Fail` of the executor's `on_signal` with the `insert_candidate` awaited after it, `EndRound`; `Switch` is `run`, `run_stop` and `kill_all`. Time is counted from the
ranking, because `now` is taken there once for the whole round; it passes in the two awaits (`Returned`, `MaxWait` bounds a step) and in the sleeps. The logger mode, which calls no executor, is left out.

## 8. `Engine`

| variable | code |
|---|---|
| `running`, `kill` | `state.engine_running`, `state.kill_switch` |
| `executor`, `made`, `exec` | `Engine.executor` (0 for none); the executors ever made, each with `_stop`, `_shutdown_cleanup_done`, `_shutdown_lock` |
| `task` | each request and each loop: at rest, in a tick, asleep, waiting for the lock, before and after the closes of a flatten |
| `entry` | the executor whose entry order the scoring task awaits |
| `pos`, `venue` | `state.positions` of the symbol - none, simulated, live; is a position open on the venue? |
| `down` | `shutdown` has cancelled the tasks |
| `raced`, `late` | history: `run` was called inside another request's stop, or before loops of before had ended; an entry filled on an executor that stops or flattens |

`Run`, `RunStop`, `SetMode`, `Shutdown` and `KillAll` are the requests. `Stop` is what the middle three share: `graceful_stop` of a live
executor awaits a flatten, a paper executor's `stop` does not suspend. `RequestEnds` is what follows the flatten, and it uses
`Engine.executor` as it is by then. `LoopWakes`, `PaperTick`, `LiveTick`, `Trip` are a loop; `Signal`, `Answer` the scoring task.
Calls do not fail here, as they do in `RealExecutor`: a flatten closes what is open when it looks.

## 9. Runs

| run | properties | shows | states |
|---|---|---|---|
| `trade` | `TypeOK`, `BookedOncePerKey`, `BookedOncePerPosition`, `SingleExposure`, `NoPhantomClose` | two taker trades of one symbol and up to three orders, closes and cancels that fail, venue stops, stale snapshots | 1 302 820 |
| `operate` | `FlattenExclusive`, `ManagedIsOpen`, `ClosedRecordsLapse`, `KillStopsOrders`, `LedgerIsFinal`, `KillEndsLoop` | any two of KILL ALL, stop, run and a tripped kill check at any point of a trade, any one call failing, venue stops, stop tasks | 566 123 |
| `finish` | `ExposureEnds`, `SymbolIsFreed`, `FillsAreBooked` | one taker trade, any two calls failing, thin fills | 16 625 |
| `maker` | `ExposureEnds` | a maker quote whose fill races its cancel, details not cached, stop tasks | 2 240 |
| `paper_trade` | `PositionLife`, `QuoteOrPosition`, `BalanceIsLedger`, `KillAfterStreak`, `ImplementsTradeLife` | two symbols, taker quotes, stops at the exchange; run, run_stop and KILL ALL at any await | 1 410 014 |
| `paper_exits` | `StopRatchets`, `StopIsNeverPassedOver`, `PositionsClose`, `QuotesEnd` | a maker quote and a position of either side under the R rule, four prices, tripped kill checks | 12 053 |
| `restart` | `RevivedIsOwn`, `StopNeverBack`, `ManagedInTheEnd`, `StopFollows`, `StopAttached` | two positions over a crash at any step and a failing call | 154 512 |
| `feeds` | `BlindOnlyByRace`, `AppliedIsWorking`, `WorkingIsHeard` | the refresh loop and a request change the set while two streams reconnect | 191 944 |
| `signals` | `SidesMirror`, `SignalsPassFilters`, `SizedWithinLimits` | every algorithm and mode over statistics at their boundaries, and the loop around them | 746 348 |
| `modes` | `TypeOK`, `RunningIsDriven`, `OneExecutor`, `StoppedIsFlat`, `LiveIsNotSimulated` | any five requests, two at a time, over three executors and an entry in flight | 2 505 106 |
| `kill`, `flatten` | `KilledIsFlat`, `NoPhantomClose` | disagreements, section 10 | - |

`TypeOK` of `PaperExecutor`, `StopOrders`, `Feeds` and `Scoring` is proved for every instance and not repeated by a run.

*Bounds of the live runs.* Two quotes: every hazard of `trade` is about a second trade meeting something the first left - a snapshot, a
record, a key. Three orders: a quote may be sent twice. Three objects: a closed position can be adopted again from a stale snapshot once; each further adoption repeats it.
Two failures: one to lose a reply and one to lose what would have repaired it. One symbol: state is per symbol
except for the slot limit, the flatten, which goes through them one by one, and the time a pass spends on other
symbols: the loop may be held up between any two items, as if by another symbol's.
`operate`: one order, and four objects, so that its position can be met again from a stale snapshot after a flatten has booked it beside the loop, and once
more after that; one failure, in any kind of call, lost replies included; two requests, so that one meets what the other left.
With three quotes, three orders and one failure (7 570 571 states, too many for a run) the properties of `trade` hold too. The exceptions for
misnamed positions come from larger instances: `Confused` in `NoPhantomClose` from a third quote and in `SingleExposure` from a fourth, `Misnamed` in `BookedOncePerPosition` from four orders and objects.
`MaxObjs` binds in `trade` (a stale snapshot can be adopted again without limit), so deadlock is not
checked there; nor in the runs with operations, where the kill switch stops the system for good. It is
checked in `finish` and `maker`.

*Bounds of the paper runs.* `paper_trade`: two symbols, so that a pass has something left in its copy while it awaits, and two
positions, so that a streak of two losses, an account set up again and a second position of a symbol all
happen; two prices far enough apart for a stop, a win and a loss beyond the margin. Three
requests: run, stop, run again, or KILL ALL in between. `paper_exits`: one position, but four prices, so that the stop goes through
the initial distance, break-even and the locked profit on each side. Deadlock is not checked in them: with the bounds used up and
the loop stopped the system rests.

*Bounds of the other runs.* `restart`: two positions, so that a record or a late answer can meet another's; one crash, which
may strike at any step of either; one failing call; three prices, which put the stop at its first distance, at break-even and behind
the best price, and are within `EntryTolerance` of each other, so that a position can be restored from the record of another one and get its stop. Venue rows with and without position ids, details cached and not. One side: prices count in its direction.
`feeds`: two symbols, a URL that holds one of them, two changes of the set and two lost connections, so that an update can meet a
connection at any stage and another update. The Binance client (URL, then messages) and the private one (login) are the two extremes;
the MEXC public client is the private one without a login. `signals`: symbol A runs through statistics just inside and outside every
threshold, overrides that enable each algorithm alone and several in each mode; symbol B has one signal to compete with; one signal per round, so the
cap binds. `modes`: five requests are a run, two requests that overlap, and a run and a stop after them; three executors allow a switch there and back;
one entry, simulated or live. In `restart`, `feeds` and `modes` the bounds, or `shutdown`, bring the system to rest, so deadlock is not checked.

*Where the safety of `trade` ends.* With failing snapshots or lost entry replies `SingleExposure` and `NoPhantomClose` fail
(the `flatten` run shows one of the ways); thin fills, whose close runs in the scoring task beside the loop, break `ManagedIsOpen` and `ClosedRecordsLapse`, and so does
a flatten whose close and snapshot both fail; details that are
not cached break `SingleExposure` and `KillStopsOrders` (section 10); fills without a position id break
`BookedOncePerPosition`; maker quotes break `SingleExposure`. The configurations name these conditions
as constants instead of hiding them in guards. Within these conditions `SingleExposure` and `NoPhantomClose` still except symbols with a strayed quote (`Strayed`)
or whose misnamed position was let go (`Confused`), `BookedOncePerPosition` misnamed positions (`Misnamed`): section 10 says how they come about.

*Fairness.* `Scheduling`: asyncio resumes every task whose await is over, so each task is weakly fair. `Fairness` adds: an IOC order
ends; a snapshot is used only up to its maximum age, so the loop reads a fresh one again and again
(strong, because a cached one may be read in between); a missing book comes back; `LoopRule` is strongly fair because
`max_hold_sec` makes the time exit hold for good; a quote passes its timeout; a close without a history row is accepted
after eight seconds. Venue stops, faults and operations are never fair.

`FairSpec` of `PaperExecutor`: asyncio resumes the loop (weak, `LoopStep`); the feeds stay up in the end (`FeedsStayUp`, an assumption
on the venues: a position without a book is skipped by every exit); a quote's latency or timeout, the latency of
a queued close and the longest time to hold pass while the loop ticks (strong, because each is
looked at once per tick only). Prices, signals and requests are never fair.

`StopOrders`: the loop goes on, the owner of a quote looks at its fill, attach tasks are resumed and answered; prices, fills, the venue's stops,
exits and crashes are not fair. `Feeds`: some task that can go on does - a sleep or an await ends, a dial is answered, a send returns or
raises; changes and lost connections are not fair, and are bounded. `Engine` and `Scoring` have no liveness property and no fairness.

*What the conditions in the properties mean.* `BlindOnlyByRace`, `AppliedIsWorking`, `WorkingIsHeard`, `StopAttached`, `StopNeverBack`, `StoppedIsFlat`,
`LiveIsNotSimulated`, `RunningIsDriven`, `SingleExposure`, `BookedOncePerPosition` and `NoPhantomClose` name, by a history variable, the events after which the code does not keep its promise (section 10). Each was
found by a run that failed without it, and each is as narrow as the run allows.

## 10. Findings

Shown by a run:

1. `kill` (`KilledIsFlat`): the README promises that KILL ALL closes every position. An entry order between its call and its
   reply fills after the flatten's last look; the loop has ended, so nothing closes it.
2. `flatten` (`NoPhantomClose`): `_exchange_positions_for_watchdog` turns a failed call into "no positions"; the flatten
   then books and forgets positions that are open, which the comment in `_reconcile_positions` warns of.

Met while modelling, each a condition of a property or a constant of a run rather than a run of its own:

*Live executor.* Three breaks of the allocator's "per-symbol exclusivity" (`allocator.py:3-4`) need no failing call. `_reconcile_quotes` walks a copy of
`_quotes`: an entry that its own task has sent, had rejected and dropped, while the loop was held up by another symbol, is sent again from the copy
(`real.py:1572`), beside the symbol's next entry; or, its signal stale by then, drops that next entry (`real.py:1438`). `_is_quote_filled` drops a dead quote and
the tick goes on to cancel it; what is dropped after the cancel's await is the symbol's next entry (`real.py:1814`), and a third one may be made while the second
still fills. Two units are then open, the close of one is booked as the close of the position, and the rest is adopted and booked again. (`Strayed`; without
it in `SingleExposure` the run `trade` ends in such a state.) And a stop that is answered after the next position has opened gives that
position the id of the last one (`real.py:2197`): its close counts as a duplicate, so it is missing in the ledger and starts no cooldown, and a snapshot of it can be
matched with a third position, which is booked while open and, when it is adopted and closes, once more (`Misnamed`). Without the cooldown the same snapshot can also bring
the position back over the symbol's next entry, which leaves the table unseen, fills, and is followed by another: two units again (`Confused`).

A flatten deletes the record of what it books, and the pass that holds the same object writes it back, marked closed (`real.py:2723`); so it does when the scoring task has closed a thin fill meanwhile. A record like that
is harmless as long as its position is gone (`ClosedRecordsLapse`). A thin fill breaks that: its close is booked in the scoring task while a snapshot, or the venue, still shows the position,
and what the loop then recovers from the record is managed and marked closed. A duplicate close frees the symbol whichever object it holds
(`real.py:3234`): no property looks at a newer position that loses its entry this way; the next snapshot brings it back as an untracked one.

`_maybe_place_quote` looks at the kill switch and the slots (`real.py:1278`), then asks the venue for the details of a contract that is not cached (`real.py:1304`), and sends a maker
order without a second look (`real.py:1347`): KILL ALL may come in between, against `README.md:116-117`. (`KillStopsOrders` fails in `operate` with maker quotes and `MetaCached = FALSE`; the run `maker` has uncached details,
but neither requests nor a second quote.)

With a cooldown shorter than a snapshot is used for, an open position is booked as closed though no call fails
(`real.py:2426`). The slot limit does not count pending entries (`allocator.py:58`). A position recovered without its record never
gets a stop order (`real.py:2353`, against `README.md:61`); a refused attach is not retried; an answer that comes while the
position is being recovered is dropped; while an attach is in flight the ladder moves the local stop only (`real.py:2719`). Every pass restarts the
throttle of the stop (`real.py:2721`; `paper.py:1566` does it inside the condition), so ticks shorter than the throttle stall the ladder that
`README.md:62` says is re-evaluated every 200 ms. A record whose position id, or the row's, is missing is taken for any position of the side opened within 30 s and 0.35 % of it
(`real.py:735`-`752`): the position goes on from another one's stop, and its stop order may move back (`guess`, the exception of `StopNeverBack`).

*Paper executor.* A quote queued before KILL ALL fills after it (`paper.py:1067`). `run` starts a loop although the last one still sleeps or
awaits (`engine.py:157`); of two loops one fills from its copy a quote the other has filled, and the first position is neither
managed nor closed (`Overlap`).

*Engine.* `kill_all` leaves `engine_running` set, so `run` does nothing until a stop (`engine.py:138`). `run` inside the flatten of a `set_mode` starts a loop
for the executor about to be replaced, and the engine shows as running with nothing behind it; `kill_all` stops whichever executor is
there after its await (`engine.py:188`). `_shutdown_cleanup_done` is never reset, so after a stop and a new run the loop does not flatten on its
way out (`real.py:1062`); the stop that ends it does. A loop of the live executor that is still in a tick, or of the paper
executor after a switch back, can act on positions of the other kind.

*Scoring.* An opportunity is dated when it is handed over, not when its statistics were read (`opportunity.py:1000`). Two filters of raw_momentum read
settings that do not exist; `algo_mode` "None = use global" (`config.py:310`) is never read; an override without algorithms is ignored, one with
algorithms turns the chase filter on with a limit of 0; BEST lets a score equal to the threshold through; the rate limit counts from the
round's start; a cap of ten lets high ranks starve low ones; a zero cap is no cap.

*Feeds.* A set that changes between the building of a Binance URL and its success is not subscribed to while the connection lasts
(`binance_ws.py:66`). A configuration patch changes the working set and applies nothing (`app.py:257`). The refresh loop takes the set it compares with
before it waits for the lock (`universe.py:195`). Two updates at once can end with the older set. `aggregator.py:127` forgets one of two symbols
with the same reference. A first boot without exchange information starts with an empty set.

## 11. Proofs

All theorems hold for every value of the constants allowed by the modules' assumptions (finite symbols, natural bounds,
integer prices, at least one close retry, finitely many requests of the engine, `None` not a value of what it stands in for).
A condition beyond these is in the theorem's statement.

* `RealExecutorProofs` - `TypeCorrect == Spec => []TypeOK`. `TypeOK` is not inductive: that `obj[task.o]` is
  defined needs to know which locals a task has at which point of the code (`Steady`), that a task awaiting an acknowledgement has
  sent an order (`AcksOrdered`), and that every position shown, by the venue or a snapshot, carries the id of an
  order (`PidsOK`). `TypeInv` is their conjunction, split by groups of variables so that a step proves only
  what it touches.
  `LedgerOncePerKey == Spec => []BookedOncePerKey` and
  `LedgerNeverRewritten == Spec => LedgerIsFinal`. `MadeInv`: tasks and symbols hold only objects
  already made, so a new object is nobody else's. `LedgerInv`: a booked object is closed and its key is recorded. Every step is
  one of three kinds - `Untouched`, `Adopted`, `MarkedClosed` (`LedgerSteps`) - and each keeps the invariant; `MarkClosed`
  books only what is neither closed nor recorded.
  `FlattensExclude == Spec => []FlattenExclusive`. `LockInv`: at most one task is inside, and the lock and
  the emergency flag are up exactly then. Every step but entry and return is `Calm`; entry needs the lock free, return
  frees it and leads out of every flatten. `KilledSendsNothing == ASSUME MetaCached PROVE Spec => KillStopsOrders`: `KillInv` says that
  with the kill switch on a shutdown is under way or over (`ShuttingDown`: a stop, a lock or a flatten to come), and that no task stands between
  its guard and the order it sends. `MetaCached` is needed: an await between the guard and the quote lets the switch in between.
* `RealExecutorTradeProofs` - `PositionBookedOnce == ASSUME FillCarriesPid PROVE Spec => []BookedOncePerPosition`, by `NamedInv`: every row that becomes an object, and
  every object, names a position that has been filled, and what is booked is booked under the id its object carries from then on. Two trades of one position, neither misnamed, have the same id, so the same key.
  `ManagedStayOpen == ASSUME Confirmed PROVE Spec => []ManagedIsOpen` and `ClosedRecordsStayPast == ASSUME Confirmed PROVE Spec => []ClosedRecordsLapse`, for
  any requests and kill checks beside the loop, any failing entries, closes and cancels, and any symbols and bounds. `Confirmed` is `~BadFills`, `FillCarriesPid` and no
  failing snapshot: section 9 names the runs that fail without the first and the last, and an id is what the argument is about. The flatten and the loop hold the same object at once, and
  either may book it first. What saves the loop is that neither books on suspicion: an id that a fresh look at the venue does not show is *past*
  (`Past`) for good, since the venue never opens a position of that id again, and the cache then shows nothing older. `GoneInv` says that the table shows no booked object (`ManagedOpen`), that a booked object still in
  the loop's hands has a past id (`HeldPast`), and so has what a flatten is about to book, under any id a running stop task may yet give it (`TodoPast`), and that a record written back as
  closed has one too, which the snapshot of a recovery under way does not show (`RecordsPast`). Hence a recovery never matches that record, and never revives its flag. A step keeps the objects, stamps one,
  takes one up or lets one go (`Keeping`, `Stamping`, `TakesUp`, `LetsGo`), and each case is a lemma.
  `OnlyLoop` and `BookInv` serve the next module, which assumes that the loop alone closes and books: whatever the loop holds - to manage, to close, to look up, or in its copy - is made, open and of
  a symbol that is still managed, one object per symbol (`HeldInv`). Steps keep the book (`Keeps`), open one object (`Opens`) or end one (`Ends`).
  It also defines the epochs, and proves that the steps on quotes keep them.
* `RealExecutorExposureProofs` - `OneUnitPerSymbol == ASSUME TradeConditions PROVE Spec => []SingleExposure` and
  `TradesAreOver == ASSUME TradeConditions PROVE Spec => NoPhantomClose`, for any symbols and bounds and any failing closes and cancels; `TradeConditions` are the constants of the run `trade`
  that section 9 shows to be needed. The code never compares a quote or a position with the venue before it acts, so the invariant must say
  where the one unit of a symbol can be at every moment. `Epoch(s, c, m)`: `c` is the last quote decided on for `s` and `m` the order it has become, and whatever the venue, the cached
  snapshot, the loop's own snapshot, a row, a task or the book shows of `s` is `c` or the one unit of `m`. Its parts say what can still fill (`OrdersOf`), that the venue, the snapshots and the
  position show `m` (`VenueOf`, `ViewsOf`, `PositionOf`), where a task taking `c` to a position stands (`PendingOf`, `EntryOf`), that what is left in the loop's copy of the quotes is not over
  (`CopyOf`), that the loop closes the whole unit (`CloseOf`), that a position missing in a later snapshot is gone (`AgeOf`), and that
  when nothing holds the symbol `m` is settled and a snapshot that shows it still is one of a closed position (`FreeOf`). The last is what lets the next epoch begin: it needs the cooldown, and that a closed
  position is not mistaken for a new one. `ExposureInv`: every symbol is in an epoch, or has strayed or been confused, which last for ever, under the shape of the state (`ShapeInv`: nothing is there before
  it is made, whatever names a position names the filled order that opened it, and what the loop has at hand in each phase of a tick). A step keeps an epoch, starts the
  next (`Decide`), or ends the account of its symbol (`EpochNext`). A close is booked when the venue has confirmed it (`CloseOf`), when its history names the position, or when a later
  snapshot misses it (`AgeOf`): in each case nothing is left of it (`HeldIsOver`).
  `ExposureInv` also holds, with `c` and `m` within the bounds, on all 1 302 820 states of `trade`.

* `StopRulesProofs` - for all prices and settings: no rule moves a set stop against the trade (`StopsRatchet`); the short rules are
  the long ones with prices negated (`SidesMirror`); from break-even on the stop is at the entry or better and never
  beyond the best price seen (`StopsLockAndFollow`, `RStopsLockAndFollow`). The last needs `trail_lock_R` to be at least
  0.5, which nothing enforces. Over `StopOrders`: `StopOrdersTyped`, and `RevivedIsOwnAlways == Spec => []RevivedIsOwn`, by `Ours`: the last position
  entered is the only one the executor can look at, and late answers, records and attach tasks name it or earlier ones.
  `StopsNeverMoveBack == Spec => StopNeverBack`: `Flow` says where an order, a position and its record can be at once, `Numbered` that a number names one stop order, which only the open position's tasks
  carry, and `Bounded` that while no record is torn no stop at the venue is above what the executor, its record or a running task would set next, which `StopsRatchet` only raises.
* `PaperExecutorProofs` - `PaperTypeCorrect == Spec => []TypeOK`, inductive as it stands, for any number of loops. The one
  non-trivial part is that a position's stop stays a price through every look of a pass (`Looks`).
  Assuming `~Overlap`, `PositionsAreBookedOnce == Spec => []PositionLife` and
  `QuoteExcludesPosition == Spec => []QuoteOrPosition`. Neither is inductive. A pass walks a copy, so the invariant says what a copy still
  holds: one loop is not off (`Alone`), entries of the tables are of their symbol (`Tables`), whatever the copy still has
  to visit is still in the table (`Copies`), the symbol whose contract size is awaited stays free (`Asked`: `on_signal` holds a lock,
  and quotes come from nowhere else), and rows and positions match one to one (`Rows`). A step that opens, pops or closes disturbs
  only its own symbol, and `WalkStep`, `DropStep`, `FillStep`, `PassStep` and `CloseStep` say so. `~Overlap` is needed.
  `TradeLifeImplemented == ASSUME ~Overlap PROVE Spec => ImplementsTradeLife`: initial states map to initial states and every action to one of
  `TradeLife` or a stutter. `StopNeverLoosens` (`StopRatchets`) and `StopNeverMissed` (`StopIsNeverPassedOver`) hold for any number of loops: rules only
  tighten (`RulesRatchet`, `LooksTighten`), what hits a stop hits a tighter one (`TighterIsHit`), and a pass leaves a position by one of the
  outcomes of `PosOutcome`. `StreaksKill == ASSUME ~Overlap PROVE Spec => []KillAfterStreak`: the losing streak of `booked` since `run` is the counter the check reads
  (`Streaks`). `BalanceFollowsLedger == Spec => []BalanceIsLedger`, for any number of loops: `Earned` is a recursive function over the rows, so that it exists, is unique
  and grows by the pnl of an added row goes by induction, in the form the provers take: a set of counterexamples would have a least number (`LeastNat`, from `WFMin`).
* `FeedsProofs` - `FeedsTyped`, `NeverDeaf == Spec => []BlindOnlyByRace` and `AppliedWorking == Spec => []AppliedIsWorking`. `Unraced`: at most one task applies
  a set unless `crossed`; `Covered`: at every stage of a connection what is desired is heard, in its batch, or in the hands of an update; `Carried`: a task
  that applies a set carries the working one.
* `ScoringProofs` - `VerdictsMirror`, over all statistics, strategies and overrides, from one lemma per algorithm, filter and mode; from it and the
  invariant that what was scored is a verdict of its statistics (`ScoredRight`) the properties of the run: `SidesAlwaysMirror`, `NoSignalPastFilters`, `OrdersAreSized`,
  and `ScoringTyped`.
* `EngineProofs` - `EngineTypeCorrect`, `RunningEngineIsDriven`, `OneExecutorDrives`, `StopLeavesNothingOpen` and `LivePositionsStayLive`, the five properties of `modes`, for any number of
  requests and executors. None but the first is inductive. `IInv` says that a replaced executor is stopped (`Replaced`), that one task at a time flattens an executor, behind its
  lock (`Locks`), that nothing is under way that stops a running engine, and its executor goes on and has a loop, unless `run` raced a stop (`Orderly`), that without races there is one
  loop, of the executor in place (`OneLoop`, `OwnLoop`), that an order still out when the engine stops is one of an executor that knows or will flatten (`Doomed`, `Leaving`), and that what is
  open is the live executor's of the day, with a flatten to come if the engine is stopped (`Open`).

Model-checked only: the liveness properties (TLAPS does not reason about `ENABLED`). Every safety property of a passing run is a theorem.

## 12. Not modelled

* The arithmetic of the statistics (`aggregator.py`, `book_utils.py`) and the scores: floating-point formulas over sampled books. `Scoring` takes any
  statistics, so nothing about signals depends on how they came about.
* Decoding of messages, HTTP rendering, configuration parsing and validation, signatures and the REST client's transport: input and output. The
  requests that change state are actions.
* Telemetry, candidates and equity rows: written and never read back by the bot. The signal worker of the live executor: the engine calls `on_signal` directly.
* The tables of the private stream: a position they show is one a snapshot shows in `RealExecutor`; that they are not cleared on a reconnect
  (`mexc_private_ws.py:131`) is not modelled.
* `start` beyond the state it leaves, the fair-price poll and the connectivity flags: they only read.
* The Rust port (`rust-bot/`), a second program that shares no code with this one, and the analysis scripts, which run offline.

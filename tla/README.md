# A verification of the scalper

TLA+ models of the scalping data pipeline in this repository, the TLC instances
that check them, and TLAPS proofs of the most important results. Paths are
relative to the repository; core sources are under `crates/core/src`.

    tlc -config MCOrderBookLive.cfg MCOrderBook     one run
    tlc -config MCEngines.cfg MCEngines             another
    tlapm OrderBookProofs.tla                       the proofs

## 1. The system

One process (`crates/app/src/main.rs`) receives market data from Binance (and
MEXC), fans every event out to engines that keep derived state, records the raw
events as Parquet files, and shows everything on an HTTP `/health`. A shell
script on the server posts `/health` to Supabase, where a scheduled function
decides whether somebody has to be told on Telegram.

    streams ──raw──▶ fan-out ──▶ supervisor
                        ├──▶ orderflow, profile, gex, hidden, heatmap
                        ├──▶ orderbook ──REST──▶ exchange
                        │        │ snapshots
                        └──▶ storage ◀┘ ──▶ Parquet ──▶ replay ──▶ raw
    every task ──watch──▶ health ──▶ /health ──▶ heartbeat ──▶ Supabase ──▶ monitor ──▶ Telegram

| Component (source) | State | Operations | Hard part | Correct when |
|---|---|---|---|---|
| Order book (`orderbook.rs`) | levels, last update id, pending deltas, synced / in-flight / awaiting flags, counters | buffer, apply, gap, fetch snapshot, adopt snapshot, replay pending, publish | lost and late messages, await inside a handler, partial failure | a synced book is one the exchange had; it does not go backwards; gaps are answered by resyncs |
| Raw store (`storage.rs`) | buffer, run directory, counters, files | append, flush by size, flush by timer, final flush, replay | crash inside a flush, failing flush and retry, restart | what is counted stays readable; nothing is lost, stored twice or reordered while the run lives |
| Fan-out, supervisor, shutdown (`main.rs`, `supervisor.rs`, `shutdown.rs`, `state.rs`) | bounded channels, task liveness, runtime state, token | route, send, take, heartbeat, cancel, exit | back pressure, cycles of full channels, select races | each receiver gets its events once and in order; no deadlock; Ctrl-C ends the process if the disk answers |
| Monitor (`supabase/functions/monitor-heartbeat/index.ts`, `supabase/migrations`) | one row of state, latest heartbeat | read row, read heartbeat, evaluate, notify, write | any remote call fails, row read before awaits, counters that restart | the last message is the verdict, each told once; silence is reported, but for a message left unrecorded |
| Paper broker (`paper.rs`) | positions, ledger, kill switch | evaluate, submit, mark price | several exits in one tick, limits at their boundary | equity accounts for realised results; no order after the kill switch |
| Execution adapter (`execution.rs`) | open orders, sequence, counters | place, cancel, reconcile | stale reconciliation, reused ids | counters account for open orders |
| Health (`health.rs`) | one cell per engine | set, snapshot | none: independent cells | – |
| Binance, MEXC streams (`adapters/`) | backoff per stream | connect, parse, reconnect | two streams reconnect independently | gaps are visible downstream |
| Order flow (`orderflow.rs`) | deque of trades, samples per window, footprint | observe trade | pruning by the last time while trades come out of order | windows, samples and footprint are those of the whole history |
| Profile (`profile.rs`) | session, interval, bins, sums, carried point of control | observe trade, roll session | session and interval boundaries, ties of the value area | the profile is the session's and the area is tight |
| GEX (`gex.rs`) | spot, last greeks of each option | observe spot, observe option | greeks and spot interleave; zero exposure has a sign | exposure is of the last greeks; flags mean what they say |
| Hidden liquidity (`hidden.rs`) | displayed quantity per price, recent trades, pools, counters | observe delta, trade, ticker | one entry per price for all books; two clocks of pruning | a pull counted is a pull that happened |
| Heatmap (`heatmap.rs`) | book, history of each level, counters | delta, snapshot | levels near the top move while they change | the book is the last write; each level's history balances |
| Historical import (`historical.rs`) | page cursor, refusals, files written | fetch page, retry, write file | page boundaries in one millisecond, 429, kill and repeat | complete but for a cut millisecond, in order, once each |
| Research (`research.rs`, `research_runner.rs`) | price samples, snapshots, labels, splits, report | replay, label, split, validate, regime scan | lookahead, off-by-one at horizons and splits | labels look only ahead; test slices overlap no other slice |
| Server scripts (`ops/alpine`) | none | restart, heartbeat | – | – |

Interaction is by bounded mpsc channels (waiting sends), watch channels (last
value wins), one cancellation token, and for the monitor by rows of a database.
There is no shared mutable memory besides the health cells.

## 2. The modules

| Module | Models | Builds on |
|---|---|---|
| `OrderBook` | the engine task of `orderbook.rs` with exchange, websocket and REST service around it | |
| `BookMirror` | abstract: what a reader of the published book may rely on | |
| `OrderBookProofs` | inductive invariant, safety theorems and refinement | `OrderBook`, `BookMirror` |
| `Storage` | the storage task and its files, through crashes and restarts | |
| `MarketEvents` | the events, their log, and what the engines share | |
| `Orderflow`, `Profile`, `Gex`, `Hidden`, `Heatmap` | one engine each | `MarketEvents` |
| `Engines` | the five engines on one log | the five |
| `Historical` | the import of history with the server, and reading it back | `MarketEvents` |
| `Research` | features, labels, thresholds, walk-forward validation, regime scan | `Orderflow`, `Profile`, `Heatmap` |
| `Backtest` | import or recording, then research or scan | `Historical`, `Research` |
| `Pipeline` | the whole process: channels, fan-out, receivers, supervisor, shutdown | abstracts `OrderBook` and `Storage` |
| `Monitor` | the scheduled function with server, database and Telegram around it | |
| `StorageProofs`, `PipelineProofs`, `MonitorProofs` | safety theorems and type correctness | the module each is named after |
| `EnginesProofs` | the theorems about every property of the engines | `Engines` |
| `BacktestProofs` | the theorems about the import and the labels | `Backtest` |
| `Lemmas` | facts that several proofs share: least elements, selections, sums | `Selections`, `Totals` |
| `Selections`, `Totals` | the elements of a sequence that are in a set; the sum of a map | |
| `PaperBroker` | the simulated broker: admission, sizing, exits, ledger, kill switch | |
| `PaperBrokerProofs` | its inductive invariant and the theorems about every property its run checks | `PaperBroker` |
| `MC*` | the instances that TLC checks | |

### OrderBook
The exchange's history is a sequence `books`; update *i* changes at most one
level. A delta is a range of updates with absolute quantities and the `pu`
link. A snapshot may lag by `SnapshotLag` updates and lists `SnapshotDepth`
levels. Prices are not compared by any sequencing rule, so `Levels` is an
unordered set; best bid and ask are functions of the book. The actions follow
the code's paths:

| Code | Actions |
|---|---|
| `on_depth_delta`, not synced | `BufferDelta` |
| `apply_synced_delta` | `IgnoreDelta`, `ApplyDelta`, `GapDelta` (with `MarkDesynced`) |
| `sync_from_snapshot` up to the REST call, its answer, the send to storage | `FetchOk`, `FetchErr`, `AdoptFetched` |
| `on_snapshot` | `AdoptRecorded` |
| `replay_pending`, both loops | `ReplaySkip`, `ReplayApply`, `ReplayMismatch`, `ReplayDone` |
| shutdown, closed channel | `Stop` |

A handler that awaits is split at the await (`pc`); the replay loop is split
per delta but publishes only at its end, as the code does. `seen` is a history
variable: a book rebuilt from a limited snapshot knows nothing of deeper levels
until a delta names them, and the properties are stated for known levels.

### Storage
Events are numbers. A flush is split into create, failure and close: the file
is truncated by `File::create`, and readable only after `ArrowWriter::close`.
`Crash` can fall anywhere and also stands for `main` dropping the runtime.
`counted` is a history variable of the events some run has added to
`records_written`. `TakeEvent` has no failing `push`: its one error is that of
serialising the event to a string in memory, which derived serialisers of these types
do not raise. `FreshDirs` states that no two runs start in one second.

### Pipeline
Each receiver's channel, the raw channel and the tasks that may be gone. Inside,
the order book may fetch a snapshot at any delta and sends it to the store past
the fan-out. `EngineTake` stands for any of the
five engines, which never wait for anything but their channel. The fan-out
checks the token only between events, and only the supervisor's absence ends it.

`store` is where the store's task is (`StorePlaces`). It may leave at its start, when
it is switched off or replaying (`StoreStart`) or cannot create its directory
(`StoreOpened`), and then the fan-out goes on without it. An event or the timer may make
it flush; a flush, like the creation of the directory, is a synchronous call that holds
its worker thread (`OnDisk`) until the disk answers (`Disk`). That matters at the end:
`main` returns with the supervisor, whatever the others do, and drops the runtime.
A task that waits at an `await` is gone with it, but the drop waits for a worker thread
that is inside a call. `Exit` therefore waits for the store to be off the disk; a stalled
disk keeps the process alive after Ctrl-C. Two things are taken from the runtime:
it has more than one worker thread, so that the others go on while one is in a call, and
what it runs on its blocking threads (name lookups, the file reads of a replay) ends.

### Monitor
Minutes pass between calls, not inside them. A verdict is a state and a set of
reasons with their values, which is what `reasonKey` spells out. Every remote
call may fail; a Telegram reply can be lost after the message is out
(`NotifyUnconfirmed`). `stray` remembers a message whose row was not written. A
heartbeat taken while `/health` was down (`http` false) carries no counter, and
`evaluate` reads it as 0.
The module allows calls that overlap; the run and the proofs are about one at a
time, which is what a schedule of minutes gives. Two that overlap would each tell
and write from their own copy of the row, and nothing in the code orders them.

### PaperBroker
`Submit` is `submit_market_order` with the whole of `evaluate`; `Approved` lists
its refusals, which leave nothing but a count behind. Floating point becomes
whole numbers in 1/`Scale` of a currency unit, and every comparison of quotients
is a comparison of products, so that only the sizing rounds, as `round_step`
does; with a step of zero it leaves the lots as they are. `mark_price` first takes the positions that hit their exit (`MarkPrice`)
and then books them one by one (`Settle`), because the kill switch is decided
after each. `submitted` and `worst` are history variables.

### Engines
An engine is the fold of its handler over its channel, and no engine reads
another's state, so `Engines` gives every event to all five in one step:
`Receive` is the fan-out's routing, each module's `…Receives(e)` is the match in
that engine's task, and the operators under it are the methods of its tracker.
`Pipeline` has the channels in between. A deque of trades is the set of the
trades' positions in `log`; `PopFront` removes from the front only, as the
code does, so that a late trade can keep older ones alive or be cut early.

The environment is the stamp: two streams stamp locally and then queue, so an
event may be up to `Jitter` older than the newest before it. Properties compare
what an engine kept incrementally with a definition over the whole `log`, and say
exactly where the jitter blurs them. In the profile a late trade of another session rolls the
session back, and the next one forward again: `Stretch` is the set of trades since the
session last changed, in either direction, and a bin counts each trade that comes to it
from another interval (`Openings`). Hidden liquidity's least move and least volume are one
price unit, as in the code. `ts`, prices and quantities are whole
numbers; quotients and deviations are compared as products of whole numbers.

| Code | Operators |
|---|---|
| `OrderflowTracker::observe_trade` and its window, sample and footprint updates | `OrderflowReceives` |
| `ProfileTracker::observe_trade`, `roll_session`, `observe_tpo`, `value_area` | `ProfileReceives`, `ValueArea` |
| `GexTracker::observe_*`, `stats`, `gamma_flip` | `GexReceives` and the derived operators |
| `HiddenLiquidityTracker::observe_*`, icebergs, pulls, stop pools, crowding | `HiddenReceives` |
| `HeatmapTracker::apply_delta`, `apply_snapshot`, `set_level` | `HeatmapReceives` |

The live process sends no candles to the engines; they come from imports only.

### Backtest
`Historical` has one action per page, refusal, file and kill. A page of trades
that is refused is asked for again up to `MaxAttempts` times; a page of candles
is not. A kill may leave a file that cannot be read, and the command may be given
again over the same directory. `Research` replays the directory through the same
order flow, profile and heatmap operators as the live engines, which is what the
code does with the trackers, then labels, splits and validates one step at a
time (`ReplayEvent`, `LabelSnapshot`, `PushSplit`, `Validate`). `ScanRegimes` is
the other command that reads a directory. A return is kept in price units, and the stop
distance is one constant, `Risk`.

## 3. The runs

| Run | What it asks | States | Result |
|---|---|---|---|
| `book_live` | lost deltas, stale snapshots, REST failures on a live book | 239,644 | holds |
| `book_replay` | snapshots in the recorded stream, two levels, snapshot of one level, deltas without `pu` | 997,271 | holds |
| `book_fetch_error` | does a desynced book fetch again after a failed call | | no (finding) |
| `store` | crashes, failed flushes, a restart; is what is sent stored in the end | 15,964 | holds |
| `store_same_second` | the same when both runs start in one second | | no (finding) |
| `pipeline` | delivery to each receiver, a store that leaves at its start, progress of every event, Ctrl-C with a hung REST call | 159,534 | holds |
| `pipeline_stalled_disk` | do trades reach the engines while the disk stalls | | no (finding) |
| `paper` | how far the loss can pass its limit; ledger, sizing and kill switch | 24,183 | holds |
| `monitor` | messages, row and alarms with failing calls | 506,644 | holds |
| `monitor_restart` | the no-events alarm when the scalper restarts | | no (finding) |
| `engines` | do the five engines agree with a recount over the history, events out of order | 328,400 | holds |
| `backtest` | imports refused, killed and repeated; lookahead, splits and report of what was read back; does every command end | 200,323 | holds |

What the last two runs ask in detail:

- `OrderflowIsTheTape`: pruning the deque loses no trade of any window that
  leaves room for the jitter, the samples behind the z-scores are those of the
  history, and the footprint is the traded quantity of its bucket.
- `ValueAreaIsTight`, `ProfileIsTheSession`: the area holds its share and neither
  end is superfluous in the order it was taken; counts, volume, the three sums and the
  carried point of control agree with a recount of the trades since the session last changed,
  late trades included; in order these are the whole session, counted once per interval.
- `ExposureIsOfTheLastGreeks`, `GexFlagsAreTrue`: exposure does not depend on how
  greeks and spot prices interleave; staleness is true up to the jitter; a gamma
  flip separates long from short, except that strikes without exposure below a short
  one read as a flip, which the property names.
- `SpoofPullsAreReal`: on one book, pulls counted are exactly the large removals
  without a trade near them, whichever event pruned the trades. With two books
  sharing the entry of a price the code's count means less, and the property
  does not speak of it.
- `HeatmapIsTheLastWrite`: the heatmap never checks a sequence; what it shows is
  the last quantity sent, and each level's counters balance.
- `ImportIsComplete`: after a finished import, whatever failed or was killed
  before, the directory reads back as the range, in order and once each; only
  trades that share the millisecond of a full page's last trade can be missing.
- `LabelsLookOnlyAhead`, `ReportIsSound`: no label uses a price at or before its
  candidate; test slices overlap no other and leave no room for one more; each threshold
  is the best of its training slice; drawdown and regimes recount. That the labels of a
  training slice end before its test slice (a purged split) is not checked and does not
  hold, see section 5.
- `BacktestEnds`: every command that was started ends.

### Bounds
- Books: one level, five updates and a lag of two allow a snapshot, a loss, a gap, a second
  fetch and a stale snapshot in one behaviour; the replay has two levels, of
  which a snapshot lists one, with four updates and two snapshots. A channel of
  one event is enough, since the engine sees one event at a time, and a longer
  one only delays. The proofs hold for all values.
- Store: batches of two, five events, two runs: a full batch, a timer flush of
  a part, a retry on an over-full buffer, and a second run over the files of
  the first.
- Pipeline: channels of one place make every send wait. Three events fill raw
  channel, current event, book channel and storage channel at once, which is
  what a deadlock needs: two deltas, then a delta or a trade, and
  one snapshot that the order book sends to the store past the fan-out. The streams meet
  in the raw channel; the run has one, whose events may be of either stream's kinds,
  and the proofs are for any set of streams.
- Paper broker: two positions at a time and four orders, of which two are sound, one
  is too tight for its costs, one has its stop on the wrong side and one slips
  too far; prices that stop, jump past the stop, and reach a target, so that the
  loss passes its limit with a position still open.
- Monitor: a heartbeat is stale after zero units, no events are reported after one, and
  the clock runs to three, so that the comparison `>` falls on both sides of both limits and
  a server can fall silent, be told down, come back and fall silent again; one market
  event and one restart.

- Engines: four feeds, each rich in the events one group of engines tells apart.
  Tape: four trades, six times, so that windows of one and three and a deque of four
  prune early, late and not at all, over two sessions. Auction: six
  trades over three prices in two intervals, which give every shape of a value
  area with ties. Depth: two venues, one bid level in three sizes and two others, a
  snapshot that reorders, trades within and outside the window of one. Options:
  calls and puts at three strikes before, between and after spot prices, on both
  sides of the staleness limit.
- Backtest: pages of three, files of five, two commands; candle walks of fifteen to
  twenty-four prices made of motifs that break out, return and run on, so that
  training and test slices of two fit several times with trades on both
  sides; trade walks with trades of one millisecond that end at a page and reach
  across it; recordings with a book and a ticker out of order. A scan of three by two
  leaves a remainder.

All runs but `backtest` disable deadlock checking: bounds end every behaviour,
and the process and the store really stop. In `backtest` a stop is a state in
which nothing is left to do (`Over`), and TLC finds no other.

### Fairness
- `Storage!FairSpec`: the task takes events (WF), its timer fires though
  `select!` may prefer other branches (SF; tokio picks at random among ready
  branches), and creating and closing a file succeed again and again unless
  the run ends (SF): the disk is not broken for ever.
- `Pipeline!FairSpec`: tokio runs each ready task (WF); the supervisor's
  `select!` has three branches of which none is starved (SF), nor is the
  store's channel by its timer (SF of `StoreTake`); dropping the runtime stops each worker
  after finitely many steps (SF of `Exit`). Nothing is
  assumed of the sources, Ctrl-C, the flush timer, the disk (`DiskFair`: a call returns, with
  or without success) or the REST service
  (`RestFair`); the properties that need one of the latter say so. `CtrlCExits` needs
  `DiskFair`: without it the process can wait for the disk for ever.
- `Backtest!FairSpec`: a request is answered in the end (WF of the import's steps)
  and a research that runs goes on. The latter is `[]<>~Running \/
  []<><<Analyse>>_vars`, which is weak fairness spelled out, for a step of the
  research is possible exactly while it runs. Nobody has to start a command.
- `Monitor!FairSpec`: the schedule runs for ever and no remote call fails each
  time it is tried (SF). `SilentServerIsReported` excepts a last message whose row
  was never written (`stray`): told down and recorded, told up by a call that fails before
  its row, the server falls silent again, the row agrees with the verdict and nothing more
  is sent.

## 4. What is proved

`OrderBookProofs` proves, for every set of levels and quantities, every lag,
depth, capacity and bound (assumption `OrderBookAssumption`: these are naturals
and Booleans, capacity is positive, quantities are positive naturals):

| Theorem | Statement |
|---|---|
| `TypeCorrect` | `Spec => []TypeOK` |
| `Invariance` | `Spec => []IInv` |
| `PublishedIsReal` | `Spec => []PublishedBookIsReal` |
| `CountersAccount` | `Spec => []ResyncsAnswerGaps` |
| `PendingIsReplayed` | `Spec => []NothingLeftPending` |
| `PublishedAdvances` | `Spec => PublishedBookAdvances` |
| `Refinement` | `Spec => MirrorsTheExchange` |

The properties are not inductive: that a published book is real depends on
every delta and snapshot still on its way. `IInv` therefore has four parts:
`EventsInv` (the exchange's past is fixed, each update changes at most the
levels in `touched`, and every delta and snapshot in the channel, in `pending`
and in `fetched` is true of that past), `BooksInv` (so are the engine's and the
published book), `ControlInv` (where the handler is suspended fixes the flags)
and `ViewInv` (while a synced book is shown, the engine either still has it or
has dropped it with nothing buffered that could make it synced again unseen).
The central lemma is that applying a true delta whose range continues at or
before a true book's id gives a true book. The refinement needs `ViewInv`: a
gap, a fetch and a replay change the book several times between publications,
and the mirror allows only forward steps or a drop in between.

`PaperBrokerProofs` proves all properties of `paper` for every set of orders and
marks and every risk configuration (`PaperBrokerAssumption`: these have their
types, the risk per trade, the loss limit and the rate are positive, and `Scale`
is a multiple of 200, so that half a percent is a whole number):

| Theorem | Statement |
|---|---|
| `TypeCorrect` | `Spec => []TypeOK` |
| `LossCapped` | `Spec => []LossIsCapped` |
| `SwitchRemembers` | `Spec => []KillSwitchRemembers` |
| `LedgerBalances` | `Spec => []LedgerAccounts` |
| `RiskIsLimited` | `Spec => []RiskPerTrade` |
| `SwitchIsFinal` | `Spec => KillSwitchIsFinal` |

`LossIsCapped` says that the realised loss stays below the limit plus the worst
exit of `MaxPositions` positions. It is not inductive, since it does not say how
many of these exits are still to come. `CapInv` does: the loss so far plus one worst
exit for each position still taken stays below that same bound. Closing a
position moves at most one worst exit from the second term to the first, and an
order adds a term only while the switch is off, that is, below the limit. The
step needs `SwitchInv` (while the switch is off the loss is below the limit),
`SlotsInv` (positions being settled still count against `MaxPositions`) and
`Sized` (every position is what a well-formed order opens, so that no exit costs
more than the worst one).

`StorageProofs` proves, for every batch size, capacity and set of seconds:

| Theorem | Statement |
|---|---|
| `TypeCorrect` | `Spec => []TypeOK` |
| `ClosedWithoutHole` | `FreshDirs`: `Spec => []OnlyTheLastFileIsUnreadable` |
| `CountedStays` | `FreshDirs`: `Spec => []CountedIsKept` |
| `NothingIsMissing` | `Spec => []RecordingIsComplete` |

`ClosedWithoutHole` and `CountedStays` need the assumption that no two runs start in the same second;
`store_same_second` shows what happens without it. Neither is inductive: that a flush truncates
no closed file depends on which numbers the run has used (`FilesInv`), and that a batch
is in no other file on where its events have been since they were sent (`QueueInv`).
`NothingIsMissing` needs no such assumption. It speaks of all files of a run at once;
`RecInv` gives each file the last event it holds, so that one file more, or one
written again after a failed flush, changes one entry.

`PipelineProofs` proves, for every set of sources and engines, every capacity and
any number of events:

| Theorem | Statement |
|---|---|
| `OnlyCtrlCEnds` | `Spec => []OnlyShutdownEnds` |
| `ChannelsAreBounded` | `Spec => []TypeOK` |
| `NoEventIsLostOrDoubled` | `Spec => []EachReceiverGetsItsEvents` |

The supervisor also stops when its channel is closed, and the fan-out closes it when
the supervisor is gone; `NobodyLeaves` says that neither goes first, whatever becomes of
the store, whose task may return at any time. Delivery leans on
`PassedOn`: the event in the fan-out's hands is the last that it took, those it has
still to serve all want it, and the order book's snapshots, which reach the store past the
fan-out, never pass through the raw channel.

`MonitorProofs` proves, for every fault, reading and limit:

| Theorem | Statement |
|---|---|
| `TypeCorrectness` | `Spec => []TypeOK` |
| `NoEventsAlarmsAreTrue` | `Spec => NoEventsAlarmIsTrue` |
| `LastMessageTells` | `Calls = {c}`: `Spec => []LastMessageIsTheVerdict` |
| `NothingIsToldTwice` | `Calls = {c}`: `Spec => []NoDuplicateMessage` |
| `ToldBeforeRecorded` | `Calls = {c}`: `Spec => RecordedOnlyAfterSent` |

The last three are for calls of which one ends before the next begins, as in the run.
Between its remote calls the function holds a copy of the row and a verdict; `CallInv`
says what these are worth at each place, `RowInv` ties the message to the row
and to a message that is out and not yet recorded. The alarm needs no such
hypothesis: `AInv` says of every row, every copy of one and every verdict, however
old, that whoever has seen no later event knows of none after the time it gives
(`Known`), and that stays true when more events come. It is about the alarm of a scalper
that has not restarted and whose `/health` answers, as the property is: `monitor_restart`
shows what a restart does, and section 5 what an unanswered `/health` does.

`EnginesProofs` proves every property of the run `engines`, for every feed, every
jitter and every setting, with no bound on the number of events. The
assumptions are those of the modules: the feeds are of market events, windows are
naturals, limits and bucket sizes positive.

| Theorem | Statement | Inductive invariant |
|---|---|---|
| `TheTapeIsWhole` | `Spec => []OrderflowIsTheTape` | `FlowInv` |
| `TheProfileIsTheSessions` | `Spec => []ProfileIsTheSession` | `ProfileInv` |
| `TheValueAreaIsTight` | `Spec => []ValueAreaIsTight` | `ProfileInv` |
| `ExposureIsCurrent` | `Spec => []ExposureIsOfTheLastGreeks` | `GexInv` |
| `FlagsAreTrue` | `Spec => []GexFlagsAreTrue` | `GexInv` |
| `SpoofsAreReal` | `Spec => []SpoofPullsAreReal` | `HiddenInv` |
| `TheHeatmapIsTheLastWrite` | `Spec => []HeatmapIsTheLastWrite` | `HeatInv` |
| `EnginesAreWellFormed` | `Spec => []TypeOK` | all |

Each says that what an engine keeps step by step equals a definition over the whole
log, so each invariant describes the engine's state as a function of the log:

- All of them stand on `LogInv`: no event is older than one before it by more than the
  jitter.
- `DequeInv` is what pruning leaves: the deque is an end of the list of trades, not
  empty once there was a trade, and each trade it lost is older than some trade by more than
  the window. A window that leaves room for the jitter therefore misses none. For
  the samples behind the z-scores `FlowInv` names the trades in their order
  (`Enumerates`), so that the last sample belongs to the last of them.
- `ProfileInv` speaks of the trades since the session last changed (`Stretch`). A trade
  of another session, later or late, starts a new stretch from nothing, and the carried point of
  control is that of the stretch before. While events come in order the trades of a session follow
  one another, so the stretch is the whole session.
- The value area is a computation and not a state: `GrowthSteps` unfolds its loop,
  and each pass keeps that the range holds the point of control, adds up to the
  opportunities counted, and was short of the target before its last bin.
- `GexInv`: the map of options holds the last greeks of each key and the spot is that of the last
  price, whichever came first; exposure is recomputed from both.
- `HeatInv` compares the book at each price with the last level sent since the last
  snapshot. A snapshot reorders sides and a delta may name a price twice; `LevelsOf`
  is the list that decides.
- `HiddenInv`: on one book the displayed quantities are what the last delta naming each price
  says. The pulls counted lie between those without a trade in the window and
  those without one in the window less the jitter.

`BacktestProofs` is about the system `Backtest`, the import and the research that
reads what it left, for every history whose records have ascending times and
identifiers, every recording, every page and file size and any number of refused,
killed and repeated imports (`HistoricalAssumption`, `ResearchAssumption`):

| Theorem | Statement | Inductive invariant |
|---|---|---|
| `TheImportIsComplete` | `Spec => []ImportIsComplete` | `DirectoryInv` |
| `NoLabelLooksAhead` | `Spec => []LabelsLookOnlyAhead` | `DirectoryInv`, `LabelInv` |
| `TheReportIsSound` | `Spec => []ReportIsSound` | `DirectoryInv`, `LabelInv`, `ReportInv` |

- `ImportInv`: what is fetched before the cursor is everything before it but the
  records that share the opening time of a full page's last record (`FetchedIs`), and the
  files are batches of it. An import that is given again may find more files than it will
  write; that none is left over needs `OneEnd`: two imports of one history end with the
  same records, because each page follows from the cursor alone (`Reaches`).
- `LabelInv`: every snapshot still to be labelled was taken at a sampled price, and every label is true of the
  prices. It is inductive because no price is added once the first label is
  made. The step is `LabelIsTrue`: the code's loop, which runs through all samples and
  updates six fields in place, knows after n samples what `Knows` says in closed form, and what holds of the
  listed samples holds of the samples themselves, since the list keeps their order.
- `ReportInv`: until the command is over the report has neither results nor a scan, and
  the splits made so far judge by one stretch of labels, ending where the next split would
  test from (`SplitsAre`); a split more keeps that, and when none fits the slices are what
  the report promises. What one step then computes is about operators: comparing
  expectancies as products is an order, so a best threshold exists and the one chosen is no
  worse than any other, traded or not (`ExpectanciesAreOrdered`, `ChosenIsBest`); the running
  drawdown is the deepest fall (`DrawdownIsDeepest`); a sum is the sum over the kinds, in
  any numbering (`SumByKind`, `SumRenumbered`, `RegimesShare`); the windows that fit are the
  first ones, and fewer prices than a step has are behind the last (`ScanCovers`, which needs
  that the files are read by time). That returns are whole numbers rests on `LabelInv`:
  each is read off a price.

An induction over data is done by the least counterexample: `LeastElement` (of a set
of naturals) and `LeastSet` (of finite sets) in `Lemmas` replace the library's
induction theorems, whose operator parameter the provers cannot instantiate. A
recursive function in a definition is first given a name by its equation
(`Selects`, `Sums`, `GrowthSteps`), shown to be unique, and then used step by step. For the same
reason the models select with `Only` of `Selections`, where a proof must look into a selection,
and not with `SelectSeq`.

Not proved, and left to TLC:

- what is true under fairness only (`EventuallyStored`, `EveryEventIsHandled`,
  `CtrlCExits`, `SilentServerIsReported`, `BacktestEnds`): the provers do no
  liveness under fairness and no ENABLED.

Every other property of a passing run — invariant, action property or refinement — is stated
by a theorem.

## 5. Disagreements with the documents

Shown by a run: the in-flight flag that survives a failed REST call
(`orderbook.rs:316`), run directories of one second (`storage.rs:503`), the
fan-out that waits for the disk (`main.rs:558`), the restarted event counter
(`index.ts:195`).

Read off the code while modelling, without a run:
- `flush_errors` is never incremented (`storage.rs:335`), though the monitor
  raises an alarm from it (`index.ts:170`).
- A failed flush leaves an unreadable file (`storage.rs:304`), and one such file
  fails the reading of its directory (`storage.rs:165-183`); the roadmap says
  each flush closes a valid file (`docs/implementation-roadmap.md:33`).
- After the first event the supervisor shows `PAPER_READY` for ever
  (`supervisor.rs:47`); `stale_after` is never read.
- `main` does not join the storage task (`main.rs:308`), so its final flush may
  not run.
- With `/health` down the monitor reads the event counter as 0, so a long outage of it
  is also told as "no market events", though events may flow (`index.ts:191-200`).
- After "up" was sent by a call that failed before its row, a server that falls silent again
  matches the row that still says down: nothing is sent, and the last message stays
  "up" (`index.ts:40-49`).
- A stalled disk keeps the process alive after Ctrl-C: dropping the runtime waits for
  the worker inside the flush (`main.rs:123`, `storage.rs:303-308`).
- A replay must give the same state, features and decisions as the live run
  (`docs/scalping-amt-gex-orderflow-spec.md:1576-1587` and `1716`,
  `docs/implementation-roadmap.md:45`), but it hands the events over sorted by local time
  (`storage.rs:181`), which is not the order each engine took them in.
- `docs/project-memory.md:52-61` describes research that this commit does not have: classification
  of regimes by bucket closes of a minute, splitting of histories at gaps of five minutes, book
  imbalance as a condition of short breakouts.
- A message whose row could not be written suppresses the recovery message when
  the fault clears before the next call (`index.ts:45`).
- `reasonKey` holds measured values, so a moving gauge sends a message each time
  (`index.ts:321`).
- `max_weekly_loss_brl` is never read, and the daily limit is compared with the
  result since the broker was created (`paper.rs:211`).
- `walk_forward_splits` does not advance with `--test-size 0`, which the command
  line accepts (`research.rs:189`, `main.rs:57`); `ResearchAssumption` leaves
  that size out.
- The specification asks for a "purged time-series split"
  (`docs/scalping-amt-gex-orderflow-spec.md:1055`); the labels of the last
  candidates of a training slice are decided by prices within the test slice.
- A strike without exposure below a short one reads as a gamma flip
  (`gex.rs:228`), since `signum` of a sum of zero is 1.
- A trade stamped before the session boundary that arrives after one stamped behind it
  rolls the profile back to an empty session, and the next one forward again
  (`profile.rs:148`), so that what is shown is the part of the session since the last such
  roll; `ProfileIsTheSession` says exactly that part.
- Bids, asks and both venues share one displayed quantity per price, so a delta of
  one venue can count as a pull of the other's (`hidden.rs:155`).
- Writing a named run again with fewer batches leaves the later files of the
  first writing in the directory (`storage.rs:198`).
- The REST client has no timeout (`orderbook.rs:378`).

## 6. Plan

1. Done: `OrderBook`, `PaperBroker`, `Storage`, `Pipeline`, `Monitor` and the five
   engines, import, research and scan, with proofs of all that their runs check but
   liveness.

## 7. Not modelled

- The execution adapter: no part of the process calls it, so there is no caller
  whose protocol a property could be about.
- The options poller: `main` does not start it. Its events are in `Engines`.
- The reconnect loops: they keep no state but their delay, and their effect is the
  environment of `OrderBook` (lost deltas) and `MarketEvents` (jitter).
- Health cells, latency averages, HTTP server, signing, command line, loading of
  the configuration, shell scripts, parsing and formatting of JSON.
- What is computed for display from modelled state and decides nothing: window
  ratios and footprint extremes, volume node labels, walls and micro price, GEX walls,
  regime and vacuum, hidden liquidity scores, who leads and lags, averages that the
  research report prints.
- The server-side reasons of the monitor other than memory, which have its form.
- Floating-point rounding.

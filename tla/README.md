# Formal model of the Elliott-wave trading backend

TLA+ modules, TLC configurations and TLAPS proofs about `backend/app`, the
FastAPI backend that watches Binance candles, derives trade setups from them,
executes the setups on the Binance Spot testnet and simulates them on paper.
All paths below are relative to `backend/app` unless they name a top-level file.

## The system

One process runs one asyncio loop. Database access is synchronous SQLAlchemy:
the code between two `await`s cannot be interrupted by another coroutine, and
everything else may happen at an `await`. Handlers declared with `def` (the
control panel, `reject`, the paper-forward API) run in a thread pool, so they are
atomic only as one database transaction. State that must survive lives in
PostgreSQL; the process keeps only the local variables of its coroutines. The
exchange is reached by REST requests that time out, and reports back through a
websocket (the user-data stream) that loses everything while it is disconnected.

| Component | State | Operations | Hard part | What makes it correct |
|---|---|---|---|---|
| Bot control (`api/bot.py`, kill switch of `api/execution.py`) | the `bot_runtime_state` row, the ledger's kill switch | config, start, resume, stop, pause, emergency stop, kill switch on and off | two switches, read by different callers | nothing restarts the bot after an emergency stop; a set switch stops new orders |
| Order entry (`execution/orchestrator.py`, `service.py`, `binance.py`, `api/execution.py`) | setup status, order rows, coroutines between awaits | handoff, approve, execute, reject, cancel, reconcile | overlapping handoffs, an open transaction across awaits, answers that are lost | a setup or a fingerprint window is sent once; unknown outcomes stay on record |
| User-data stream (`services/binance_user_stream.py`) | fills, position, protective rows | one event at a time | repeated, late and lost events, rows that are not committed yet | a fill counts once; books never run ahead of the exchange |
| Protective exits (`execution/protection.py`) | position stage and stop, bracket and guard rows | establish, advance, reconcile | two tasks at one position, failing guards, late events of an old stage | one order list per stage; a protected position is covered; one stage per filled target |
| Position reconciliation (`execution/reconciliation.py`) | positions | reconcile_all, every minute and on request | a balance and a position read before three awaits, written after them | a position never grows |
| Paper forward (`trading/paper_forward.py`) | one simulated trade per setup | process a candle, backfill | late candles, replays | quantities add up, the stop wins, results are final |
| Candle history (`services/historical_backfill.py`, `historical_sync.py`, `market_data/*`, `repositories/market.py`) | the candles table, snapshots | stream, backfill, synchronize, analyse | stale pages, holes, a clock boundary, restarts | a closed candle stays closed; "completed" means covered |
| Manual close (`execution/position_close.py`) | close orders, positions | close | awaits between the check and the send, fills counted by two readers, a crash half way | one order is prepared at a time; its fills count once; nothing is left blocking |
| Market analysis (`services/pipeline.py`, `structure/`, `fvg/`, `smc/`, `elliott/`) | swings, breaks, gaps, order blocks, pools, sweeps, wave counts | analyse a closed candle, recalculate, rebuild | candles that are late or analysed again, rows that live for many candles | one row per key; one sweep per pool; one primary count; nothing rests on a later candle |
| Setups and paper trading (`services/pipeline.py`, `trading/paper.py`, `api/routes.py`) | setups, paper positions, the paper account | create, live, hand over; paper trade, cancel, close, reject, reset | a setup with two lives, partial exits, fees | one setup per event; an ended setup stays ended; the balance is what was realized |
| Back test (`trading/backtest.py`) | none | simulate the setups of the stored candles | three time bounds per trade | no look-ahead, one trade at a time, none left out |
| Strategies and indicators (`strategies/`) | none | signals of closed candles | numeric | not modelled |
| Authentication, API listings, settings, logging, frontend, migrations | | | | not modelled |

How they interact: the market stream stores a candle and calls the pipeline;
the pipeline creates and drops setups, feeds the paper simulation and hands
ready setups to the executor; the executor and `/execute` place an order; the
user-data stream turns its events into fills and a position and awaits
`establish()`; the events of protective orders move the position on through
`advance_stage()`; admins call the same coroutines concurrently over HTTP; the
backfill and the synchronization fill holes of the candles table and start the
analysis of what they stored.

`PROJECT.json` lists every component with its status, and every hazard of the
code at its line with the property that watches it or the reason none does.

## Modules

| Module | Models | Run by |
|---|---|---|
| `BotControl` | the control panel; one action per endpoint | part of `EntryExecution` |
| `EntryOnce` | what order entry promises: claim once per window, send once | property of `entry_window` |
| `EntryExecution` | executor, `/execute`, approve, reject, cancel, `/execution/reconcile`, entry half of the user stream, exchange, faults | `MCEntryExecution` |
| `MCEntryExecution` | the instances: two setups of one symbol, or of two | |
| `EntryExecution_proofs` | the theorems about `EntryExecution` | TLAPS |
| `Protection` | establish, advance_stage, reconcile, reconcile_all, protective half of the user stream, the order lists of the exchange | itself |
| `Protection_proofs` | the theorems about `Protection` | TLAPS |
| `PaperForward` | the paper simulation of one setup and its feeders | itself |
| `PaperForward_proofs` | the theorems about `PaperForward` | TLAPS |
| `CandleHistory` | candles table, market stream, backfill, synchronization, incremental analysis | itself |
| `CandleHistory_proofs` | the theorems about `CandleHistory` | TLAPS |
| `ManualClose` | `close_position()` beside all of `Protection`, the stream's close-order events | `MCManualClose` |
| `ManualClose_proofs` | the theorems about `ManualClose` | TLAPS |
| `PaperTrading` | setups after their detection, paper positions and account, the back test's choice of trades | `MCPaperTrading` |
| `PaperTrading_proofs` | the theorems about `PaperTrading` | TLAPS |
| `MarketStructure` | detectors as operators: pivots, breaks, gaps, order blocks, pools, sweeps, mitigation | part of `MarketAnalysis` |
| `ElliottCounts` | wave rules, candidates, ranking, recalculation | part of `MarketAnalysis` |
| `SetupGeometry` | zones, stops, targets, validation, the choice of a wave strategy | part of `MarketAnalysis` |
| `MarketAnalysis` | one analysis of one candle over all derived tables, recalculation, rebuild | `MCMarketAnalysis` |
| `MarketAnalysis_proofs` | the theorems about `MarketAnalysis` and the operators it is built from | TLAPS |
| `Sums`, `Orders` | sums over a range of numbers; a finite set in the order of a relation | used by the models |
| `Recursion` | induction, recursive functions, sums and orders, as lemmas | TLAPS |

`ManualClose` extends `Protection`; `MarketStructure`, `ElliottCounts`, `SetupGeometry` and
`MarketAnalysis` extend each other in this order, as the pipeline's stages do.

### EntryExecution

`setupStatus`, `order`, `fills`, `position` are the database; `order[s]` is
"none" until the row is *committed*. `pc`, `target`, `manual` and `resp` are the
coroutines. A handoff is `begin -> market -> submit -> test -> place -> ack`, each label
naming what it does or awaits next: `HandoffBegins` is the first transaction
(lines 171-210), `HandoffClaims` the second one, which evaluates every gate
again and inserts the row, `HandoffSubmits` the third, `PlaceOrder` the request
itself, which the exchange may take or not, `RecordAck`, `OutcomeUnknown`,
`OutcomeRejected` and `OutcomeException` the answer and the error handlers.
`/execute` uses the same labels inside one transaction. It locks the setup with
`FOR UPDATE`, so `Holds`, `RowFree` and `Uncommitted` say whom it blocks, and
`LoopHangs` is what happens to a coroutine that waits for it: the driver is
synchronous, so the whole loop stops, and nothing but a crash ends that.
`sends` is a history variable: the `place_order` calls of handoff tasks. The
exchange is `accepted`, `traded`, `left` and the socket `wire`.
Checks of prices, sizes and balances only refuse more often; `HandoffSkips` and
`ExecuteAborts` may always be taken instead.

`EntryOnce` sees `claimed`: "sent" once `place_order` was called, "claimed" while a row
exists. The promise is about handoffs. An `/execute` request of its own has the
same unique keys, but its row is rolled back when the process dies after the
exchange took the order, so the number of its sends is not bounded by one and
`sends` does not count them.

### Protection

`pos` and `rows` are the `LivePosition` and its `ProtectiveOrder`s, `pc` and `loc`
the coroutines: the stream consumer, which awaits `establish()` itself, and
admin requests. Each await has two labels, before the request is served and
after, so the exchange may change between an answer and its use. The
transactions are operators on `db = [pos, rows]`, which lets `advance_stage()`
call `establish()` within one action as the code does. `reconcile_all()` reads the
balance, runs `reconcile()` and its advance inside (`loc[t].all` brings it back),
remembers the position it then reads (`loc[t].seen`) and, after its awaits, writes
the attributes that differ from it (`Written`, as the ORM's session does). Quantities are lots; the
slice of a target is one lot, a guard covers the rest. `oco` and `guard` are the
exchange's orders, `Free` the free balance `account()` answers.

### PaperForward

Prices are levels: stop < entry < targets, which `validate_geometry`
guarantees. `Analyse` is the pipeline's or the analysis backfill's processing
of one stored candle, in any order; `Backfill` replays a window.
`trade.exits` is a history of the exits, which the code keeps only as sums.

### CandleHistory

Candles are numbers; `now` is forming. `run` and `sync` are the two services'
coroutines. Code without an `await` (planning the ranges, storing a page,
`verify()`, the analysis) is one action with the step that leads to it. The exchange serves a page
in one step (`BackfillServed`, `SyncServed`) and the coroutine parses it in a later one: `normalize_kline`
calls a candle closed by the host's clock at that moment (`HasClosed`), which may run ahead of the
exchange's by `Ahead` candles. A row therefore says more than closed or not: "closed" has the figures the
candle closed with, "early" is marked closed with figures of a candle that was still forming.
`halted` are candles the exchange does not have, any set of them. A failing analysis of a
candle is logged and skipped, and costs one of `MaxFaults`.

### ManualClose

`orders` are the rows of close orders with the trade ids booked on them, `market` what
the exchange did with each, `cpc` and `cloc` the requests. A close is
`cancel -> canceled -> account -> accounted -> send -> placed`, then `lookup -> found` if
its outcome is unknown. `ProtectionStep` is everything `Protection` does, so brackets fill,
fail and are replaced between any two awaits. `CloseBegins` is the first transaction with its
look for another order (`BlockingCloses`); `CancelsNext` the loop over the protective rows, which are read once, when the close begins
(`ProtectionsToCancel`);
`ApplyResponse` and `StreamCloses` the two readers of the fills. Some steps of the code a
reader may not expect are steps of the model: a row without an order list id (a
guard, or a bracket that is not acknowledged) makes the close raise after it has canceled
other lists; a NEW event that comes late makes a filled order "acknowledged" again and blocks
later closes; `/execution/reconcile` selects its rows before it awaits the exchange (`ReconcileSelects`)
and writes "reconciled" over whatever those it found say by then (`ReconcileCommits`); a crash leaves "submitting" behind; `get_order` lists no trades, so an answer that
was looked up is booked twice (`looked` remembers it, and `ManualFillsCountOnce` excepts it).

### PaperTrading

A setup row, a paper position and the account, for one symbol and timeframe. `Analyse` is
the part of `process_closed_candle` after the detectors: what is decided of each strategy's
candidate, the lifecycle of the rows created before, the hand-over, then every paper
position, in one transaction; its parameters are what the detectors say, any of it. Each request of the
API is an action. Prices are levels, quantities tenths of the first one, so 30 %, then four
sevenths of the rest, then all of it are whole numbers, and money is counted exactly.
`routed` records the calls of the executor. There is one timeframe and the policy "stop_first":
`process_paper_candle` selects positions by symbol only (`trading/paper.py:58`), so in the code candles of
every timeframe move them, and the policies `target_first` and `skip_ambiguous`, like an analysis without
trading side effects, are left out. `EndedStaysEnded` is about the analyses and requests of this
module: the executor writes the setup's status after its awaits without a look at it
(`execution/orchestrator.py:313`), which is a step of `EntryExecution` and a hazard without a property. `BacktestTrades` is `run_backtest()` as an operator on the
setups and candles there are: `BacktestInOrder` says that it never looks ahead, holds one trade
at a time and leaves no setup out whose zone was touched while the book was free. What the model shows and no property forbids: a position
whose targets are used up before its quantity is never stopped (`trading/paper.py:93`), and `reject`
looks for a status "paper_traded" that nothing writes (`api/routes.py:591`), so the setup of a waiting
position may be rejected and triggered afterwards.

### MarketAnalysis

Every table is a sequence of rows, a row's id is its place. Each detector is an operator from
the candles stored so far and the tables before to the table after, and `Analyse` composes
them in the pipeline's order, so that a sweep may be confirmed by a break of the same candle.
Scores and confidences are parameters of the step: a score for each sweep that is decided, also for that
of a pool found by the same analysis (`Judgements`), a confidence for each shape and end of a count. A status is written
to a pool when its sweep is found or decided and at no other time (`PoolsSwept`), so `PoolFollowsSweep` says
that nothing later parts the two. The key of a count has its direction, which the code's
`pattern_type` carries (`SameCount`). `CandleStored` leaves up to `Missing` candles out that are
filled in later, which is how a candle is analysed after newer ones. `Analyse` leaves out the early returns
for a symbol or timeframe that is not enabled and for inconsistent prices: it need not be taken. A candle is any four numbers
whose low and high bound the others (`AnalysisAssumption`). The rows a query selects are a set of ids;
where the query has an `ORDER BY`, `Ordered` of `Orders` makes it a sequence (`ByDetection`, `Ranked`).
`RecalculateElliott` is the endpoint, `DeleteDerived` the rebuild's deletion. The query of `_zone` has no order, so any
zone that fits may be taken. A candidate sweep and an active count are selected without a time
bound (`services/pipeline.py:436`): a late analysis may confirm a newer sweep or invalidate a newer
count, although README.md:137 calls the stage candle-close causal. `NoFutureLeak` is asked of what an
analysis adds. A partially mitigated zone may become active again, and an invalidated count keeps
its rank, as in the code.

## Runs

| Run | Question | Bounds | Result |
|---|---|---|---|
| `entry_overlap` | Can a setup be sent twice, put back, or its fills counted twice? | 1 setup, 2 handoffs, 1 `/execute`, 2 lots, 1 operator command, 1 fault | holds, 1.8 million states |
| `entry_window` | Does the executor implement `EntryOnce`, and does every handoff end? | 2 setups of one window, 2 handoffs, 1 fault | holds, 0.1 million states |
| `unknown_outcome` | Is an order the exchange took ever on record as failed? | 1 setup, 1 handoff | **violated** |
| `protection_stream` | Is the position covered, placed once, never oversold? | 3 targets, stream and 1 admin, 1 request, 1 fault | holds, 0.3 million states |
| `protection_reconcile` | Is a stage bracketed once, and does pending end, with `reconcile()` or `reconcile_all()` racing the stream? | 2 targets, 3 lots, 1 reconciling task, 1 fault | holds, 0.1 million states |
| `protection_balance` | Does a position ever grow? | 2 targets, 2 lots, 1 `reconcile_all()` | **violated** |
| `paper_forward` | Do quantities add up, does the stop win, is a result final? | targets 1 and 3, 4 candles in any order, 1 replay | holds, 3.1 million states |
| `candle_history` | Does "completed" mean covered, is a closed candle safe, does a backfill end? | 3 candles, pages of 2, 2 runs, 1 fault | holds, 0.7 million states |
| `candle_analysis` | Is what was synchronized analysed? | 4 candles, 1 run | **violated** |
| `manual_close` | Is one close prepared at a time, counted once and never left blocking? | 2 requests, 2 closes, 2 targets, 2 lots, 1 fault or reconciliation | holds, 4.8 million states |
| `paper_trading` | Do setups end for good, are they unique, does the money add up, is the back test causal and complete? | 2 setups, 3 markets of 4 candles, 5 analyses, validity of 2 candles | holds, 1.8 million states |
| `market_analysis` | Do all derived tables keep their keys, references and statuses? | 5 markets of 8 or 9 candles, 1 candle missing, 1 in arrears, 1 late or repeated analysis, recalculation or rebuild | holds, 0.1 million states |

Why the bounds are enough to be interesting. Two handoffs are what it takes for
every race between the two lookups of a handoff; the proofs cover any number.
Two lots give a partial and a final fill. One fault is a crash, a disconnection
or a repeated event at any point. Two targets are the least with a change of
stage, three the least with a guard after the first change. Four candles with
two targets give a target, a breakeven stop and a late candle between them. Pages
of two over three candles give a full page, a short page and a hole inside and
at either edge. Two requests and two closes are the least with one that waits for the other,
and one after it. Four candles with a validity of two give all three targets one after the
other, a candle of stop and targets at once, a candle past the expiry, a late one, and
back-test trades that last for several candles or start where one has just left. The markets of `MCMarketAnalysis` are written so that the rare cases
happen: equal lows that are swept before a break, five waves and the break of their trend, both
with their mirror images, and a triple bottom; pivots need one candle on each side. A `wave_3`
setup needs a longer market and is not reached, nor is an "expired" sweep, which the code
cannot reach unless sweeps expire before their confirmation window ends.
Every bound is a named constant (`MaxOps`, `MaxFaults`, `MaxRequests`, `MaxReplays`, `Bars`,
`Last`, `Limit`, `MaxRuns`, `MaxQueue`, `MaxCloses`, `MaxSetups`, `MaxAnalyses`, `Backlog`,
`Missing`, `MaxExtra`, `Feeds`, `Scorings`, `Graded`), and so is the clock's lead, `Ahead`.
Deadlock is not checked: when the bounds are used up, and when no order is
open, these systems rest.

Every property of a passing run has a mutant beside the definition it changes
(`...Mutant:` comments): the run refutes the property when the mutant replaces
the definition.

### Fairness

Weak fairness is assumed of the coroutines' own steps only: the loop
schedules a ready coroutine again, and every request has a timeout
(`execution/binance.py:31`, `market_data/binance_rest.py`). Nothing is assumed of
the operator, the exchange, the market or faults. `HandoffEnds` excepts a loop that
hangs, because the code lets it; `PendingEnds` excepts a crash, after which only an
admin repairs the position. `BackfillEnds` needs no exception; in `CandleHistory` only the
steps that succeed are fair (`BackfillProceeds`, `SyncProceeds`: a request is answered, its page is
stored or skipped), so a request that may fail need not.

### What the violations show

1. `unknown_outcome`. README.md:266 says unknown outcomes are persisted and
   reconciled. An answer that breaks off (`httpx.RemoteProtocolError`) or is not JSON
   is no `BinanceError`; the generic handler records "failed", which reconciliation
   never selects.
2. `protection_balance`. `reconciliation.py:113` never increases a position. A guard's
   fill is on the wire when the balance is read; the stream books it, and the last
   leg, while `reconcile_all()` awaits the open orders; the smaller of the old balance
   and the old position is then written over the closed position.
3. `candle_analysis`. `historical_backfill.py:253` says synchronization and analysis
   advance together; analysis starts at the latest snapshot and skips older
   candles that were just filled in.

Four more disagreements have an instance beside the runs, to be checked by hand:

- `EntryKill.cfg` with `MCEntryExecution`, `KillSwitchBlocksNewOrders`. README.md:266 says the
  global kill switch blocks new orders. The emergency stop sets
  `bot_runtime_state.kill_switch_enabled`; `/execute` looks at the ledger's flag only.
- `ProtectionAdvance.cfg` with `Protection`, `AdvanceOncePerTarget`. `reconciliation.py:39` calls
  the repair idempotent; `reconcile()` advances the stage although the stream has done so.
- `PaperReplay.cfg` with `PaperForward`, `OneExitPerCandle`. README.md:284 promises one exit event
  per candle; the replay processes candles the trade has already seen.
- `CandleEarly.cfg` with `CandleHistory`, `ClosedIsFinal`. README.md:276 says that the engine uses only
  closed candles. A page is served while its last candle forms and parsed after that candle has closed, so
  its unfinished figures are stored as closed, and if the stream has not stored the candle yet, it is
  this row that is analysed. No clock has to be wrong for it; one that runs ahead (`Ahead > 0`) does the same.

A fifth, `ProtectionCovered.cfg` with `Protection`, `ProtectedIsCovered`, contradicts no document but
shows where that property ends, which is why `protection_reconcile` does not check it. A target's
fill is on the wire when `reconcile_all()` reads the balance and cuts the position to it; the stream then
subtracts the fill again, the next bracket is for one lot of the two that are left, and the
position is called protected. It takes three lots: with two the double subtraction closes the
position.

## Proofs

`EntryExecution_proofs` proves, for any finite or infinite set of setups, tasks and
any limits that satisfy `EntryAssumption` (tasks of the two kinds are distinct, a
window lies within one symbol, bounds are naturals):

- `TypeCorrect`: `Spec => []EntryTypeOK`.
- `SubmissionInvariant`: `Spec => []SubmissionInv`.
- `OneSubmission`: `Spec => []AtMostOneSubmission`.
- `EntryImplementsPromise`: `Spec => SubmitsOnce`, the refinement of `EntryOnce`.
- `EmergencyStopIsFinal`: `Spec => []EmergencyStopHolds`.

The argument. "Nothing is sent twice" is not inductive: it needs to know why the
task at `place` may send. `SubmissionInv` says who owns a row. A task between the
insert and the send (`OnTheWay`) has a committed row that was not sent
(`RowOwned`) and is the only one with it (`OwnedByOne`); rows of one window are one
(`OneRowPerWindow`); a sent row never disappears (`SentOnce`); an `/execute` request
that has inserted but not committed is alone in its window, so that its later
commit does not create a second row (`UncommittedAlone`); and `/reconcile` writes
only rows that existed when it selected them (`SelectedExist`). `HandoffClaims` re-establishes
`OwnedByOne` and `OneRowPerWindow` by the two checks it makes in the transaction
that inserts; every other action leaves the table's domain of rows alone or only
commits an inserted row. The proof has one lemma per group of actions, with one
step per action. The refinement maps `HandoffClaims`, and the commits of
`/execute`, to `Claim`, `PlaceOrder` of a handoff to `Send` and the rest to
stuttering. TLC checks `SubmissionInv` and `SubmitsOnce` on the instances first.

- `EachFillOnce`: `Spec => []FillsCountOnce`.
- `SubmittedForGood`: `Spec => NeverUnsubmitted`.

Fills: an event on the wire names a trade the exchange has made (`FillsInv`), and the stream books it
under its key, so a repeated or late one changes nothing, and the position is the sum of distinct trades. Only
`HandoffSubmits` writes "submitting" (`OnlySubmits`), and the task that takes it owns a row that
was not sent (`OnTheWay`, `RowOwned`).

`CandleHistory_proofs` proves, for any number of candles, any page size, any halted
candles and any bounds that satisfy `HistoryAssumption` (all naturals, pages not empty):

- `HistoryInvariant`: `Spec => []HistoryInv`.
- `TypeCorrect`: `Spec => []HistoryTypeOK`.
- `ClosedCandlesStay`: `Spec => NeverDowngraded`.
- `CompletedCovers`: `Spec => []CompletedIsCovered`.

The argument. A row may only be called closed once the host's clock has passed
it, and the three writers learn of a candle at different times: from a message
that waited on the socket, from a page that was served earlier, from pages that a
synchronization kept while it fetched the next ones. So the invariant says of
messages and kept candles what it says of rows:
they are `TimelyCandles`, which the clock can only make more of; and of a page that waits to be parsed that all its
candles have opened (`TimelyPage`, `ServedIs`), which is what parsing needs (`ParsedTimely`). `upsert_candle` keeps a
closed row (`UpsertKeeps`, `UpsertAllKeeps`), which is `ClosedCandlesStay`. A backfill writes
"completed" in one action with `verify()` (`ContinueKeeps`), and what was covered then stays
covered because closed rows stay. That the earliest and latest candle, the last one
of a page and the first missing range exist at all is proved from the
well-foundedness of the naturals (`LeastNumber`, `GreatestNumber`).

`Protection_proofs` proves, for any number of requests, any lots and up to three targets
(`ProtectionAssumption`; reconcilers are some of the requests):

- `PlacedInvariant`: `Spec => []PlacedInv`.
- `OneListPerStage`: `Spec => []PlacedOnce`.

The argument. Before `place_oco_order` is awaited, a bracket row of the stage is
inserted, and its client order ids are unique per stage. So a stage has one bracket
row (`OneBracket`), a task at `place` holds the row of a stage that was never placed
(`PlacersOwn`), two such tasks hold different rows (`PlacersDiffer`), and a placed
stage keeps its row (`PlacedHasRow`), which is why a call after a crash is stopped by
the unique key. All other transactions write statuses or add guard rows
(`Grown`): `Establishing`, `Advancing` and `Reconciling` have one lemma each, and
`QuietStep` lifts them to steps. Quantities play no part.

- `QuantityInvariant`: `Spec => []QuantityInv`.
- `ProtectionTypes`: `Spec => []ProtectionTypeOK`.

`QuantityInv` adds what is in range at the desk (`DeskInv`: rows, position and each task's locals, with what a
task carries over an await) and at the exchange (`ExchangeInv`: what is sold and what live orders lock
is never more than was bought). A placement is taken only if the balance is free, a cut of the position or a
slice is never negative, and a guard's quantity is what its task found.

- `TheBooks`: `Spec /\ [][NoCorrection]_vars => []Books`.
- `SoldWasSold`: `Spec /\ [][NoCorrection]_vars => []SoldIsSold`.
- `OnlyCorrectionIncreases`: `Spec /\ [][NoCorrection]_vars => NeverIncreased`.
- `AdvancedOnce`: `Spec /\ [][NoReconcileCloses]_vars => []AdvanceOncePerTarget`.
- `StreamAlone`: without reconcilers, `Spec` alone implies these three properties.

`Books` counts the fills that the stream has yet to consume (`Along(FillLots, wire)`): what the books say
was sold, with those, is no more than the exchange sold. `StageBooks` says the same of stages and target
hits. Every step sells as much as it reports, books the event it consumes, or is one of two
exceptions (`StepIs`): `CorrectPosition` cuts the position to a balance that a fill on the wire has already
reduced, and `ReconcileCloses` advances for a target whose event is still to come. The hypotheses name
exactly these two actions, and they are necessary: `protection_balance` and `ProtectionAdvance.cfg` are behaviours that violate the
conclusions by taking them.

- `CoveredWhenProtected`: `Spec /\ [][NoCorrection /\ NoReconcileCloses]_vars => []ProtectedIsCovered`.
- `StreamCoversPosition`: without reconcilers, `Spec => []ProtectedIsCovered`.

The argument. "Protected" is written by a task that has counted what is left and seen its orders
accepted, and between the count and the write the exchange moves on. `CoverInv` therefore counts
downwards: `Loose[k]` are the lots neither sold nor locked by an order of a stage up to `k`. No
exchange step adds to the lots loose at a stage that a task relies on, so what the task has counted still covers them when it acts, at
each of its awaits (`Fits`): the balance it was told, then its bracket and guard together, then
the guard alone, then nothing. A bracket's stage has one such task (`Sole`), stages behind
the position have lost theirs to a target (`StagesKnown`), and a recorded live guard leaves nothing
loose at its stage (`GuardsKnown`). The one step that frees lots of a protected position is the stream's cancellation of an
old guard (`Canceling`), after which the stream establishes the next stage; until then nobody
works at a later one (`Untouched`). `Covers` is the conclusion with its exceptions: a position
called protected, with no fault counted, has nothing free and no guard about to be canceled, or some task is still to
place its guard or to flag the position (`Doubt`); at rest nobody is. `Books` and `StageBooks`
are used where the stream books a fill, which is where the hypotheses come from. TLC checked
`CoverInv` on instances of the stream and of the reconciliation before the proof. Each hypothesis
alone is too weak: `ProtectionCovered.cfg` violates the property by a correction, and with three targets and no correction a
`ReconcileCloses` does, by moving the stage on for a target that the stream moves it on for too.

`ManualClose_proofs` proves, for any number of requests, any lots, targets and bounds
(`ProtectionAssumption`, `CloseAssumption`):

- `CloseInvariant`: `CloseSpec => []CloseInv`.
- `OneCloseAtATime`: `CloseSpec => []OnePreparing`.
- `NoOrphanedClose`: `CloseSpec => []SubmittingIsOwned`.
- `BookedInvariant`: `CloseSpec => []BookedInv`.
- `CloseTypes`: `CloseSpec => []CloseTypeOK`.
- `ManualFills`: `CloseSpec => []ManualFillsCountOnce`.
- `ProtectionTypesBesideCloses`: `CloseSpec => []ProtectionTypeOK`.
- `OneListPerStageBesideCloses`: `CloseSpec => []PlacedOnce`.

The argument for the first three. That two requests never prepare at once follows from the look for a blocking
order in the transaction that inserts one, if an order that is being prepared blocks all the
time. So the invariant says that a closer has an order of its own (`OwnOrders`), which
is "submitting" and not sent before the send (`PreparedUnsent`), and that every close event on the
wire is about an order that was sent (`WireInv`): neither the stream nor
`/execution/reconcile`, which writes only what the exchange has taken, touches one that is being prepared. One lemma covers the steps of a closer
(`CloserMoves`), one the steps of everybody else (`RestingCloses`), and `ProtectionKeeps` shows
that the coroutines and orders of `Protection` send no event about a close order. The events' other
fields, quantities and prices play no part in it.

The next three are about the lots. `BookedInv` joins the quantities of `Protection` (`QuantityInv`), the
locals and events of a close (`CloseTyped`) and its books (`CloseBooks`). A close order has lots that are executed and
that nobody has booked yet (`OpenLots`); `CloseBooks` says that what the position counts as sold, with those
and with the protective fills on the wire, is no more than the exchange sold, or an answer was
looked up. The send sells what it opens. The answer books all lots of its order, but only if
the stream has booked none; the stream books the trade of an event only if it is not among those booked. Either way
a lot is closed when it is booked, and once. A step of `Protection` moves its own books as `Protection_proofs` says
and no close order; no step here corrects a quantity, as `reconcile_all()` is not part of this composition.
An answer that was looked up lists no trades, so its lots stay open after they are booked: that is the
case the property excepts, and why it has to. As `BookedInv` contains `QuantityInv`, the types and the
uniqueness of brackets carry over from `Protection` to the composition: that is the last two.

`PaperForward_proofs` proves, for any targets, candles, number of replays and order of them
(`PaperAssumption`): `PaperInvariant`, and from it `PaperTypes` (`[]PaperTypeOK`), `NothingIsLost`
(`[]QuantityConserved`), `TheStopWins` (`[]StopWins`), `NeverALossAgain` (`[]NoLossAfterFirstTarget`) and
`ResultsAreFinal` (`ResultIsFinal`). The pipeline, late candles and replays are walks over candles
with one step, so what a step keeps a walk keeps (`ReplayKeeps`, by induction over the window). `WellFormed`
is what a step needs to know: how much is left before each target, and that the stop is at the
entry exactly when the first target was hit, which is why no later exit loses.

`PaperTrading_proofs` proves, for any markets, strategies, requests and bounds: `TradingInvariant`, and
from it `TradingTypes`, `TheBalanceIsRealized` (`[]BalanceIsRealized`), `ClosedIsSettled`
(`[]SettledWhenClosed`), `OneSetup` (`[]OneSetupPerEvent`), `PaperOnlyStaysOnPaper`
(`[]PaperOnlyNeverRouted`), `TheBacktestIsInOrder` (`[]BacktestInOrder`) and `TheEndedStayEnded`
(`EndedStaysEnded`, of setups and of positions). The balance is a sum over positions
that an analysis changes one after the other, so the invariant (`TradingInv`) says of it what the walk can
keep: positions before the last reset are over, and the balance is the start plus what the others
realized (`Balanced`). A setup and its position are two lives of one thing; that a setup has one position
at most and is never ready again (`Linked`) is what lets the walk write a setup's status without
reviving another. The back test is a walk over setups in the order of their detection (`ByDetectionIs`,
from `OrderedInOrder` of `Recursion`): the trades so far answer for the setups so far (`BackTested`), and a setup that gets no
trade was touched only while the book was taken by the trade of one before it (`NextTradeKeeps`).

`MarketAnalysis_proofs` proves, for any feeds of well-formed candles, any settings and any number of
analyses in turn, late or again, recalculations and rebuilds (`StructureAssumption`, `CountsAssumption`,
`GeometryAssumption`, `AnalysisAssumption`):

- `MarketInvariant`: `Spec => []MarketInv`.
- `MarketTypes`: `[]MarketTypeOK`; `OneRowEach`: `[]RowsAreUnique`; `PoolsFollowSweeps`:
  `[]PoolFollowsSweep`; `OneRanking`: `[]OnePrimary`; `NothingLeaks`: `[]NoFutureLeak`; `AcceptedStand`:
  `[]AcceptedNotStopped`.

The argument. `MarketInv` has one part per table (`SwingsOK`, `EventsOK`, `GapsOK`, `BlocksOK`, `PoolsOK`,
`SweepsOK`, `CountsOK`, `RanksOK`), and the proof one lemma per stage of the pipeline (`SwingsAfterIs` to
`CountsAfterIs`): the stage keeps the part of its own table, only adds rows behind those there are (`Grown`), and a table that
refers to one that has grown keeps its part (`EventsKept`, `BlocksKept`, `PoolsKept`, `CountsKept`). Four
properties needed more than themselves. `PoolFollowsSweep` needs `Followed`, the status of a pool
by that of its only sweep, which has to survive the analyses that write other pools, and that a pool with an undecided sweep is not swept again. `OnePrimary` needs that what keeps a rank
from an earlier analysis is either ranked again or loses it (`RetiredIs`, `RankedIs`), and that places in a total order are the numbers from
1 (`RankingIsTotal`, `PlacesAre` of `Recursion`). `NoFutureLeak` needs that the known swings are those
detected by the candle's close (`KnownIs`), and that the points of a candidate are such swings
(`CandidatesAre`). `AcceptedNotStopped` needs that an open zone was not left by the candle
(`ZonesAreOpen`), which needs that gaps and blocks are not empty (`lower < upper`), and of a
gap found on the candle itself, that its nearer side is the candle's own extreme (`GapsOK`). TLC
checks `MarketInv` on the markets of the run.

`Recursion` is the library of these proofs. Its induction is over sets of numbers instead of
predicates (`NatInductionOnSets`, from the well-foundedness of strict inclusion of finite sets), so it
can be instantiated; from it follow that a recursive function on an interval satisfies its
equation (`RecursionSolved`), what `Total` and `Along` of numbers amount to, and what `Ordered`
returns (`OrderedIs`, `OrderedInOrder`, `AscendingIs`).

### Only model-checked

- Liveness (`HandoffEnds`, `PendingEnds`, `BackfillEnds`), which is out of the prover's reach.
- The promise without hypothesis of `SoldIsSold`, `AdvanceOncePerTarget` and `ProtectedIsCovered`, where reconciliation
  runs: there they do not hold, as explained above. Every safety property of the passing runs is proved.

## Not modelled

Decimals and rounding, indicator values and scores: prices are levels or whole numbers where the
order of prices decides (`PaperForward`, `PaperTrading`, `MarketAnalysis`), and any refusal where they
only refuse (order entry, manual close). The strategies of `strategies/` are numeric and keep no state;
their setups are decisions of `PaperTrading`'s `Analyse`. Fibonacci scores, the discount zone and the
bias of other timeframes are choices. Position sizing, slippage, back-test metrics and the equity curve,
authentication, listings, settings, logging, the frontend and migrations are left out. Regeneration of
a range (`services/derived_regeneration.py`) deletes rows over cascading foreign keys; only the
analysis it repeats is modelled. Paper and setup handlers run in threads beside the pipeline's
transaction; the models take them one at a time, so updates lost between two sessions are not
seen. A short position differs from a long one in the
side of its exit orders and the entry path opens none. Protective orders fill in
one trade and their events are not redelivered. The levels `reconcile_all()` restores and the excursions
it books are prices. `SoldIsSold` is asked of the stream, repairs and manual closes only, `ProtectedIsCovered` of the stream
and repairs: after a
`reconcile_all()` that has cut a position, a fill still on the wire is subtracted once more. `sends`
counts handoffs only, as explained above. Hazards that no document speaks of and that are steps of the
models without a property: an `/execute` that holds row locks blocks the loop (`api/execution.py:126`;
`HandoffEnds` excepts it and its run has no `/execute`); late events of an old bracket flag a covered position
(`services/binance_user_stream.py:587`); a guard's fill before its row is inserted is never booked (line 355);
`MAX_OPEN_POSITIONS` counts positions, not orders in flight
(`execution/service.py:251`); the stream ignores a fill of an `/execute` order whose row is not committed
(`services/binance_user_stream.py:353`); the late answer of a first bracket writes its stop over the
breakeven stop (`execution/protection.py:405`).

## Plan

Done: order entry, protection, reconciliation, paper forward, candle history, manual close,
the pipeline's analysis, setups and paper trading. Next:

1. Sessions: paper and setup handlers as transactions that read before and write after the
   pipeline's, with the updates that are lost.
2. `derived_regeneration.py`: a range deletion over the tables of `MarketAnalysis`.
3. The Heikin-Ashi strategy as operators over candles, and its own exit in `PaperForward`.

# A formal model of news-market-ai

TLA+ modules, TLC configurations and TLAPS proofs for the trading engine and the backtests of this
repository. Every definition that models code is listed in `PROJECT.json`, under `map`, with
the lines it was translated from; paths below are relative to the repository root.

## 1. Inventory

Five Cloudflare Workers share three D1 databases (`INPUTS_DB`, `LIVE_DB`, `SIM_DB`), five
queues and one KV namespace.

| component | code | state it keeps | who calls it |
| --- | --- | --- | --- |
| backend | `src/index.js` | none of its own; writes job rows and the backtest registry | operator routes, a 15-minute cron that fans out INGEST and `exit_check` messages |
| ingest worker | `src/ingest-worker.js`, `src/ingestion/` | news, prices and macro rows in INPUTS_DB, intraday backfill claims, job rows | INGEST and BACKFILL queues |
| llm worker | `src/llm-worker.js`, `src/graph/`, `src/agents/` | checkpoints, decisions, positions and memories in LIVE_DB | ANALYZE (two consumers) and LLM_JOBS (one) queues |
| backtest worker | `src/backtest-worker.js`, `src/backtest/` | the same tables in SIM_DB, one run id per backtest; the registry `backtest_runs`; a quota ledger | BACKTEST queue (one consumer) |
| trading rows | `src/storage/run_store.js` | `positions`, `trade_decisions`, `decision_memory`, `pipeline_checkpoints`, `job_progress` | llm and backtest workers |
| backtest registry | `src/storage/sim_registry.js` | `backtest_runs`: status, cursor, pause reason | backend routes, backtest worker |
| LLM client | `src/llm/`, `src/shared/cooldown*.js` | cooldowns in KV, the next key index in memory | every agent |
| pause and ticker switches | `src/storage/pause_flags.js`, `active_tickers.js` | flags in LIVE_DB | every consumer, once per batch |
| dashboard | `src/dashboard/`, `dashboard-next/`, `src/auth/` | none | the operator |

**What makes each correct.**

- *Trading rows.* One open position per ticker; a decision that says what happened to its
  position; a closed row that nothing moves; an outcome that is recorded once, with the close
  it settles; the risk ceilings.
- *Portfolio stage, pending entries, exit check.* The same rows under two ANALYZE consumers,
  the exit check, crashes between any two awaits and redelivery: nothing decided twice,
  nothing replaced left unsettled, no stop skipped by a cursor or overtaken by a flip, no
  pending entry or due exit that waits for ever.
- *Backtest runs.* A run is one chain of parts, is paused, resumed, cancelled and purged by
  routes that race with the part that runs, and ends in one terminal state with its data
  deleted or kept accordingly.
- *Backtest walk.* Cut into parts by a budget, by outages of the model and by deaths, it keeps
  the order of one uninterrupted walk, skips nothing, counts its progress right and ends.
- *Ingestion.* Every fresh item is analysed once and none is lost in silence; a backfill that
  says complete covered its range; a day of intraday bars that is final is whole; the purge
  takes no bars from a run that needs them.
- *Exit walk.* However its bars are cut into windows, whenever they arrive and whichever checks
  die, a position ends as one uninterrupted walk would have ended it, and the equity curve books
  it once.
- *LLM client.* Every model and key that is not cooling down is tried before a call is given
  up; a run is parked only for a quota that is spent; no cooldown is made up.

**What is hard.** D1 gives one atomic statement or batch and nothing across two of them, so
every `await` is a point where another consumer runs or the process dies. News commits at its
publication time, not at the wall clock, so commits arrive out of order in the order that the
tables are about. The hazards, each at its line, are in `PROJECT.json`.

## 2. Modules

| module | models |
| --- | --- |
| `TickerBook` | abstract: each ticker holds at most one thesis; an exchange gives up the old and takes the new at once, and no thesis returns |
| `RunStore` | the three tables and every statement or batch that writes them, for any callers; implements `TickerBook` |
| `LiveEngine` | `RunStore` with its callers: ANALYZE consumers, the exit check, queue, clock, crashes; implements `RunStore` |
| `RunLifecycle` | abstract: a run begins, pauses and resumes, ends once, and may be purged after |
| `BacktestRun` | one backtest run: registry row, job row, parts on the queue, worker, routes, deletion; implements `RunLifecycle` |
| `DayMajorWalk` | abstract: the order of one uninterrupted walk |
| `BacktestWalk` | what a part does: windows, cursor, subrequest budget, checkpoints, outages, skips, the tail; implements `DayMajorWalk` |
| `GeminiCascade` | one structured model call: models, keys, errors, and the cooldowns in one shared KV value |
| `NewsStore` | the article rows and the filings under tickers, written by both modules below |
| `NewsIngest` | live ingestion: switches, fetches, store, enqueue |
| `NewsBackfill` | the operator's backfill of historical news: windows, splits, parts, job row |
| `NewsInputs` | `NewsIngest` and `NewsBackfill` together on one `NewsStore` |
| `IntradayBars` | the ticks that seed, claim, fetch and mark days of bars, and the daily purge |
| `ExitRules` | pure: the window of bars, the walk over it, the ratcheted stop, the time exit and its fill |
| `PositionWalk` | one position under exit checks that repeat, die, look back or flip it, with bars that arrive late |
| `EquityCurve` | pure: what the days of the grid book of one trade |
| `PositionScore` | `PositionWalk` scored by `EquityCurve` |
| `MC...` | small instances for TLC |
| `..._proofs` | theorems about `RunStore`, `LiveEngine`, `BacktestRun`, `BacktestWalk`, `GeminiCascade`, `NewsInputs`, `IntradayBars`, and `PositionWalk` with `PositionScore` |

How they fit: `BacktestRun` has the queue, the registry and the routes around a walk of units,
`BacktestWalk` the walk itself with a worker that may die; `LiveEngine` abstracts bars to the
instant a level is touched, `PositionWalk` has the bars; `GeminiCascade` says when a call ends
with which error, `BacktestWalk` and `BacktestRun` take those errors as choices.

### RunStore

A row is keyed by its thesis id `ticker|asOf`, here a pair; the three tables are functions on
`ThesisIds`. `CommitThesis` is the batch of `commitThesis`: `CloseOld` and `OpenNew` are its
first two statements, each a function from the table it sees to the table it leaves, and
`Outcome` is the CASE of the third, evaluated on the table the second left. That the three
evaluations agree is a property (`BookIsConsistent`, theorem `BatchIsConsistent`), not an
assumption. `Next` is any sequence of calls that keeps the *contract*: a commit is not before
its own instant, a pending entry commits what its decision stored, a retry repeats its row, a
close is not before the opening, and an outcome carries the close that it settles. That the
engine keeps it is checked and proved: `LiveEngine` has `EngineKeepsStoreContract == Spec`.

Abstractions: the stop-loss and take-profit reasons are one, `stop_or_target`; prices are
absent; a thesis is its direction, whether its confidence reaches `flipMinConfidence`, and its
size and stop in whole units; the breaker's verdict is a choice, except in a fill, which passes
no window; rows without a direction, which only an old schema wrote, do not occur; a NULL
`last_checked_at` is 0. Excursions and entry-confirmation evidence are left out: no guard of a
commit reads them.

### LiveEngine

Each process has a program counter, and a step is the code between two awaits. `Receive`,
`Agents`, `ReadBook`, `Gates`, then (stops first) `StartExits` .. `EndExits`, then
`CommitDecision`, `FindReplaced`, `SettleReplaced`, `EndSettling` and `Ack` are one ANALYZE
message; `ExitCheckTick`, `Fill`, `NoFill`, `EndFills` and the same exit steps are one
`exit_check` message. `Fail` and `ExitCheckFails` may come between any two steps, up to
`MaxFaults` times. The checkpoints "analyzed" and "debated" are folded into "traded": they
only save LLM calls. Bars are abstracted to `touchedAt`, the instant at which a position's
level is first touched, chosen at the start and never read except by a walk that covers it; a
walk starts at `WalkedTo`, the cursor or the opening.

The switches narrow what a run explores: `LateNews` (an item may still wait when its instant
is over), `StalePrices` (a thesis may wait as a pending entry), `Pauses`, `ReflectionFails`.
A message is held by one consumer at a time: two simultaneous deliveries of one message are
not modelled.

### BacktestRun

`run` is the row of `backtest_runs` (`parked` is the resume envelope, a set of at most one;
`scored` stands for the result), `job` the row of `job_progress`, `rows` the state rows that
carry the run's id, `queue` the bag of messages on the BACKTEST queue, `worker` the one
consumer (`max_concurrency` 1), and `op` the requests in progress. A step is the code between
two awaits, and a guarded statement is one step whatever it guards.

The worker reads the status once (`Receive`, with the branches in `AfterReceive`), then
`SaveCursor`, or `CheckQuota` and the walk, or `StartJob`, `RegisterRun` and the walk. A part
ends in `YieldPart` and `HandOver` (park or send, the last thing before the acknowledgement),
in `Score` .. `ReportComplete`, or in `FailRun` .. `Sweep`. Routes are `Register` .. `Unregister`
(run), `PauseRoute`, `ReadParked` .. `Repark` (resume), `CancelRoute` .. `StartCancelSweep`,
`CleanupRoute`, `PurgeRoute` .. `DeleteRow`. The routes that list runs start only when the run
is on their list, and the sweep is one step per chunk.

Abstractions: the walk is `Length` units, each of which may write rows, so a cursor is a
number; the budget is a choice to yield after any unit, none included; every part counts
toward `MaxParts`, where the code leaves out those that a failing model cut short and stops on
other limits; the scheduled wake-up is one of the resume requests; a statement that throws has
had no effect. The switches: `Quotas` and `Failures` allow the error paths, `CancelMidPart` and
`PurgeQueued` the two races that section 3 names under divergences.

### BacktestWalk

The state of the run is `checkpoints` (stages per item), `exited` (days whose exit check ran)
and the `cursor` in the message; `part` and `budget` are the locals of the executing part.
The budget is `SubrequestBudget`: a charge before each request, a refusal over a limit, regions
that must not be cut in half (counted, never refused), and estimates that the costliest
finished unit replaces. A part pauses between units when the next does not fit, or inside a unit
when a request is refused or the model is out; the stall counter and the skip of an item whose
model output is unusable are in the cursor, as in the code. The clock is pinned by part 1.
A behaviour has either deaths or late and skipped items (`dies`): a part that dies past an item
that it skipped may decide it when it comes again, after that day's exit check.

### GeminiCascade

`call` is what a lane's cascade knows: the attempt it is at, the models it found retired, the
keys that were refused, the hints it met. `stored` is the KV value, `cache` each invocation's
copy of it. `Look`, the answers, and `Put` (read the map, change it, write it back: two steps)
are the awaits. A backtest part is one invocation with two lanes that is the only writer of its
namespace; live messages are invocations that share theirs. A put enters the cooldown in the
invocation's copy before it stores the map (`Enter`): when kv.put fails (`PutFails`) the copy
keeps it, and a later put of the invocation stores it after all; when the read before it fails
(`RereadFails`) nothing is entered. Which words make a 429 a daily
quota is abstracted to the answer itself; KV operations are instantaneous, and may fail up to
`MaxKvFailures` times.

### NewsStore, NewsIngest, NewsBackfill, NewsInputs

An article's row and its filings under tickers only ever grow. A live invocation takes its
batch message by message (`TakeTicker`, `FetchFeeds`), stores chunk by chunk (`SaveChunk`, which
computes what is *fresh* from what the same transaction inserted), reads the switches it needs
and sends (`Enqueue`, `SendChunk`). `history` notes facts, for the properties only: which job
made a filing and whether analysis was paused for its batch, which jobs a D1 error or a death
broke off, which messages the queue refused, which tickers the operator has had off. None of its
entries says that a filing is given up; `NothingStranded` derives that from them, so that code
which drops a message without one of these causes violates it. A backfill part fetches a window,
halving a span whose answer looks capped, filters, inserts, and hands over or completes.
`NewsInputs` puts both on the same rows. The prices, facts and macro rows of a ticker are
stored by the same invocation after its news; facts and macro rows that cannot be stored are
skipped, so that only the failure of the prices matters here (`JobFails`).

### IntradayBars

`rows` is `intraday_backfill_status`, `bars` the table, `tick` the invocations, `purge` the
purge in progress. Time is in ticks, and a day is `DayLen` of them. Select and claim are two
statements; `shared` remembers the days that two ticks worked on at once. The daily purge looks
for a running backtest, then for a paused one, then deletes in chunks (`StartPurge`,
`LookForPaused`, `DeleteBars`), and `RunMoves` is a run that changes meanwhile.

### ExitRules, PositionWalk, EquityCurve, PositionScore

`ExitRules` has the pure functions in the code's own structure: `BarSequence` (intraday bars
where a day has any, the daily bar where it has none, each query cut at its row cap: the set
`WindowBars`, put `InOrder`), `WalkBars` (split guard, stop before
target on a gap, the ratchet of break-even and trailing stop against the peak of the bars
before), the trading-day count, and the fill of a late time exit. Prices are percentages of the
entry price, chosen so that no division rounds, and above zero (the walk takes a price of 0 for
a missing one). `PositionWalk` runs them as the exit check does:
read the window, record the excursions, close or move the cursor; `DieAfterExcursion` is a death
between the two writes, and a knob change meets a position that keeps its snapshot. Its
properties compare with one walk over `walked`, the bars of all checks in order.

### Mutants

An operator named `Definition_Change`, just before `Definition`, is a plausible bug in the
code which that definition models: a dropped guard, a swapped order, an off-by-one. Nothing
uses it. Put in the place of `Definition`, it makes TLC report the property that `PROJECT.json`
pairs it with, which shows that the property is not idle.

## 3. Runs

| run | question |
| --- | --- |
| `store` | do the rows stay consistent under any callers, does nothing that is final change, and do they refine `TickerBook`? |
| `in_order` | two consumers and the exit check, items finished in order, one crash: ceilings, overlap, cursor, stops first, the completion marker |
| `concurrent` | late news, pending entries, pauses, failing reflections: the store's contract, every position decided |
| `pending` | one crash: pending entries and messages come to an end |
| `recovery` | two crashes, retries that pass the gates again: what the pipeline replaced is settled, positions are closed |
| `bt_routes` | two operators with every route against the worker, failing sends and quotas: one chain of parts, one end, data deleted only after it |
| `bt_redelivery` | two deaths of the worker, and cancels while a part executes: a running run is never forgotten and ends, completes only on the whole walk, and a cancelled one is cleaned |
| `walk` | two windows, two tickers, five items, cut up in every way: the order of one walk, nothing skipped, every step uses something up, the end |
| `llm` | two calls at a time over two models and two keys: what an exhausted cascade and a parked run may claim, what the shared map may hold |
| `ingest` | two overlapping live batches and the parts of a backfill: analysed once, nothing of a feed or of a ticker's own query stranded but by the operator, the queue or the end of its job, complete is true |
| `intraday` | ticks that overlap, die, fail or are late, beside the purge: final is whole, every day gets there, runs are spared |
| `exits` | a long or short position whose bars come in any order, under repeated, dying and flipping checks: one walk, no bar left out, booked once |

All of them hold.

**Bounds.**

- *Engine.* Two or three thesis ids on one or two tickers: a commit concerns one ticker and the
  sum over the others, so two tickers show every case of the ceilings, and two ids of a ticker
  every case of hold, flip and out-of-order commits. Two theses, a weak long and a confident
  short of another size, give same direction, too weak to flip, and flip. Ceilings of 2 or 3
  units let one position in and keep some pair out. Three instants (four where a time exit has
  to wait) give before, during and after. `MaxDeliveries` 2 or 3 and `MaxFaults` 1 or 2: one
  crash at every point, and one more in its recovery.
- *Backtest run.* `Length` 2 and `MaxParts` 3: a first part, a continuation, and one that meets
  the cap, with a cursor at the start, inside and at the end. Two operators are two concurrent
  resumes, or a resume and any other route. Three deliveries and two deaths are a death, and one
  in its recovery.
- *Walk.* A window and the boundary day to the next one, with a tail of two days; two tickers,
  with two items of one ticker on a day; budgets that cut an item in half and that fit two
  units; `MaxParts` 5, one idle part, one stall, one skip, one death: each limit is met.
- *Cascade.* Two models and two keys give the rotation, the last combination and a retired model
  on another key; three calls and three requests let two overlap and a third see what they left.
  `MCDelays` is empty: a "retry in" only names another length of cooldown.
- *Ingestion.* Three articles (shared by two tickers, naming a second one, and too old for live
  ticks), two live invocations, two backfill parts over five days with windows of two, one fault.
- *Intraday.* Days of three ticks, a claim of two days, two invocations; `MaxLife` (an isolate
  is killed after one tick), `MaxLate` (one tick may come late) and `MaxFaults` until
  `FaultsUntil`; `MaxTime` leaves every day that ended by then the ticks it needs.
- *Exits.* Days of two slots with one that does not count, at most three bars of a few shapes
  (rise, quiet, dip, gap, spike, halved price, inverted), one death, a window cap of two rows:
  intraday and daily bars of one day, a stop and a target in one bar, a gap through the stop, a
  bar after the hold.

**Fairness.** `FairEngineSpec` assumes that the clock ticks, that a consumer with something to
do goes on, and that the exit check goes on: a queue redelivers what is not acknowledged,
Workers run a delivered message, and the cron recurs every 15 minutes. `BacktestRun.FairSpec`
assumes that the queue delivers, that an invocation runs on and that a route that began goes
on; nobody has to send a request. `BacktestWalk.FairSpec` assumes that a part goes on and the
next is delivered. `IntradayBars.Spec` assumes that the cron fires, that a delivered tick goes
on and that a purge that looked goes on. Crashes and faults are never fair and are bounded. The
other modules state no liveness and need none.

**Divergences between the code and its comments.** Each was met while modelling and is the
reason for a switch, a condition or a bound of a run.

- A retry after a crash opens a position under a decision that says 'held': the commit's
  decision row is final, the position is not (`pipeline.js:402` counts on the commit being
  repeatable, `run_store.js:429`, `:443`).
  `PositionIsDecided` is checked without crashes, and proved up to the first fault.
- Late news of different tickers escape each other's exposure sum, and may open inside the life
  of a position that has closed since. `CeilingHolds` and `NoOverlap` are checked with items
  finished in their own instant.
- A crash after a fill's commit, or between an exit and its settlement, leaves the position
  unsettled: no later tick lists it. `ReplacedIsSettled` is checked without fills.
- A cancelled run ends again, complete or failed: the two terminal writes are not guarded on the
  status as the cancel is. `KeepsLifecycle` has `CancelMidPart` off.
- A run that is paused before its first part is delivered is never resumable: there is no cursor
  to save (`backtest-worker.js:211`, `index.js:692`, `sim_registry.js:120`).
- `BACKTEST_MAX_LLM_CALLS` reads as a cap per run (`budget.js:9`), and is one per part:
  `runBacktest.js:214` makes the counter anew.
- `ingest-worker.js:91` calls the queue's refusal "the one place where stored-but-never-analyzed
  items can come from". There are four more. Two are silent: a ticker's query files the article
  under the other tickers that it names, where it is fresh to nobody, and the backfill files
  without a message (`IsFiledOnly`); `NothingStranded` says nothing of such filings. Two take
  what one job has in hand: a death and a D1 error after the store (`IsBroken`);
  `NothingStranded` bounds the loss to the filings of that very job, as it bounds a refusal to
  the chunk that was refused and a switch to what it is about.
- `ingest.js:744` says that a failure of the price bars is swallowed and cannot cost the tick's
  news. The vendor's errors are; the D1 error of `insertPriceBar` (`ingest.js:238`) is not, and
  ends the job with its news stored and unsent. `JobFails` has that step, and
  `NothingStranded` counts it as a broken job.
- `intraday_purge.js:4` says that the purge never runs under a backtest; one that starts or is
  resumed after the look loses bars. `PurgeSparesRuns` is about runs that were there.
- `intraday_backfill.js:253` calls the double selection of a day harmless; around midnight it is
  not. `FinalIsWhole` leaves out the days that two ticks shared.
- `equity.js` says that a trade it cannot book is counted; one that opened and closed on dates
  without a grid day is neither booked nor counted.
- `inputs_view.js` (fundamentals) says that every restatement is kept; a second one of the same
  form and period overwrites the first. Not modelled, as no step depends on it.

**Known limits of the runs.** What a switch or a constant keeps out of a run is a behaviour of
the code under which the property is false, or that is not modelled:

- `recovery`: a retry whose gates now reject, after a first attempt that committed, acknowledges
  and leaves what it replaced unsettled. It has no rejections.
- `DoneIsDone` with a second writer between the read of the open position and the commit.
- `ThesisOf` is injective: two articles of one ticker with one timestamp share a decision row.
- `KeepsLifecycle` with `PurgeQueued`: the first part's message inserts the purged row again.
- `SingleChain` with a death between the send and the acknowledgement: two chains then walk
  the same units, and the older cursor may park last. The walk is idempotent, so
  `CompleteIsWhole` still holds and is checked so.
- `NoOrphanRows` with `PurgeQueued`: a part that still executes writes rows after the row of
  the registry is gone.
- `CancelledIsCleaned` with `Quotas`: a cancelled part that parks is acknowledged and nothing
  comes back for what it wrote until the cleanup route is called.
- A part that goes to the dead-letter queue leaves its row 'running'; `completeBacktestRun`
  throwing after its write was applied is not modelled.
- A resume reads its envelope and claims the run in two statements; between them the run may
  be resumed and parked again, and the older cursor is then sent. Only work is repeated.
- `RespectsCooldown` is about the cooldown that was put last: of two calls that asked the same
  pair, the later put may be the shorter one.
- A backfill over the days of the live lookback may store an article before a live tick does,
  which then analyses it never (`NewsInputs.Backfill`). A backfill part that is delivered again
  starts a second chain, and may set a complete job back to running.
- A torn seeding (a death between its batches) leaves a ticker a shorter window; a day without
  any tick gets no row; an oldest day that always fails starves the later ones; a run silent for
  more than a quarter of an hour is not protected from the purge.
- A bar that arrives behind the cursor is never walked; one intraday bar suppresses its daily
  bar; a capped window with a due time exit skips what it did not read (`Cut`); a death between
  excursion and close, with a bar that comes late, may leave an excursion beyond the exit.
  Positions of an old schema without a knob snapshot are not modelled.

## 4. Proofs

Each `_proofs` module extends the module it is about and assumes nothing but that module's named
ASSUMEs on the constants, which the runs evaluate.

- **`RunStore_proofs`**: for any tickers, instants, theses, caps and ceilings, every property that
  run `store` checks, and the two that it does not need to check: the types (`TypeOK`) and
  `OneOpenPerTicker`, which the refinement of `TickerBook` implies. The inductive invariant is
  `StoreInv`: the types, `RowShape` (an absent row is `NoRow`; an open row has no close; a closed
  row has a closing instant), and the invariants. `OneOpenPerTicker` is inductive only with
  `RowShape`, as OpenNew's guard speaks of open rows and the row it writes must be the only one;
  `ReplacedBySuccessor` needs it because a successor must stay a row for ever; `OpenedHasPosition`
  needs `BatchIsConsistent`: the three evaluations of the predicate agree. The refinement of
  `TickerBook` goes by cases on what a step does to the ticker's open rows. The module also has
  what a ceiling rests on: sums over a table (`SumEmpty`, `SumTakes`, `SumGrows`,
  `SumCongruence`), proved of the fold by its definition, and `NewRowIsOpened`, which says what a
  new row passed.
- **`LiveEngine_proofs`**, in three parts.
  *On every schedule*: for any items, consumers, price paths, faults and deliveries, with every
  switch on or off, `EngineSpec` implements `RunStore`'s `Spec`, so every theorem of
  `RunStore_proofs` holds of the engine (`EngineBook`), and `NoTouchSkipped` holds. `EngineInv`
  is what the calls rest on: an item is in one consumer's hands (`ConsumerOK`, `Apart`), a
  pending entry's run is done, so that only the exit check commits it (`CheckpointsOK`,
  `ExitCheckOK`), a row that is there before its commit came from the same checkpoint, what a
  process plans to visit is there and what it plans to settle is closed and stays so (`PlanOK`),
  and no cursor is behind the opening.
  *Until the first fault*: `PositionIsDecided`, again with every switch. `Fresh` says that
  whatever is queued or before its commit is undecided, so that each commit writes its decision
  and its row together; a retry after a fault does not, which is why the theorem reads
  `faults = 0 => ...`.
  *In order*: `DoneIsDone`, `StopsFirst`, `NoOverlap` and `CeilingHolds` are false of late news
  and of pending entries (see Divergences), and are proved for any other constants under
  `~LateNews`, `~StalePrices` and `HoldLimit > 0`, with any crashes and redeliveries. `Punctual`
  says that whatever works or waits has the instant of now; then `RowsInOrder` holds (the rows
  of a ticker follow one another) because what a consumer read of its ticker's book stays true
  until its commit (`ReadOK`: the exits up to its instant were walked, and the row it may
  replace is the one it saw). `CeilingHolds` speaks of every past instant and every ticker,
  while a commit only sums the others at its own instant: `OrderInv` makes that instant the
  latest, and the sum theory turns the commit's check into the sum over the whole book.
- **`BacktestRun_proofs`**: for a walk of any length, any operators, deliveries, deaths and
  failing statements. *Every route but the purge*: `CompleteIsWhole` and
  `OnlyEndedRunsLoseRows`. `RunInv` says that every cursor that may continue an open run, in the
  queue, the row, the worker or a resume, is behind the rows, and that a sweep that began found
  the run ended. With a purge a queued first part inserts the run again, and both are false.
  *Every route, with `CancelMidPart` and `PurgeQueued` off*: `KeepsLifecycle` and `NoOrphanRows`
  from `LifeInv`: a part past its receipt works on a run that has not ended, and while a purge
  goes on there is neither a first part nor a part at work. *Every route and switch, without
  deaths*: `SingleChain` from `ChainInv`, which says where the continuation is (queue, worker,
  parked envelope, or the hands of one operator) as sets of at most one member, so that the
  count of the property is a fact about cardinalities of singletons. *Every route, any quotas,
  deaths anywhere, without failing statements and sends*: `NeverForgotten`, the other side of
  `SingleChain`: a row that says 'running' has at least one thing that goes on with the run or
  ends it. `TriesInv` counts a message's deliveries against the deaths so far, so that while there
  are fewer deaths than deliveries no part goes to the dead-letter queue; the rest is that every
  step that lets a part go has parked the run, ended it or sent the next message before. With
  failing statements it is false (a send that fails, then the statement that says so), as it is
  past the last delivery.
- **`BacktestWalk_proofs`**: for any windows, news, budgets, limits and cost estimates, with
  outages, skips, deaths and late news, `NothingSkipped`, and the refinement of `DayMajorWalk`
  (`KeepsDayMajorOrder`). `WalkInv` ties a place in the walk to what is decided before it
  (`PlaceOK`) and to nothing being decided after it (`NothingAhead`), for the running part and
  for the stored cursor, and the progress count to the steps before the place.
  `EveryStepCounts`: `Left` lists what a run has left, the weightiest first, from the run itself
  down to the stages of an item; every step lowers the list in that order, whose entries are
  natural numbers (`CountsOK` keeps the counts of parts, idle parts and deaths within their
  limits; the rest follows from `WalkInv`), and `NoEndlessDescent` says that this order has no
  endless descent. So a run of any size takes finitely many steps; that it does not stop short of
  its end is the part of `WalkEnds` that needs ENABLED and stays with TLC.
- **`GeminiCascade_proofs`**: for any models, keys, lanes and delays. *With any race on the
  map*: `NoInventedCooldown` (`MapInv` extends it to entries that have run out, and to every
  copy of the map, since a writer brings back what it read), `ExhaustionIsComplete` and
  `ParkingIsJustified`. `CascadeInv` says that the attempts behind a call are covered
  (`Covered`: refused, retired or met), which with the rotation covers every pair from
  wherever the call began, and that a hint to wait for the day has a pair whose quota the vendor
  said is gone (`SpentFor`, `HintOK`). *With one writer and a KV that does not fail*:
  `RespectsCooldown`; `LastInv` says that the map has the cooldown that was put last.
- **`NewsInputs_proofs`**: for any watchlist, articles, feeds, batches and invocations,
  `AnalyzedOnce` and `NothingStranded`. `IngestInv` adds that a filing is fresh to one
  invocation only, the one whose transaction filed it (`FreshIsOwned`), unsent while it is
  fresh (`FreshIsUnsent`) and noted as a filing of that invocation's job (`FreshIsNoted`), and
  that a switch which is off has been noted (`SwitchesAreNoted`): a job that is broken off then
  strands its own filings only. With the same rows and any window, cap, refusals and number of parts,
  `CompleteIsTrue`. `BackfillInv` says of every message, delivered once or often, what it
  claims: unless a refusal or a cut is counted in it, every window before its own is stored
  (`PartOK`). Such a claim only grows truer, so redeliveries and live ticks leave it alone.
  `fetchSpan` is recursive: that it has a value and that its leaves cover the span is proved on
  the spans reachable by halving, by a least counterexample on their length.
- **`IntradayBars_proofs`**: for any watchlist and lengths of day, batch, lookback and retention,
  `FinalIsWhole` and `PurgeSparesRuns`. A mark looks at no row; `FillInv` says why it may: a tick
  that holds a day alone knows what its row says (`ClaimStands`) and, when it marks, has every
  bar that was over when it claimed (`HolderHasBars`).
- **`PositionWalk_proofs`**: for any bars stored in any order and at any time, any levels, knobs,
  caps, weekend and deaths, all that run `exits` checks: `OneWalk`, `EveryBarIsJudged`,
  `OverdueCloses` and `TradeIsBookedOnce`. `WalkBars` is a recursive function; that it has a value
  and what the value is takes a least counterexample (`WalkExists`, `WalkSummary`). `WalkOK` says
  bar by bar what a walk is: none before the last left the position, each stop is the one its past
  peaks give. Two such walks join into one exactly when the second begins with the peak of the
  first (`WalkBegins`, `WalkGoesOn`), which is what the saved row must carry. `WalkInv` has what
  the next check rests on: the bars walked so far are apart and behind the cursor (`Passed`), peak
  and exit are those of the one walk over them (`Decided`), and the excursions too, unless a check
  died between its writes or the position was flipped (`Sampled`). That no bar is missed is a fact
  about windows: their bars do not overlap (`WindowIsInOrder`), and up to the row cap none is left
  out (`WholeWindow`). `OverdueCloses` needs that the hold ends at all, which it does as the days
  without trading are finitely many. For `TradeIsBookedOnce` the close has a price and an instant
  (`Priced`). `BookOK` says what the days before one have booked: the trade is entered when it was
  held on one of them, charged when it was also left by one, realized at its exit price by then,
  and in between its profit is its mark less what was paid. A day that holds the trade, one that
  finds it left and one that sees neither each keep it (`HeldDayBooks`, `LeftDayBooks`,
  `DayBooks`), and the book of the whole grid is `BookOK` at its end (`BookSummary`, a least
  counterexample over the days, as `BookedBy` is a recursive function).

The assumptions are those the modules name: the instants have no gap and `ThesisOf` is injective
(`LiveEngine`), the news of a backtest is a finite set (`BacktestWalk.FiniteAssumption`) and the
cost of a side a natural number, as `sideCostFraction` takes no other
(`PositionScore.CostAssumption`), ceilings and sizes are numbers (`RunStore.CeilingsAssumption`),
the articles and the selected tickers of a backfill are finite sets, so is `Weekend`
(`ExitAssumption`: the days without trading of the time in question), knobs are numbers and prices
are above zero (`WalkAssumption`), lengths and limits are positive. Induction over data has no
library theorem that the installed provers can use; where a proof needs it (a sum, a fold over a
walk, a recursive split) it takes a least counterexample on a number instead.

Only model-checked: every liveness property, as the provers have neither fairness nor ENABLED:
`PendingIsResolved`, `MessageIsDisposed`, `ReplacedIsSettled`, `PositionIsClosed`, `RunEnds`,
`CancelledIsCleaned`, `WalkEnds` and `DaysAreFilled`. Of `WalkEnds` and `RunEnds` the safety part
is proved (`EveryStepCounts`, `NeverForgotten`). All other properties of the runs are theorems,
those that need a switch off under that switch.

## 5. Plan

Done: the store and the engine, the backtest run and its walk, the model cascade, ingestion with
both writers, intraday bars, exits and scoring, and the proofs above. Next, in this order:

1. The drawdown breaker's two evaluations, in place of the free choice in `RunStore`.
2. `BacktestWalk` inside `BacktestRun`, in place of its units: what a second chain of parts
   does to a concrete cursor.
3. Proofs: what `CompleteIsWhole` keeps when the purge waits for the queue; the theorems of
   `BacktestRun` once the concrete walk is in it; the descent that `EveryStepCounts` is for the
   walk, for the engine's queue and the backfills.

**Not modelled, and why.** The dashboards, about two fifths of the repository's implementation
lines, and authentication only present and read. Of the Workers' own code the map covers about a
third. The rest is prompts, schemas and parsing of model output; the vendors' clients and formats;
route handlers that read; the point-in-time SELECTs that feed prompts; metrics, benchmarks and
signal comparison, which are arithmetic on what `EquityCurve` books; seeds (checkpoints copied
once) and replay (read-only); additive counters and append-only logs. No step of the modelled
components waits on them or branches on what they hold, and where a result of theirs is a
branch (a model's verdict, a quota that is spent, a refused seed) it is a choice of the model.

---------------------------- MODULE IntradayBars ----------------------------
(***************************************************************************)
(* Intraday bars (ingestion/intraday_backfill.js, intraday_purge.js).      *)
(* Every quarter of an hour a tick is queued.  A tick seeds rows for a new *)
(* ticker and for today, opens again the days that were fetched before     *)
(* they were over, and for each ticker claims the oldest open days,        *)
(* fetches them in one request, writes the bars and marks the days.  Once  *)
(* a day the bars that are older than the retention are deleted, unless a  *)
(* backtest is active or paused.                                           *)
(*                                                                         *)
(* Time is counted in ticks.  Bar u covers the time from u to u + 1; it    *)
(* belongs to day u \div DayLen and the vendor has it from u + 1 on.       *)
(* Select and claim are two statements: two ticks that run at the same     *)
(* time (a delayed message) may claim the same day, and so may a tick that *)
(* takes a day from one that is merely slow; "shared" keeps those days.    *)
(***************************************************************************)
EXTENDS Integers, Sequences, FiniteSets, SequencesExt

CONSTANTS
  Watchlist,       \* a sequence of tickers
  DayLen,          \* ticks of a day
  BatchDays,       \* intradayBackfillBatchDays
  Lookback,        \* intradayBackfillLookbackDays
  ReopenLookback, MinAge, StaleAfter,
  SeedChunk,       \* rows of one seeding batch
  Refused,         \* bars that the write gate drops
  Retention, DeleteChunk, MaxChunks, PurgeHour,
  Invocations, MaxLife,
  StartTime, MaxTime, MaxLate, MaxFaults, FaultsUntil   \* bounds

ASSUME IntradayAssumption ==
  /\ {DayLen, BatchDays, SeedChunk, DeleteChunk, MaxChunks, Retention} \subseteq Nat \ {0}
  /\ {Lookback, ReopenLookback, MinAge, StaleAfter, StartTime} \subseteq Nat
  /\ StartTime >= Lookback * DayLen

VARIABLES
  clock,
  backlog,     \* tick messages in the BACKFILL queue
  rows,        \* intraday_backfill_status: [ticker and day -> row]
  bars,        \* price_bars_intraday, as <<ticker, bar>>
  tick,        \* the invocations that handle a tick
  purge,       \* the purge that runs, if any
  shared,      \* history: days that two ticks worked on at the same time
  purged,      \* history: deleted bars
  faults,
  late         \* how often a message or an invocation outlasted its interval

vars == <<clock, backlog, rows, bars, tick, purge, shared, purged, faults, late>>

Tickers == ToSet(Watchlist)
DayOf(u) == u \div DayLen
EndOf(day) == (day + 1) * DayLen
Days == 0 .. DayOf(MaxTime)
BarsOf(day) == day * DayLen .. EndOf(day) - 1
NoRow == [status |-> "none", last |-> 0]
Pending == [status |-> "pending", last |-> -1]   \* last_attempt is NULL
Fault == faults < MaxFaults /\ clock <= FaultsUntil /\ faults' = faults + 1

Resting == [pc |-> "idle", now |-> 0, seed |-> <<>>, todo |-> <<>>, days |-> {}, got |-> {}]
NoPurge == [pc |-> "idle", cutoff |-> 0, chunks |-> 0, run |-> "quiet", moved |-> FALSE, last |-> -1]
Runs == {"quiet", "running", "paused"}   \* quiet: none, ended, or without progress past the idle cutoff

Init ==
  /\ clock = StartTime /\ backlog = 1
  /\ rows = [k \in Tickers \X Days |-> NoRow] /\ bars = {}
  /\ tick = [w \in Invocations |-> Resting] /\ purge = NoPurge
  /\ shared = {} /\ purged = {} /\ faults = 0 /\ late = 0

Become(w, i) == tick' = [tick EXCEPT ![w] = i]
At(w, pc) == tick[w].pc = pc
Ticker(w) == Head(tick[w].todo)

-----------------------------------------------------------------------------
(* The cron, and the write of rows.                                         *)

\* The cron sends a tick; a send that fails is logged.  A message may still be waiting then
\* and an invocation at work, though the platform lets none work for longer than MaxLife.
InTime == backlog = 0 /\ purge.pc = "idle" /\ \A w \in Invocations : At(w, "idle")
Pass ==
  /\ clock < MaxTime /\ clock' = clock + 1
  /\ \A w \in Invocations : At(w, "idle") \/ clock < tick[w].now + MaxLife
  /\ IF InTime THEN UNCHANGED late ELSE late < MaxLate /\ late' = late + 1
  /\ \/ backlog' = backlog + 1 /\ UNCHANGED faults
     \/ Fault /\ UNCHANGED backlog
  /\ UNCHANGED <<rows, bars, tick, purge, shared, purged>>

\* seedNewTickers: the window of every ticker that has no row at all.
NewWindow(t, today) ==
  IF \E d \in Days : rows[<<t, d>>] # NoRow THEN <<>> ELSE [i \in 1 .. Lookback |-> <<t, today - Lookback + i - 1>>]
\* Isolates have no names: a message goes to any one that is idle.
Free == IF \E w \in Invocations : At(w, "idle") THEN CHOOSE w \in Invocations : At(w, "idle") ELSE "nobody"
Start(w) ==
  /\ w = Free /\ backlog > 0 /\ backlog' = backlog - 1
  /\ Become(w, [pc |-> "seed", now |-> clock, todo |-> Watchlist, days |-> {}, got |-> {},
                 seed |-> FlattenSeq([i \in 1 .. Len(Watchlist) |-> NewWindow(Watchlist[i], DayOf(clock))])])
  /\ UNCHANGED <<clock, rows, bars, purge, shared, purged, faults, late>>

\* seedBackfillRows: what exists is left as it is.
Seeded(keys) == [k \in DOMAIN rows |-> IF k \in keys /\ rows[k] = NoRow THEN Pending ELSE rows[k]]
Seed(w) ==
  /\ At(w, "seed") /\ tick[w].seed # <<>>
  /\ LET n == IF Len(tick[w].seed) < SeedChunk THEN Len(tick[w].seed) ELSE SeedChunk IN
     /\ rows' = Seeded(ToSet(SubSeq(tick[w].seed, 1, n)))
     /\ Become(w, [tick[w] EXCEPT !.seed = SubSeq(@, n + 1, Len(@))])
  /\ UNCHANGED <<clock, backlog, bars, purge, shared, purged, faults, late>>

EnsureToday(w) ==
  /\ At(w, "seed") /\ tick[w].seed = <<>>
  /\ rows' = Seeded({<<t, DayOf(tick[w].now)>> : t \in Tickers})
  /\ Become(w, [tick[w] EXCEPT !.pc = "reopen"])
  /\ UNCHANGED <<clock, backlog, bars, purge, shared, purged, faults, late>>

IsIncomplete_SameDay(key, now) ==
  LET row == rows[key] IN
  /\ row.status = "done" /\ key[2] = DayOf(now)
  /\ row.last < EndOf(key[2]) /\ row.last < now - MinAge
IsIncomplete(key, now) ==
  LET row == rows[key] IN
  /\ row.status = "done" /\ key[2] \in DayOf(now) - ReopenLookback .. DayOf(now)
  /\ row.last # -1 /\ row.last < EndOf(key[2]) /\ row.last < now - MinAge
Reopen(w) ==
  /\ At(w, "reopen")
  /\ rows' = [k \in DOMAIN rows |-> IF IsIncomplete(k, tick[w].now) THEN [rows[k] EXCEPT !.status = "pending"] ELSE rows[k]]
  /\ Become(w, [tick[w] EXCEPT !.pc = "select"])
  /\ UNCHANGED <<clock, backlog, bars, purge, shared, purged, faults, late>>

-----------------------------------------------------------------------------
(* One ticker: claim, fetch, write, mark.                                   *)

IsOpen(key, now) ==
  LET row == rows[key] IN
  \/ row.status \in {"pending", "failed"}
  \/ row.status = "in_progress" /\ row.last < now - StaleAfter
\* The oldest open days, at most a batch, and of them the first ones without a gap.
Oldest(t, now) ==
  LET open == {d \in Days : IsOpen(<<t, d>>, now)}
      picked == {d \in open : Cardinality({e \in open : e < d}) < BatchDays}
  IN {d \in picked : \A e \in picked : e .. d \subseteq picked}

NextTicker(i) == IF Len(i.todo) = 1 THEN Resting ELSE [i EXCEPT !.pc = "select", !.todo = Tail(@), !.days = {}, !.got = {}]

Select(w) ==
  /\ At(w, "select")
  /\ LET days == Oldest(Ticker(w), tick[w].now) IN
     Become(w, IF days = {} THEN NextTicker(tick[w]) ELSE [tick[w] EXCEPT !.pc = "claim", !.days = days])
  /\ UNCHANGED <<clock, backlog, rows, bars, purge, shared, purged, faults, late>>

Claimed(w) == {<<Ticker(w), d>> : d \in tick[w].days}
Holds(v) == IF tick[v].pc \in {"fetch", "write", "done", "failed"} THEN Claimed(v) ELSE {}
\* The claim does not look again at what it selected.
Claim(w) ==
  /\ At(w, "claim")
  /\ rows' = [k \in DOMAIN rows |-> IF k \in Claimed(w) THEN [status |-> "in_progress", last |-> tick[w].now] ELSE rows[k]]
  /\ shared' = shared \cup (Claimed(w) \cap UNION {Holds(v) : v \in Invocations \ {w}})
  /\ Become(w, [tick[w] EXCEPT !.pc = "fetch"])
  /\ UNCHANGED <<clock, backlog, bars, purge, purged, faults, late>>

\* All pages of one request: the bars of the span that are over.
VendorBars(t, days) == {<<t, u>> : u \in {b \in UNION {BarsOf(d) : d \in days} : b < clock}}
\* One request for all the claimed days; it succeeds or ends in a VendorError.
Fetch(w) ==
  /\ At(w, "fetch")
  /\ \/ /\ Become(w, [tick[w] EXCEPT !.pc = "write", !.got = VendorBars(Ticker(w), tick[w].days)])
        /\ UNCHANGED faults
     \/ Fault /\ Become(w, [tick[w] EXCEPT !.pc = "failed"])
  /\ UNCHANGED <<clock, backlog, rows, bars, purge, shared, purged, late>>

\* insertPriceBarsIntraday: an upsert of what passes the gate, in one batch.
Write(w) ==
  /\ At(w, "write")
  /\ bars' = bars \cup {b \in tick[w].got : b[2] \notin Refused}
  /\ Become(w, [tick[w] EXCEPT !.pc = "done", !.got = {}])
  /\ UNCHANGED <<clock, backlog, rows, purge, shared, purged, faults, late>>

\* Both marks are one statement per day, and neither looks at the row.
DoneRow_Stamps(row) == [row EXCEPT !.status = "done", !.last = clock]
DoneRow(row) == [row EXCEPT !.status = "done"]
FailedRow(row) == [status |-> "failed", last |-> clock]
Mark(w) ==
  /\ tick[w].pc \in {"done", "failed"}
  /\ \E day \in tick[w].days :
     /\ \A d \in tick[w].days : day <= d
     /\ rows' = [rows EXCEPT ![<<Ticker(w), day>>] = IF At(w, "done") THEN DoneRow(@) ELSE FailedRow(@)]
     /\ Become(w, IF tick[w].days = {day} THEN NextTicker(tick[w]) ELSE [tick[w] EXCEPT !.days = @ \ {day}])
  /\ UNCHANGED <<clock, backlog, bars, purge, shared, purged, faults, late>>

\* A D1 error ends the tick, which is acknowledged; a killed isolate's message comes back.
Abort(w) ==
  /\ ~At(w, "idle") /\ Fault
  /\ Become(w, Resting) /\ backlog' \in {backlog, backlog + 1}
  /\ UNCHANGED <<clock, rows, bars, purge, shared, purged, late>>

-----------------------------------------------------------------------------
(* The purge.  The backtest is whatever it is when the purge looks for it.  *)

\* getActiveBacktestRunId finds a running one.
StartPurge ==
  /\ purge.pc = "idle" /\ clock % DayLen = PurgeHour /\ purge.last < clock
  /\ \E run \in Runs :
       purge' = [NoPurge EXCEPT !.pc = IF run = "running" THEN "idle" ELSE "paused?", !.cutoff = clock - Retention,
                   !.run = IF run = "running" THEN "quiet" ELSE run, !.last = clock]
  /\ UNCHANGED <<clock, backlog, rows, bars, tick, shared, purged, faults, late>>

\* The operator resumes the run, or it parks, ends or starts, while the purge is at work.
RunMoves ==
  /\ purge.pc # "idle" /\ ~purge.moved
  /\ \E run \in Runs \ {purge.run} : purge' = [purge EXCEPT !.run = run, !.moved = TRUE]
  /\ UNCHANGED <<clock, backlog, rows, bars, tick, shared, purged, faults, late>>

MayDelete_Always(run) == TRUE
MayDelete(run) == run # "paused"
LookForPaused ==
  /\ purge.pc = "paused?"
  /\ purge' = IF MayDelete(purge.run) THEN [purge EXCEPT !.pc = "delete"] ELSE [NoPurge EXCEPT !.last = purge.last]
  /\ UNCHANGED <<clock, backlog, rows, bars, tick, shared, purged, faults, late>>

DeleteBars ==
  /\ purge.pc = "delete"
  /\ LET old == {b \in bars : b[2] < purge.cutoff}
         n == IF Cardinality(old) < DeleteChunk THEN Cardinality(old) ELSE DeleteChunk IN
     \E chunk \in {c \in SUBSET old : Cardinality(c) = n} :
       /\ bars' = bars \ chunk /\ purged' = purged \cup chunk
       /\ purge' = IF n < DeleteChunk \/ purge.chunks + 1 = MaxChunks THEN [NoPurge EXCEPT !.last = purge.last]
                   ELSE [purge EXCEPT !.chunks = @ + 1]
  /\ UNCHANGED <<clock, backlog, rows, tick, shared, faults, late>>

-----------------------------------------------------------------------------

Tick(w) == Start(w) \/ Seed(w) \/ EnsureToday(w) \/ Reopen(w) \/ Select(w) \/ Claim(w) \/ Fetch(w) \/ Write(w) \/ Mark(w)
Purge == StartPurge \/ RunMoves \/ LookForPaused \/ DeleteBars
Next == Pass \/ Purge \/ \E w \in Invocations : Tick(w) \/ Abort(w)

\* The cron fires, a queued message is delivered, and an invocation or a purge goes on.
Spec ==
  /\ Init /\ [][Next]_vars
  /\ WF_vars(Pass) /\ WF_vars(LookForPaused \/ DeleteBars) /\ \A w \in Invocations : WF_vars(Tick(w))

-----------------------------------------------------------------------------
(* Properties.                                                              *)

IsWhole(key) == \A u \in BarsOf(key[2]) \ Refused : <<key[1], u>> \in bars \cup purged
IsFinal(key) == rows[key].status = "done" /\ rows[key].last >= EndOf(key[2])

\* A day that nothing opens again has all of its bars, whatever was fetched early, failed
\* or died on the way, unless two ticks worked on it at the same time.
FinalIsWhole == \A key \in DOMAIN rows \ shared : IsFinal(key) => IsWhole(key)

\* While the vendor and the isolates fail only so often, every day that has a row and is
\* over for some time is complete in the end: none is stranded by a claim whose tick died,
\* by a failed request or by having been fetched too early.
DaysAreFilled ==
  \A key \in Tickers \X Days : EndOf(key[2]) <= FaultsUntil =>
    <>[](rows[key] = NoRow \/ IsFinal(key) \/ key \in shared)

\* The purge deletes nothing while a backtest is paused, or is at work, that was so since
\* the purge began.
PurgeSparesRuns ==
  [][purged' # purged => purge.moved \/ purge.run \notin {"running", "paused"}]_vars
=============================================================================

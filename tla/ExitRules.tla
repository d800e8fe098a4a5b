------------------------------ MODULE ExitRules ------------------------------
(***************************************************************************)
(* What one exit check reads and decides about one position                *)
(* (shared/bar_window.js, agents/risk_mgmt/exit_bars.js, trailing.js,      *)
(* exit.js, graph/bar_fill.js, price_resolution.js).  The window of bars   *)
(* from an anchor to asOf, an intraday bar per slot where the day has any  *)
(* and the daily bar where it has none; the walk over it, which stops at   *)
(* the first bar that touches the stop or the target; the instant at which *)
(* the hold is over, and the price that a late exit fills at.              *)
(*                                                                         *)
(* Prices are percentages of the entry price.  A bar is the record of its  *)
(* opening and closing time, its kind and its prices; "open" \in Nat is a  *)
(* slot, and slot u covers the time from u to u + 1.                       *)
(***************************************************************************)
EXTENDS Integers, Sequences, FiniteSets, SequencesExt, FiniteSetsExt

CONSTANTS
  DayLen,        \* slots of a day
  Weekend,       \* days that do not count towards the hold
  HoldDays,      \* maxPositionHoldDays
  Expiry,        \* PENDING_ENTRY_EXPIRY_MS
  MaxAge,        \* INTRADAY_MAX_AGE_MS
  FreshAge,      \* ENTRY_FRESH_MAX_AGE_MS
  RowCap,        \* EXIT_WINDOW_INTRADAY_ROW_CAP
  StopPct, TakePct,  \* of the position
  Tolerance,     \* splitGuardTolerance, in percent
  RoundTrip,     \* the cost of an entry and an exit, in percent
  NearestOpen    \* dailyBothTouchedNearestOpen

ASSUME ExitAssumption ==
  /\ {DayLen, HoldDays, RowCap, StopPct, TakePct} \subseteq Nat \ {0}
  /\ {Expiry, MaxAge, FreshAge, Tolerance, RoundTrip} \subseteq Nat
  /\ NearestOpen \in BOOLEAN
  /\ IsFiniteSet(Weekend)

Entry == 100
DayOf(time) == time \div DayLen

-----------------------------------------------------------------------------
(* Direction *)

Better(dir, a, b) == IF dir = "long" THEN a > b ELSE a < b
BestOf(dir, a, b) == IF Better(dir, a, b) THEN a ELSE b
WorstOf(dir, a, b) == IF Better(dir, a, b) THEN b ELSE a
Gross(dir, price) == IF dir = "long" THEN price - Entry ELSE Entry - price
AtReturn(dir, pct) == IF dir = "long" THEN Entry + pct ELSE Entry - pct
Adverse(dir, bar) == IF dir = "long" THEN bar.low ELSE bar.high
Favorable(dir, bar) == IF dir = "long" THEN bar.high ELSE bar.low

(* The ratchet.  Knobs are multiples of R, the distance of the initial     *)
(* stop; a peak of 0 is none.                                              *)

NoTrail == [breakEven |-> 0, activation |-> 0, distance |-> 0, removesTarget |-> FALSE]
Trailing(knobs) ==
  LET on == knobs.activation > 0 /\ knobs.distance > 0
  IN [on |-> on \/ knobs.breakEven > 0,
      breakEven |-> knobs.breakEven,
      activation |-> IF on THEN knobs.activation ELSE 0,
      distance |-> IF on THEN knobs.distance ELSE 0,
      removesTarget |-> on /\ knobs.removesTarget]

MoreProtective(dir, candidate, rule) ==
  IF Better(dir, candidate.level, rule.level) THEN candidate ELSE rule

RatchetedStop(dir, peak, trail) ==
  LET best == IF peak = 0 THEN Entry ELSE peak
      gap == trail.distance * StopPct
      initial == [level |-> AtReturn(dir, -StopPct), reason |-> "stop_loss"]
      even == [level |-> AtReturn(dir, RoundTrip), reason |-> "breakeven_stop"]
      behind == [level |-> (best * AtReturn(dir, -gap)) \div 100, reason |-> "trailing_stop"]
      afterEven == IF trail.breakEven > 0 /\ Gross(dir, best) >= trail.breakEven * StopPct
                   THEN MoreProtective(dir, even, initial) ELSE initial
  IN IF trail.distance > 0 /\ Gross(dir, best) >= trail.activation * StopPct
     THEN MoreProtective(dir, behind, afterEven) ELSE afterEven

\* 0 when the trail has taken the place of the target
TargetLevel(dir, rule, trail) ==
  IF trail.removesTarget /\ rule.reason = "trailing_stop" THEN 0 ELSE AtReturn(dir, TakePct)

-----------------------------------------------------------------------------
(* The window *)

IntradayBar(u, shape) == [kind |-> "intraday", open |-> u, end |-> u + 1, shape |-> shape]
DailyBar(day, shape) ==
  [kind |-> "daily", open |-> day * DayLen, end |-> (day + 1) * DayLen, shape |-> shape]

FirstFullDay_AlwaysNext(anchor) == DayOf(anchor) + 1
FirstFullDay(anchor) == IF anchor % DayLen = 0 THEN DayOf(anchor) ELSE DayOf(anchor) + 1

\* getIntradayBarsWindowAsOf, which returns the oldest rows up to its cap, and
\* getDailyBarsWindowAsOf
IntradayRows(intraday, anchor, asOf) == {u \in DOMAIN intraday : anchor <= u /\ u + 1 <= asOf}
OldestRows(rows) == {u \in rows : Cardinality({v \in rows : v < u}) < RowCap}
DailyRows(daily, anchor, asOf) ==
  {day \in DOMAIN daily : FirstFullDay(anchor) <= day /\ day < DayOf(asOf)}

WindowBars(intraday, daily, anchor, asOf) ==
  LET rows == IntradayRows(intraday, anchor, asOf)
      kept == OldestRows(rows)
      days == {day \in DailyRows(daily, anchor, asOf) :
                 /\ \A u \in kept : DayOf(u) # day
                 /\ Cardinality(rows) > RowCap => \E u \in kept : day <= DayOf(u)}
  IN {IntradayBar(u, intraday[u]) : u \in kept} \cup {DailyBar(d, daily[d]) : d \in days}

InOrder(bars) ==
  CHOOSE q \in [1 .. Cardinality(bars) -> bars] : \A i, j \in DOMAIN q : i < j => q[i].open < q[j].open
BarSequence(intraday, daily, anchor, asOf) == InOrder(WindowBars(intraday, daily, anchor, asOf))

-----------------------------------------------------------------------------
(* The walk *)

Distance(a, b) == IF a < b THEN b - a ELSE a - b
IsFinite(shape) == shape.high >= shape.low
SplitFactors == {2, 3, 4, 5, 10}
IsSplit(price) ==
  /\ Tolerance > 0
  /\ \E factor \in SplitFactors :
       \/ 100 * Distance(price * factor, Entry) <= Tolerance * Entry
       \/ 100 * Distance(price, factor * Entry) <= Tolerance * factor * Entry

\* A daily bar that touched both levels: the one its open is nearer to came first.
TargetResolvesFirst(dir, open, stop, target) ==
  /\ Better(dir, open, stop)
  /\ ~Better(dir, target, open) \/ Distance(target, open) < Distance(open, stop)

NoExit == [reason |-> "none", price |-> 0, at |-> 0]

\* Does a bar end the position, when the stop is this one?
ExitAtBar(dir, bar, rule, target) ==
  LET shape == bar.shape
      stopTouched == ~Better(dir, Adverse(dir, shape), rule.level)
      targetTouched == target # 0 /\ ~Better(dir, target, Favorable(dir, shape))
      targetFirst == /\ stopTouched /\ targetTouched /\ bar.kind = "daily" /\ NearestOpen
                     /\ TargetResolvesFirst(dir, shape.open, rule.level, target)
  IN IF stopTouched /\ ~targetFirst
     THEN [reason |-> rule.reason, price |-> WorstOf(dir, shape.open, rule.level), at |-> bar.end]
     ELSE IF targetTouched
     THEN [reason |-> "take_profit", price |-> BestOf(dir, shape.open, target), at |-> bar.end]
     ELSE NoExit

AtWorst(a, b) == IF a < b THEN a ELSE b
AtBest(a, b) == IF a < b THEN b ELSE a

\* The bar's extremes; those of the bar that ends the position reach no further than the fill.
WithExcursion(walk, dir, shape, exit) ==
  LET low == IF exit.reason \in {"none", "take_profit"} THEN Adverse(dir, shape) ELSE exit.price
      high == IF exit.reason = "take_profit" THEN exit.price ELSE Favorable(dir, shape)
  IN [walk EXCEPT !.mae = AtWorst(@, Gross(dir, low)), !.mfe = AtBest(@, Gross(dir, high))]

WalkBar(dir, trail, walk, bar) ==
  IF walk.exit # NoExit \/ walk.split THEN walk
  ELSE IF ~IsFinite(bar.shape) THEN [walk EXCEPT !.bars = Append(@, bar)]
  ELSE IF IsSplit(bar.shape.open) \/ IsSplit(bar.shape.close) THEN [walk EXCEPT !.split = TRUE]
  ELSE LET rule == RatchetedStop(dir, walk.peak, trail)
           exit == ExitAtBar(dir, bar, rule, TargetLevel(dir, rule, trail))
           reached == BestOf(dir, Favorable(dir, bar.shape), Entry)
       IN [WithExcursion(walk, dir, bar.shape, exit) EXCEPT
             !.bars = Append(@, bar), !.mark = bar.shape.close, !.exit = exit,
             !.peak = IF ~trail.on THEN @ ELSE IF @ = 0 THEN reached ELSE BestOf(dir, @, reached)]

Unwalked(peak) ==
  [bars |-> <<>>, exit |-> NoExit, mae |-> 0, mfe |-> 0, mark |-> 0, peak |-> peak, split |-> FALSE]

\* after[i]: the walk over the first i bars
WalkBars(dir, trail, peak, bars) ==
  LET after[i \in 0 .. Len(bars)] ==
        IF i = 0 THEN Unwalked(IF trail.on THEN peak ELSE 0)
        ELSE WalkBar(dir, trail, after[i - 1], bars[i])
  IN after[Len(bars)]

-----------------------------------------------------------------------------
(* The hold *)

CountsAsHoldDay(day) == day \notin Weekend
TradingDaysBetween(from, to) ==
  Cardinality({day \in DayOf(from) + 1 .. DayOf(to) : CountsAsHoldDay(day)})
TimeExitDueAt(openedAt) ==
  LET horizon == HoldDays + Cardinality(Weekend)
      midnights == {day * DayLen : day \in DayOf(openedAt) + 1 .. DayOf(openedAt) + horizon}
  IN Min({t \in midnights : TradingDaysBetween(openedAt, t) >= HoldDays})

\* graph/bar_fill.js: the first bar that opens at or after an instant
FillBar(intraday, daily, from, asOf) ==
  LET bars == {bar \in WindowBars(intraday, daily, from, asOf) : bar.open >= from /\ bar.shape.open > 0}
  IN {bar \in bars : \A other \in bars : bar.open <= other.open}

\* Only a bar that closed a moment ago has the price of now.
IsEntryPriceStale(intraday, asOf) ==
  ~\E u \in DOMAIN intraday : u + 1 <= asOf /\ asOf - (u + 1) <= FreshAge

\* graph/price_resolution.js; 0 when there is no price at all
CurrentPrice(intraday, daily, asOf) ==
  LET fresh == {u \in DOMAIN intraday : u + 1 <= asOf}
      days == {day \in DOMAIN daily : day < DayOf(asOf)}
  IN IF fresh # {} /\ asOf - (Max(fresh) + 1) <= MaxAge THEN intraday[Max(fresh)].close
     ELSE IF days # {} THEN daily[Max(days)].close
     ELSE 0

\* A price that looks like a split is no price.
Trusted(price) == IF IsSplit(price) THEN 0 ELSE price

TimeExitFill_WaitsOn(intraday, daily, dueAt, asOf) ==
  {[price |-> Trusted(bar.shape.open), at |-> bar.open] : bar \in FillBar(intraday, daily, dueAt, asOf)}
\* resolveTimeExitFill: {} is "wait for the next check"
TimeExitFill(intraday, daily, dueAt, asOf) ==
  LET bars == FillBar(intraday, daily, dueAt, asOf)
  IN IF bars # {} THEN {[price |-> Trusted(bar.shape.open), at |-> bar.open] : bar \in bars}
     ELSE IF asOf - dueAt <= Expiry THEN {}
     ELSE {[price |-> Trusted(CurrentPrice(intraday, daily, asOf)), at |-> asOf]}
=============================================================================

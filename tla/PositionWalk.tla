---------------------------- MODULE PositionWalk ----------------------------
(***************************************************************************)
(* One position from its entry to its close (graph/exit_check.js).  Bars   *)
(* are stored whenever the vendor and the backfill have them, in any       *)
(* order.  Every exit check reads the window from the position's cursor to *)
(* its asOf, walks it, records the excursions, and then closes the         *)
(* position or moves the cursor (and with it the peak and the mark).  A    *)
(* check can die between its writes; a check with an asOf in the past (a   *)
(* news item's) may follow a later one; an opposite thesis may close the   *)
(* position after a check that let it live; and an operator may change the *)
(* trailing knobs while the position is open.                              *)
(***************************************************************************)
EXTENDS ExitRules

CONSTANTS
  Directions,
  OpenTimes,                 \* [direction -> set of slots]
  DefaultKnobs,              \* of the configuration
  Settings,                  \* what an operator may set: functions from some knobs to values
  Shapes,                    \* [direction -> [kind -> set of shapes]]
  MaxTime, MaxBars, MaxDeaths   \* bounds

\* A bar has a price above zero, or it could not be told from a missing one.
Prices == Nat \ {0}
ShapeType == [open : Prices, high : Prices, low : Prices, close : Prices]
ASSUME WalkAssumption ==
  /\ OpenTimes \in [Directions -> SUBSET Nat]
  /\ DefaultKnobs \in [breakEven : Nat, activation : Nat, distance : Nat, removesTarget : BOOLEAN]
  /\ Shapes \in [Directions -> [intraday : SUBSET ShapeType, daily : SUBSET ShapeType]]

VARIABLES
  clock,
  intraday, daily,  \* the rows of the ticker: [slot -> shape], [day -> shape]
  knobs,            \* the live overrides, rows of system_flags: [some knobs -> value]
  position,
  walked,           \* history: the bars that were walked for good, in the order of the checks
  deaths

vars == <<clock, intraday, daily, knobs, position, walked, deaths>>

NoRows == [none \in {} |-> 0]
Over(rows, base) == [k \in DOMAIN rows \cup DOMAIN base |-> IF k \in DOMAIN rows THEN rows[k] ELSE base[k]]

\* The live values laid over the configuration; a position copies them when it opens.
Effective(live) == Over(live, DefaultKnobs)

\* The cursor of a position that no check has walked is its opening.
Opened(direction, openedAt, snapshot) ==
  [direction |-> direction, openedAt |-> openedAt, trailKnobs |-> snapshot, cursor |-> openedAt,
   peak |-> 0, mark |-> 0, mae |-> 0, mfe |-> 0, reason |-> "open", price |-> 0, closedAt |-> 0]

Init ==
  /\ \E direction \in Directions : \E openedAt \in OpenTimes[direction] :
       /\ clock = openedAt
       /\ position = Opened(direction, openedAt, Effective(NoRows))
  /\ intraday = NoRows /\ daily = NoRows
  /\ knobs = NoRows
  /\ walked = <<>>
  /\ deaths = 0

IsOpen == position.reason = "open"
TrailOf(pos) == Trailing(pos.trailKnobs)

-----------------------------------------------------------------------------
(* The world *)

Tick ==
  /\ clock < MaxTime
  /\ clock' = clock + 1
  /\ UNCHANGED <<intraday, daily, knobs, position, walked, deaths>>

Stored == Cardinality(DOMAIN intraday) + Cardinality(DOMAIN daily)
With(rows, key, shape) == Over([k \in {key} |-> shape], rows)

\* A bar is stored at any time after it is over; a row is not written twice.  Once the position
\* is closed nobody here reads intraday bars or knobs.
StoreIntraday ==
  /\ IsOpen /\ Stored < MaxBars
  /\ \E u \in 0 .. clock - 1, shape \in Shapes[position.direction].intraday :
       /\ u \notin DOMAIN intraday
       /\ intraday' = With(intraday, u, shape)
  /\ UNCHANGED <<clock, daily, knobs, position, walked, deaths>>

StoreDaily ==
  /\ Stored < MaxBars
  /\ \E day \in 0 .. DayOf(clock) - 1, shape \in Shapes[position.direction].daily :
       /\ day \notin DOMAIN daily
       /\ daily' = With(daily, day, shape)
  /\ UNCHANGED <<clock, intraday, knobs, position, walked, deaths>>

\* POST /controls/knobs
SetKnobs ==
  /\ IsOpen
  /\ knobs' \in {Over(setting, knobs) : setting \in Settings} \ {knobs}
  /\ UNCHANGED <<clock, intraday, daily, position, walked, deaths>>
ClearKnobs ==
  /\ IsOpen /\ knobs # NoRows
  /\ knobs' = NoRows
  /\ UNCHANGED <<clock, intraday, daily, position, walked, deaths>>

-----------------------------------------------------------------------------
(* The exit check *)

TimeDue(asOf) == TradingDaysBetween(position.openedAt, asOf) >= HoldDays
\* Once the hold is over, no bar after its end may stop the position out.
WalkEnd(asOf) == IF TimeDue(asOf) THEN TimeExitDueAt(position.openedAt) ELSE asOf
Window(asOf) == BarSequence(intraday, daily, position.cursor, WalkEnd(asOf))
WalkOf(asOf) == WalkBars(position.direction, TrailOf(position), position.peak, Window(asOf))

\* Each of these is one UPDATE of a row that is still open.
RecordedExcursion(pos, walk) ==
  [pos EXCEPT !.mae = AtWorst(@, walk.mae), !.mfe = AtBest(@, walk.mfe)]
Closed(pos, reason, price, at) == [pos EXCEPT !.reason = reason, !.price = price, !.closedAt = at]
Advanced_ForgetsPeak(pos, walk) ==
  IF walk.bars = <<>> \/ Last(walk.bars).end <= pos.cursor THEN pos
  ELSE [pos EXCEPT !.cursor = Last(walk.bars).end, !.mark = IF walk.mark = 0 THEN @ ELSE walk.mark]
Advanced(pos, walk) ==
  IF walk.bars = <<>> \/ Last(walk.bars).end <= pos.cursor THEN pos
  ELSE [pos EXCEPT !.cursor = Last(walk.bars).end,
                   !.mark = IF walk.mark = 0 THEN @ ELSE walk.mark,
                   !.peak = IF walk.peak = 0 THEN @
                            ELSE IF @ = 0 THEN walk.peak ELSE BestOf(pos.direction, @, walk.peak)]

\* The fills of a time exit that is due; none while the check has to wait for a bar.
FillsWhenDue(walk, asOf) ==
  IF ~TimeDue(asOf) THEN {}
  ELSE IF walk.split THEN {[price |-> 0, at |-> asOf]}
  ELSE TimeExitFill(intraday, daily, TimeExitDueAt(position.openedAt), asOf)

Checks(asOf) == IsOpen /\ asOf \in position.openedAt .. clock
Keeps(pos, walk) == position' = pos /\ walked' = walked \o walk.bars

PriceExit(asOf) ==
  LET walk == WalkOf(asOf)
  IN /\ Checks(asOf) /\ walk.exit # NoExit
     /\ Keeps(Closed(RecordedExcursion(position, walk), walk.exit.reason, walk.exit.price, walk.exit.at),
              walk)
     /\ UNCHANGED <<clock, intraday, daily, knobs, deaths>>

TimeExit(asOf) ==
  LET walk == WalkOf(asOf)
  IN /\ Checks(asOf) /\ walk.exit = NoExit
     /\ \E fill \in FillsWhenDue(walk, asOf) :
          Keeps(Closed(RecordedExcursion(position, walk), "time_based", fill.price, fill.at), walk)
     /\ UNCHANGED <<clock, intraday, daily, knobs, deaths>>

LetsLive(walk, asOf) == Checks(asOf) /\ walk.exit = NoExit /\ FillsWhenDue(walk, asOf) = {}

MoveOn(asOf) ==
  LET walk == WalkOf(asOf)
  IN /\ LetsLive(walk, asOf) /\ walk.bars # <<>>
     /\ Keeps(Advanced(RecordedExcursion(position, walk), walk), walk)
     /\ UNCHANGED <<clock, intraday, daily, knobs, deaths>>

\* The check dies after the excursions were recorded: the rest is left to the next check.
DieAfterExcursion(asOf) ==
  /\ Checks(asOf) /\ deaths < MaxDeaths
  /\ position' = RecordedExcursion(position, WalkOf(asOf))
  /\ position' # position
  /\ deaths' = deaths + 1
  /\ UNCHANGED <<clock, intraday, daily, knobs, walked>>

\* commitThesis closes the position as flipped, at the current price and after a check of the
\* same asOf that let it live.  recordExcursionBeforeClose walks again, as far as asOf and
\* without the trail, and counts the fill.
Flip(asOf) ==
  LET walk == WalkOf(asOf)
      again == WalkBars(position.direction, Trailing(NoTrail), 0,
                        BarSequence(intraday, daily, position.cursor, asOf))
      price == CurrentPrice(intraday, daily, asOf)
      atFill == IF IsSplit(price) THEN 0 ELSE Gross(position.direction, price)
      counted == RecordedExcursion(RecordedExcursion(Advanced(position, walk), walk),
                                   [again EXCEPT !.mae = AtWorst(@, atFill), !.mfe = AtBest(@, atFill)])
  IN /\ LetsLive(walk, asOf) /\ ~IsEntryPriceStale(intraday, asOf)
     /\ Keeps(Closed(counted, "flipped", price, asOf), walk)
     /\ UNCHANGED <<clock, intraday, daily, knobs, deaths>>

Next ==
  \/ Tick \/ StoreIntraday \/ StoreDaily \/ SetKnobs \/ ClearKnobs
  \/ \E asOf \in 0 .. clock : PriceExit(asOf)
  \/ \E asOf \in 0 .. clock : TimeExit(asOf)
  \/ \E asOf \in 0 .. clock : MoveOn(asOf)
  \/ \E asOf \in 0 .. clock : DieAfterExcursion(asOf)
  \/ \E asOf \in 0 .. clock : Flip(asOf)

Spec == Init /\ [][Next]_vars

-----------------------------------------------------------------------------
(* One walk, however many checks it took.                                  *)

Dir == position.direction
ValidThrough(i) == {j \in 1 .. i : IsFinite(walked[j].shape)}
\* The best price of the first i bars, and the stop that bar i met.
BestThrough(i) == AtReturn(Dir, Max({0} \cup {Gross(Dir, Favorable(Dir, walked[j].shape)) : j \in ValidThrough(i)}))
RuleAt(i) == RatchetedStop(Dir, BestThrough(i - 1), TrailOf(position))
ExitAt(i) == ExitAtBar(Dir, walked[i], RuleAt(i), TargetLevel(Dir, RuleAt(i), TrailOf(position)))
Hits == {i \in ValidThrough(Len(walked)) : ExitAt(i) # NoExit}

PriceReasons == {"stop_loss", "breakeven_stop", "trailing_stop", "take_profit"}

\* The bar that ends the position reaches no further than the fill.
ExcursionOf(i) ==
  LET fill == Gross(Dir, position.price)
      ends == i \in Hits
  IN [mae |-> IF ends /\ position.reason # "take_profit" THEN fill
              ELSE Gross(Dir, Adverse(Dir, walked[i].shape)),
      mfe |-> IF ends /\ position.reason = "take_profit" THEN fill
              ELSE Gross(Dir, Favorable(Dir, walked[i].shape))]
SampledExcursions == {ExcursionOf(i) : i \in ValidThrough(Len(walked))}

\* However the bars were cut into windows, and whichever checks died, the position ends as one
\* uninterrupted walk over its bars would have ended it: at the first bar that touched a level,
\* judged against the peak of the bars before it, at that bar's price and time; a position that
\* is open, timed out or flipped met no such bar; no moment was judged twice.  The excursions are
\* those of the walked bars, except that a check that died may have sampled a bar that was not
\* the last one after all, and that a flip samples once more.
OneWalk ==
  /\ \A i, j \in DOMAIN walked : i < j => walked[i].end <= walked[j].open
  /\ IF position.reason \in PriceReasons
     THEN /\ Hits = {Len(walked)}
          /\ ExitAt(Len(walked)) =
               [reason |-> position.reason, price |-> position.price, at |-> position.closedAt]
     ELSE Hits = {}
  /\ IsOpen /\ TrailOf(position).on /\ ValidThrough(Len(walked)) # {} =>
       position.peak = BestThrough(Len(walked))
  /\ deaths = 0 /\ position.reason # "flipped" =>
       /\ position.mae = Min({0} \cup {e.mae : e \in SampledExcursions})
       /\ position.mfe = Max({0} \cup {e.mfe : e \in SampledExcursions})

\* A check judges every bar that it could see between the cursor and the point it reached, the
\* daily bar only of a day that shows no intraday bar, and a time exit every bar of the hold;
\* unless a split or the row cap has cut its window.
Judged(kind, open) == \E bar \in ToSet(walked') : bar.kind = kind /\ bar.open = open
Reached == IF position'.reason = "time_based" THEN TimeExitDueAt(position.openedAt) ELSE Last(walked').end
Cut ==
  /\ position'.reason = "time_based"
  /\ \/ WalkOf(clock).split
     \/ Cardinality(IntradayRows(intraday, position.cursor, Reached)) > RowCap
EveryBarIsJudged ==
  [][(walked' # walked \/ position'.reason = "time_based") /\ ~Cut =>
       /\ \A u \in DOMAIN intraday : position.cursor <= u /\ u + 1 <= Reached => Judged("intraday", u)
       /\ \A day \in DOMAIN daily :
            position.cursor <= day * DayLen /\ (day + 1) * DayLen <= Reached =>
              \/ Judged("daily", day * DayLen)
              \/ \E u \in DOMAIN intraday : DayOf(u) = day]_<<walked, position>>

\* A hold that is over ends: when the wait for a bar that would end it is over as well, the next
\* check closes the position, whatever bars there are and however late they came.
OverdueCloses ==
  IsOpen /\ clock - TimeExitDueAt(position.openedAt) > Expiry =>
    ~LetsLive(WalkOf(clock), clock)
=============================================================================

---------------------------- MODULE BacktestWalk ----------------------------
(***************************************************************************)
(* The walk of a backtest run (backtest/runBacktest.js and                 *)
(* backtest/onSignalRunner.js), cut into parts by the subrequest budget of *)
(* a Worker invocation (backtest/subrequestBudget.js) and by outages of    *)
(* the model.  A part ends by returning a cursor, and the next one goes on *)
(* from it; one that dies is delivered again with the cursor it had.       *)
(* BacktestRun has the queue, the registry and the operator around it.     *)
(*                                                                         *)
(* An item is Stages pipeline stages, each a model call and a checkpoint   *)
(* write; days are numbers and the tickers 1 .. TickerCount; an item's key *)
(* is its (published_at, id) within its ticker and day.                    *)
(*                                                                         *)
(* D_Change, just before a definition D, is D with a plausible bug in it;  *)
(* README.md says what these are for.                                      *)
(***************************************************************************)
EXTENDS Integers, FiniteSets

CONSTANTS
  TickerCount,
  StartDay, EndDay, TrainDays, TestDays, GraceDays,  \* the run's parameters
  Today,          \* the clock pinned by part 1
  Items,          \* the news: records [ticker, day, key]
  Late,           \* the items that may be stored while the run goes on
  Stages,         \* pipeline stages of an item, each checkpointed
  ExternalLimit, TotalLimit,        \* the budget of an invocation
  ItemEstimate, ExitsEstimate, ScoreEstimate,  \* what a unit is assumed to cost before one was seen
  PreflightCost, ExitCosts,
  MaxParts, MaxIdleParts, MaxStalls, MaxSkipped,
  MaxFaults       \* bound: deaths of the worker

Tickers == 1 .. TickerCount
Costs == [external : Nat, total : Nat]

ASSUME ItemsAssumption == Items \subseteq [ticker : Tickers, day : Nat, key : Nat \ {0}] /\ Late \subseteq Items
ASSUME DaysAssumption == {StartDay, EndDay, TrainDays, TestDays, GraceDays, Today} \subseteq Nat /\ TestDays > 0
ASSUME SpanAssumption == StartDay + TrainDays + TestDays <= EndDay /\ EndDay <= Today
ASSUME CostsAssumption == {ItemEstimate, ExitsEstimate, ScoreEstimate} \cup ExitCosts \subseteq Costs
ASSUME LimitsAssumption ==
  {TickerCount, Stages, ExternalLimit, TotalLimit, MaxParts, MaxIdleParts, MaxStalls, MaxSkipped} \subseteq Nat \ {0}
ASSUME FiniteAssumption == IsFiniteSet(Items) /\ MaxFaults \in Nat

-----------------------------------------------------------------------------
(* The days: contiguous test windows; only the last has a grace tail.       *)

WindowCount == (EndDay - StartDay - TrainDays) \div TestDays
TestStart(w) == StartDay + TrainDays + (w - 1) * TestDays
TestEnd(w) == TestStart(w) + TestDays
IsLastWindow(w) == w = WindowCount
WalkEnd_Overlapping(w) == IF TestEnd(w) + GraceDays < Today THEN TestEnd(w) + GraceDays ELSE Today
WalkEnd(w) ==
  IF ~IsLastWindow(w) THEN TestEnd(w) - 1
  ELSE IF TestEnd(w) + GraceDays < Today THEN TestEnd(w) + GraceDays ELSE Today
WalkDays(w) == TestStart(w) .. WalkEnd(w)
AllDays == UNION {WalkDays(w) : w \in 1 .. WindowCount}
\* countSignalWalkSteps, summed over the windows one by one.
StepsThrough[w \in 0 .. WindowCount] ==
  IF w = 0 THEN 0 ELSE StepsThrough[w - 1] + TickerCount * Cardinality(WalkDays(w))
TotalSteps == StepsThrough[WindowCount]

-----------------------------------------------------------------------------

\* Where the walk is: the day, the ticker, the last item done there, and whether
\* only the exit check is left.  A copy of it is what a pause hands back.
Positions == [day : AllDays, ticker : 1 .. TickerCount + 1, after : Nat, exits : BOOLEAN]
StartOf(day) == [day |-> day, ticker |-> 1, after |-> 0, exits |-> FALSE]
NoStall == [at |-> StartOf(0), count |-> 0]
FirstCursor ==
  [phase |-> "preflight", window |-> 1, pos |-> StartOf(TestStart(1)), stall |-> NoStall,
   completed |-> 0, counted |-> 0, idle |-> 0, skipped |-> 0]

VARIABLES
  news,        \* the items stored in INPUTS_DB
  checkpoints, \* per item, the pipeline stages that are checkpointed
  passed,      \* the items the walk went past
  exited,      \* the days whose exit check ran
  busy,        \* a position is open or an entry is pending
  status,      \* of the run: running, complete or failed
  cursor,      \* of the message that is queued or being executed
  part,        \* the executing part: what it does, and the locals of the walk
  budget,      \* SubrequestBudget of the invocation
  dies,        \* whether this behaviour has deaths; if not, it has late and skipped items
  faults

vars == <<news, checkpoints, passed, exited, busy, status, cursor, part, budget, dies, faults>>

-----------------------------------------------------------------------------
(* The budget: charge before send, refused over a limit and counted but     *)
(* never refused in a region that must not be cut in half.                  *)

FreshBudget ==
  [external |-> 0, total |-> 0, units |-> 0, seen |-> {},
   estimate |-> [item |-> ItemEstimate, exits |-> ExitsEstimate, score |-> ScoreEstimate]]
FitsExternal == budget.external < ExternalLimit /\ budget.total < TotalLimit
FitsInternal == budget.total < TotalLimit
Charged(b, external, internal) == [b EXCEPT !.external = @ + external, !.total = @ + external + internal]
\* The first unit of an invocation is always started, so that a part does something.
CanStart(kind) ==
  LET need == budget.estimate[kind] IN
  budget.units = 0 \/ (ExternalLimit - budget.external >= need.external /\ TotalLimit - budget.total >= need.total)
Larger(x, y) == IF x < y THEN y ELSE x
\* A finished unit's cost becomes the estimate of its kind, if it is the most seen.
RecordUnit(b, kind, before) ==
  LET cost == [external |-> b.external - before.external, total |-> b.total - before.total]
      old == b.estimate[kind]
  IN [b EXCEPT !.units = @ + 1, !.seen = @ \cup {kind},
               !.estimate[kind] = IF kind \in b.seen
                                  THEN [external |-> Larger(old.external, cost.external), total |-> Larger(old.total, cost.total)]
                                  ELSE cost]
Mark == [external |-> budget.external, total |-> budget.total]

-----------------------------------------------------------------------------
(* The ends of a part.                                                      *)

Idle == [pc |-> "idle", window |-> 1, pos |-> StartOf(TestStart(1)), items |-> {},
         mark |-> [external |-> 0, total |-> 0], completed |-> 0, skipped |-> 0]
EndPart == part' = Idle /\ budget' = FreshBudget
Fail == status' = "failed" /\ EndPart /\ UNCHANGED cursor

\* A part is idle when it finished no unit, made no model call and moved no ticker-day;
\* idle parts do not count toward MaxParts but have a limit of their own.
IsIdle(b) == b.units = 0 /\ b.external = 0 /\ part.completed = cursor.completed
IdleStreak_Reset(b) == 0
IdleStreak(b) == IF IsIdle(b) THEN cursor.idle + 1 ELSE 0
YieldPart(b, phase, stall) ==
  LET counted == cursor.counted + (IF IsIdle(b) THEN 0 ELSE 1) IN
  IF counted >= MaxParts \/ IdleStreak(b) > MaxIdleParts THEN Fail
  ELSE /\ cursor' = [phase |-> phase, window |-> part.window, pos |-> part.pos, stall |-> stall, counted |-> counted,
                     completed |-> part.completed, idle |-> IdleStreak(b), skipped |-> part.skipped]
       /\ EndPart /\ UNCHANGED status
\* The next unit does not fit, the budget ran out inside one, or every key has spent its
\* daily quota: a stall count is kept.
Pause(b) == YieldPart(b, "walk", cursor.stall)
\* The model is unavailable: only so many pauses in a row at one spot.
PauseForOutage(b) ==
  LET count == IF cursor.stall.at = part.pos THEN cursor.stall.count + 1 ELSE 1 IN
  IF count > MaxStalls THEN Fail ELSE YieldPart(b, "walk", [at |-> part.pos, count |-> count])

-----------------------------------------------------------------------------
(* The steps of a part.                                                     *)

Unstored == UNCHANGED <<news, checkpoints, passed, exited, busy, faults, dies>>

Start ==
  /\ status = "running" /\ part.pc = "idle"
  /\ part' = [Idle EXCEPT !.pc = cursor.phase, !.window = cursor.window, !.pos = cursor.pos,
                          !.completed = cursor.completed, !.skipped = cursor.skipped]
  /\ Unstored /\ UNCHANGED <<status, cursor, budget>>

\* Part 1 only: the registry row, the parameters and the prices, before any model call.
Preflight ==
  /\ part.pc = "preflight"
  /\ \/ /\ part' = [part EXCEPT !.pc = "walk"]
        /\ budget' = Charged(budget, 0, PreflightCost)
        /\ UNCHANGED <<status, cursor>>
     \/ Fail
  /\ Unstored

\* getDayNewsItems: the day's range clipped to the window's, so grace days read nothing.
DayNews(w, ticker, day) ==
  {i \in news : i.ticker = ticker /\ i.day = day /\ i.day \in TestStart(w) .. TestEnd(w) - 1}
IsAfterCursor(item, after) == item.key > after
ReadNews ==
  /\ part.pc = "walk" /\ ~part.pos.exits
  /\ LET pos == part.pos IN
     /\ part' = [part EXCEPT !.pc = "items",
                  !.items = {i \in DayNews(part.window, pos.ticker, pos.day) : IsAfterCursor(i, pos.after)}]
     /\ budget' = Charged(budget, 0, IF pos.day < TestEnd(part.window) THEN 1 ELSE 0)
  /\ Unstored /\ UNCHANGED <<status, cursor>>

\* The ticker-day counts once its news is done.
EndTicker ==
  /\ part.pc = "items" /\ part.items = {}
  /\ part' = [part EXCEPT !.pc = "walk", !.completed = @ + 1,
               !.pos = [day |-> @.day, ticker |-> @.ticker + 1, after |-> 0, exits |-> @.ticker = TickerCount]]
  /\ Unstored /\ UNCHANGED <<status, cursor, budget>>

Current == CHOOSE i \in part.items : \A j \in part.items : i.key <= j.key
\* An item begins by reading its checkpoint.
StartItem ==
  /\ part.pc = "items" /\ part.items # {}
  /\ IF CanStart("item") /\ FitsInternal
     THEN /\ part' = [part EXCEPT !.pc = "item", !.mark = Mark]
          /\ budget' = Charged(budget, 0, 1)
          /\ UNCHANGED <<status, cursor>>
     ELSE Pause(budget)
  /\ Unstored

\* A stage is a model call and a checkpoint; the last one is written with the decision,
\* which may open, replace or reject a position.
RunStage ==
  /\ part.pc = "item" /\ checkpoints[Current] < Stages
  /\ LET called == Charged(budget, 1, 0) IN
     IF ~FitsExternal THEN Pause(budget) /\ UNCHANGED <<checkpoints, passed, busy>>
     ELSE IF called.total >= TotalLimit THEN Pause(called) /\ UNCHANGED <<checkpoints, passed, busy>>
     ELSE /\ checkpoints' = [checkpoints EXCEPT ![Current] = @ + 1]
          /\ IF checkpoints'[Current] = Stages THEN passed' = passed \cup {Current} /\ busy' \in BOOLEAN
             ELSE UNCHANGED <<passed, busy>>
          /\ budget' = Charged(called, 0, 1)
          /\ UNCHANGED <<part, status, cursor>>
  /\ UNCHANGED <<news, exited, faults, dies>>

\* After some model calls, or none when everything is on cooldown.
ModelUnavailable ==
  /\ part.pc = "item" /\ checkpoints[Current] < Stages
  /\ \E calls \in 0 .. 1 :
       /\ calls = 0 \/ FitsExternal
       /\ PauseForOutage(Charged(budget, calls, 0)) \/ Pause(Charged(budget, calls, 0))
  /\ Unstored

GoPast(b) ==
  /\ budget' = RecordUnit(b, "item", part.mark)
  /\ part' = [part EXCEPT !.pc = "items", !.items = @ \ {Current}, !.pos.after = Current.key]
\* Done by now, or in an earlier delivery.
FinishItem ==
  /\ part.pc = "item" /\ checkpoints[Current] = Stages
  /\ GoPast(budget)
  /\ Unstored /\ UNCHANGED <<status, cursor>>
\* Output that is no JSON, or not of the schema.
SkipItem ==
  /\ ~dies /\ part.pc = "item" /\ checkpoints[Current] < Stages /\ FitsExternal
  /\ IF part.skipped + 1 > MaxSkipped THEN Fail /\ UNCHANGED passed
     ELSE /\ passed' = passed \cup {Current}
          /\ budget' = RecordUnit(Charged(budget, 1, 0), "item", part.mark)
          /\ part' = [part EXCEPT !.pc = "items", !.items = @ \ {Current}, !.pos.after = Current.key, !.skipped = @ + 1]
          /\ UNCHANGED <<status, cursor>>
  /\ UNCHANGED <<news, checkpoints, exited, busy, faults, dies>>

\* The walk may stop in the last window's tail, where no news can come.
MayStop_AnyDay(day, isBusy) == IsLastWindow(part.window) /\ ~isBusy
MayStop(day, isBusy) == IsLastWindow(part.window) /\ day >= TestEnd(part.window) /\ ~isBusy
AfterDay_TailUncounted(isBusy) ==
  LET day == part.pos.day
      left == WalkEnd(part.window) - day
  IN IF left > 0 /\ ~MayStop(day, isBusy) THEN [part EXCEPT !.pos = StartOf(day + 1)]
     ELSE IF ~IsLastWindow(part.window)
     THEN [part EXCEPT !.window = @ + 1, !.pos = StartOf(TestStart(part.window + 1))]
     ELSE [part EXCEPT !.pc = "score"]
AfterDay(isBusy) ==
  LET day == part.pos.day
      left == WalkEnd(part.window) - day
  IN IF left > 0 /\ ~MayStop(day, isBusy) THEN [part EXCEPT !.pos = StartOf(day + 1)]
     ELSE IF ~IsLastWindow(part.window)
     THEN [part EXCEPT !.window = @ + 1, !.pos = StartOf(TestStart(part.window + 1))]
     ELSE [part EXCEPT !.pc = "score", !.completed = @ + left * TickerCount]
\* Never cut in half.  Of a day that was checked before, it finds nothing to do.
CheckExits ==
  /\ part.pc = "walk" /\ part.pos.exits
  /\ IF ~CanStart("exits") THEN Pause(budget) /\ UNCHANGED <<exited, busy>>
     ELSE /\ exited' = exited \cup {part.pos.day}
          /\ busy' \in {busy} \cup (IF part.pos.day \in exited THEN {} ELSE {FALSE})
          /\ part' = AfterDay(busy')
          /\ \E cost \in ExitCosts :
               budget' = RecordUnit(Charged(budget, cost.external, cost.total - cost.external), "exits", Mark)
          /\ UNCHANGED <<status, cursor>>
  /\ UNCHANGED <<news, checkpoints, passed, faults, dies>>

Score ==
  /\ part.pc = "score"
  /\ IF ~CanStart("score") THEN YieldPart(budget, "score", NoStall)
     ELSE status' = "complete" /\ EndPart /\ UNCHANGED cursor
  /\ Unstored

\* A news read, an exit check or the scoring throws.
PartFails ==
  /\ part.pc \in {"walk", "score"}
  /\ Fail
  /\ Unstored

\* The worker dies, and the part is delivered again.
Die ==
  /\ dies /\ faults < MaxFaults /\ part.pc # "idle"
  /\ EndPart
  /\ faults' = faults + 1
  /\ UNCHANGED <<news, checkpoints, passed, exited, busy, status, cursor, dies>>

\* A backfill stores more news while the run is under way.
Arrive ==
  /\ ~dies /\ status = "running"
  /\ \E item \in Late \ news : news' = news \cup {item}
  /\ UNCHANGED <<checkpoints, passed, exited, busy, status, cursor, part, budget, faults, dies>>

Init ==
  /\ dies \in BOOLEAN
  /\ news = IF dies THEN Items ELSE Items \ Late
  /\ checkpoints = [i \in Items |-> 0]
  /\ passed = {} /\ exited = {} /\ busy = FALSE
  /\ status = "running" /\ cursor = FirstCursor
  /\ part = Idle /\ budget = FreshBudget /\ faults = 0

PartStep ==
  \/ Start \/ Preflight \/ ReadNews \/ EndTicker \/ StartItem \/ RunStage \/ ModelUnavailable \/ FinishItem
  \/ SkipItem \/ CheckExits \/ Score \/ PartFails

Next == PartStep \/ Die \/ Arrive

Spec == Init /\ [][Next]_vars

\* A delivered part runs on, and a queued one is delivered.
FairSpec == Spec /\ WF_vars(PartStep)

-----------------------------------------------------------------------------
(* Properties.                                                              *)

\* Type invariant.
WalkTypeOK ==
  /\ news \subseteq Items /\ passed \subseteq Items /\ exited \subseteq AllDays
  /\ checkpoints \in [Items -> 0 .. Stages]
  /\ status \in {"running", "complete", "failed"} /\ {busy, dies} \subseteq BOOLEAN
  /\ {cursor.window, part.window} \subseteq 1 .. WindowCount /\ {cursor.pos, part.pos} \subseteq Positions
  /\ part.items \subseteq Items

\* However the budget, outages of the model, deaths and redeliveries cut the walk up, its
\* decisions and exit checks come in the order of one uninterrupted, day-major walk.
DayMajor == INSTANCE DayMajorWalk WITH Days <- AllDays, TailStart <- TestEnd(WindowCount), over <- (status = "complete")
KeepsDayMajorOrder == DayMajor!Spec

\* A run that completes went past every item that was stored when it began and lies in
\* its windows, and past no day whose exit check was due; and the progress that was carried from
\* part to part reaches its total just then: no ticker-day is counted twice or left out at a
\* pause, in the tail or at a window's end.
Due == {i \in Items : i.day \in TestStart(1) .. TestEnd(WindowCount) - 1}
Owed == IF dies THEN Due ELSE Due \ Late
NothingSkipped ==
  /\ status = "complete" => Owed \subseteq passed
  /\ part.pc = "score" => part.completed = TotalSteps

\* What a run has left, the weightiest first: the run itself, deaths, news to come, parts, idle
\* parts, what a part is yet to begin, days, tickers, a ticker-day's news to read, items of it, an
\* item to begin, stages of the item.
Places == 1 .. 12
PhasesLeft(pc) == CASE pc = "idle" -> 3 [] pc = "preflight" -> 2 [] pc = "score" -> 0 [] OTHER -> 1
Left ==
  <<IF status = "running" THEN 1 ELSE 0, MaxFaults - faults, Cardinality(Items \ news),
    MaxParts - cursor.counted, MaxIdleParts - cursor.idle,
    PhasesLeft(part.pc), WalkEnd(WindowCount) - part.pos.day, TickerCount + 1 - part.pos.ticker,
    IF part.pc = "walk" THEN 1 ELSE 0, Cardinality(part.items),
    IF part.pc = "items" THEN 1 ELSE 0, IF part.pc = "item" THEN Stages - checkpoints[Current] ELSE 0>>
IsBelow(r, s) == \E k \in Places : r[k] < s[k] /\ \A j \in 1 .. k - 1 : r[j] = s[j]

\* Every step uses something up that only a weightier thing used up gives back: a step of the
\* walk, a pause, a redelivery and news that arrives.  So no part goes on for ever, and no run is
\* handed on for ever, whatever is paused, skipped, walked over again or stored meanwhile.
EveryStepCounts == [][IsBelow(Left', Left) /\ Left \in [Places -> Nat]]_vars

\* A run ends, also when the model never comes back or a part can do nothing.
WalkEnds == <>(status # "running")
=============================================================================

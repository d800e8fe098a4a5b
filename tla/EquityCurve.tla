----------------------------- MODULE EquityCurve -----------------------------
(***************************************************************************)
(* The signal side of a backtest's score for one position                  *)
(* (backtest/equity.js, onEquityReturns): what each day of the price grid  *)
(* books.  The position is marked at the day's close while it is active,   *)
(* realized at its exit price on the first day of the grid that is not     *)
(* before its close, and pays a cost when it enters and when it leaves.    *)
(* Prices are percentages of the entry price, money is in hundredths of a  *)
(* percent of the allocation, and costs are a percentage of a side.        *)
(***************************************************************************)
EXTENDS Integers, FiniteSetsExt

\* A trade: direction, opening and closing day, whether it is closed, exit price (0 is unknown).

Allocation == 10000
\* positionValueFactor; a short is worth nothing once the price has doubled
ValueAt(direction, price) ==
  100 * IF direction = "long" THEN price ELSE Max({0, 200 - price})
CostOf(value, costPct) == (value * costPct) \div 100

HasExit(trade) == trade.closed /\ trade.exitPrice > 0
SameDay(trade) == trade.closed /\ trade.closeDay = trade.openDay

ActiveOn_CloseDay(trade, day) ==
  /\ trade.openDay <= day
  /\ trade.closed => day <= trade.closeDay
\* Only days on which somebody has a bar are scored.
ActiveOn(trade, day) ==
  /\ trade.openDay <= day
  /\ trade.closed => IF SameDay(trade) THEN day = trade.openDay ELSE day < trade.closeDay
\* The first such day of the grid pays the exit.
IsPastClose(trade, day) == trade.closed /\ trade.closeDay <= day /\ trade.openDay < day

Unbooked == [entered |-> FALSE, value |-> 0, realized |-> FALSE, charged |-> FALSE, pnl |-> 0]

Realize(trade, book, day) ==
  IF HasExit(trade) /\ ~book.realized /\ book.entered /\ IsPastClose(trade, day)
  THEN LET value == ValueAt(trade.direction, trade.exitPrice)
       IN [book EXCEPT !.pnl = @ + value - book.value, !.value = value, !.realized = TRUE]
  ELSE book

ChargeExit(trade, book, day, costPct) ==
  IF book.entered /\ ~book.charged /\ IsPastClose(trade, day)
  THEN [book EXCEPT !.pnl = @ - CostOf(book.value, costPct), !.charged = TRUE]
  ELSE book

Enter(book, costPct) ==
  IF book.entered THEN book
  ELSE [book EXCEPT !.entered = TRUE, !.value = Allocation, !.pnl = @ - CostOf(Allocation, costPct)]

Mark(trade, book, close) ==
  LET byExit == HasExit(trade) /\ SameDay(trade)
      value == ValueAt(trade.direction, IF byExit THEN trade.exitPrice ELSE close)
  IN [book EXCEPT !.pnl = @ + value - book.value, !.value = value, !.realized = @ \/ byExit]

BookDay(trade, closes, costPct, book, day) ==
  LET left == ChargeExit(trade, Realize(trade, book, day), day, costPct)
  IN IF ActiveOn(trade, day) THEN Mark(trade, Enter(left, costPct), closes[day]) ELSE left

\* closes: [day of the grid -> close].  before[day] is what the earlier days of the grid book.
BookedBy(trade, closes, costPct) ==
  LET end == Max({0} \cup {day + 1 : day \in DOMAIN closes})
      before[day \in 0 .. end] ==
        IF day = 0 THEN Unbooked
        ELSE IF day - 1 \notin DOMAIN closes THEN before[day - 1]
        ELSE BookDay(trade, closes, costPct, before[day - 1], day - 1)
  IN before[end]
=============================================================================

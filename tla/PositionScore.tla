---------------------------- MODULE PositionScore ----------------------------
(* A position, walked to its close, and the equity curve that scores it over the daily bars. *)
EXTENDS PositionWalk, EquityCurve

CONSTANT SideCost   \* costBps, in percent of a side
ASSUME CostAssumption == SideCost \in Nat

Trade ==
  [direction |-> position.direction, openDay |-> DayOf(position.openedAt),
   closed |-> ~IsOpen, closeDay |-> DayOf(position.closedAt), exitPrice |-> position.price]
Closes == [day \in DOMAIN daily |-> daily[day].close]
Booked == BookedBy(Trade, Closes, SideCost)

\* The curve books a closed trade once and in full, whichever days have bars: the exit price
\* against the entry price and one cost a side, provided the grid has a day on which the trade was
\* held and a day that pays its exit.
TradeIsBookedOnce ==
  LET exit == ValueAt(position.direction, position.price)
  IN /\ HasExit(Trade)
     /\ \E day \in DOMAIN daily : ActiveOn(Trade, day)
     /\ \E day \in DOMAIN daily : IsPastClose(Trade, day)
     => Booked.pnl = exit - Allocation - CostOf(Allocation, SideCost) - CostOf(exit, SideCost)
=============================================================================

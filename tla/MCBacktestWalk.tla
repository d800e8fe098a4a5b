--------------------------- MODULE MCBacktestWalk ---------------------------
(* A small instance of BacktestWalk: two windows, one of them with a tail, two tickers. *)
EXTENDS BacktestWalk

Item(ticker, day, key) == [ticker |-> ticker, day |-> day, key |-> key]
Cost(external, total) == [external |-> external, total |-> total]

MCItems == {Item(1, 1, 1), Item(1, 1, 2), Item(2, 1, 1), Item(1, 3, 1), Item(2, 4, 1)}
MCLate == {Item(1, 1, 2)}
MCItemEstimate == Cost(2, 5)
MCExitsEstimate == Cost(1, 2)
MCScoreEstimate == Cost(0, 3)
MCExitCosts == {Cost(0, 1), Cost(1, 4)}
=============================================================================

--------------------------- MODULE MCPositionWalk ---------------------------
(* A small instance of PositionScore: days of two slots, the hold ends after a day that does not *)
(* count.  The initial stop is 10% away.                                                          *)
EXTENDS PositionScore

Shape(open, high, low, close) == [open |-> open, high |-> high, low |-> low, close |-> close]
Rise == Shape(104, 120, 103, 118)
Quiet == Shape(110, 111, 109, 110)
Dip == Shape(99, 101, 85, 96)
Gap == Shape(80, 82, 70, 75)
Spike == Shape(115, 130, 88, 100)
Halved == Shape(100, 100, 49, 50)
Inverted == Shape(100, 90, 110, 100)

\* The mirror image of a shape about the entry price.
Mirror(s) == Shape(200 - s.open, 200 - s.low, 200 - s.high, 200 - s.close)
ForLong == [intraday |-> {Rise, Dip, Inverted}, daily |-> {Quiet, Spike, Halved}]
MCShapes ==
  [long |-> ForLong,
   short |-> [intraday |-> {Mirror(Rise), Mirror(Gap)}, daily |-> {Mirror(Quiet), Mirror(Spike)}]]
MCOpenTimes == [long |-> {1}, short |-> {0}]

Knobs(breakEven, activation, distance, removes) ==
  [breakEven |-> breakEven, activation |-> activation, distance |-> distance, removesTarget |-> removes]
MCDefaultKnobs == Knobs(1, 2, 1, TRUE)
MCSettings == {[breakEven |-> 0, activation |-> 0]}
=============================================================================

---------------------------- MODULE DayMajorWalk ----------------------------
(***************************************************************************)
(* What a backtest's walk promises, however many parts it is cut into: the *)
(* order of one uninterrupted walk.  Days come one after the other; on a   *)
(* day the tickers' news, ticker by ticker, each in the order of           *)
(* publication; then the day's exit check.  So no decision sees a later    *)
(* day's positions, and no exit check runs before its day's news.          *)
(***************************************************************************)
EXTENDS Integers

CONSTANTS
  Items,   \* news: records with a day, a ticker and a key that orders a day's news
  Days,    \* the days to walk
  TailStart  \* the first day that can have no news

VARIABLES
  passed,  \* the items that were decided, or skipped for unusable model output
  exited,  \* the days whose exit check ran
  busy,    \* a position is open or an entry is pending
  over     \* the walk is complete

vars == <<passed, exited, busy, over>>

Before(i, j) ==
  \/ i.day < j.day
  \/ i.day = j.day /\ i.ticker < j.ticker
  \/ i.day = j.day /\ i.ticker = j.ticker /\ i.key < j.key
DaysBefore(day) == {d \in Days : d < day}

Init == passed = {} /\ exited = {} /\ ~busy /\ ~over

Decide(item) ==
  /\ ~over
  /\ item.day \in Days \ exited /\ DaysBefore(item.day) \subseteq exited
  /\ \A other \in passed : Before(other, item)
  /\ passed' = passed \cup {item}
  /\ busy' \in BOOLEAN
  /\ UNCHANGED <<exited, over>>

CheckExits(day) ==
  /\ ~over
  /\ day \in Days \ exited /\ DaysBefore(day) \subseteq exited
  /\ exited' = exited \cup {day}
  /\ busy' \in {busy, FALSE}
  /\ UNCHANGED <<passed, over>>

\* With nothing open or pending, the rest of the tail can be left out.
Finish ==
  /\ ~over /\ DaysBefore(TailStart) \subseteq exited
  /\ Days \subseteq exited \/ ~busy
  /\ over' = TRUE
  /\ UNCHANGED <<passed, exited, busy>>

Next == (\E item \in Items : Decide(item)) \/ (\E day \in Days : CheckExits(day)) \/ Finish

Spec == Init /\ [][Next]_vars
=============================================================================

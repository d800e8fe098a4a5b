------------------------- MODULE BacktestWalk_proofs -------------------------
(***************************************************************************)
(* For any run, windows, news, budget and limits: however the walk is cut  *)
(* into parts, it is the day-major walk of DayMajorWalk, it leaves nothing *)
(* out and its progress count comes out right; and it takes only so many   *)
(* steps, since each uses up some of what the run has left.                *)
(***************************************************************************)
EXTENDS BacktestWalk, FiniteSetTheorems, WellFoundedInduction, TLAPS

-----------------------------------------------------------------------------
(* The inductive invariant.                                                 *)

PartFields == {"pc", "window", "pos", "items", "mark", "completed", "skipped"}
CursorFields == {"phase", "window", "pos", "stall", "completed", "counted", "idle", "skipped"}

WalkTypes ==
  /\ WalkTypeOK
  /\ DOMAIN part = PartFields /\ DOMAIN cursor = CursorFields
  /\ part.pc \in {"idle", "preflight", "walk", "items", "item", "score"}
  /\ cursor.phase \in {"preflight", "walk", "score"}

\* The item's place in the walk is at or before pos.
IsPast(item, pos) ==
  \/ item.day < pos.day
  \/ item.day = pos.day /\ item.ticker < pos.ticker
  \/ item.day = pos.day /\ item.ticker = pos.ticker /\ item.key <= pos.after

\* The ticker-days before pos.
StepsAt(pos) == TickerCount * (pos.day - TestStart(1)) + pos.ticker - 1

\* A walk that stands at pos has done everything before it, and counted it once.
PlaceOK(window, pos, completed) ==
  /\ pos.day \in WalkDays(window)
  /\ pos.exits <=> pos.ticker = TickerCount + 1
  /\ completed = StepsAt(pos)
  /\ DayMajor!DaysBefore(pos.day) \subseteq exited
  /\ \A i \in Owed : IsPast(i, pos) => i \in passed

\* A walk that is to be scored has nothing left to do.
WalkDone(completed) ==
  /\ completed = TotalSteps
  /\ Owed \subseteq passed
  /\ DayMajor!DaysBefore(TestEnd(WindowCount)) \subseteq exited
  /\ AllDays \subseteq exited \/ ~busy

\* What a part holds of a ticker-day's news: all that is owed after pos, and nothing up to it.
ItemsOK ==
  /\ ~part.pos.exits
  /\ \A i \in part.items : i \in Due /\ i.ticker = part.pos.ticker /\ i.day = part.pos.day /\ i.key > part.pos.after
  /\ \A i \in Owed : i.ticker = part.pos.ticker /\ i.day = part.pos.day /\ i.key > part.pos.after => i \in part.items

PartOK ==
  /\ part.pc # "idle" => status = "running"
  /\ part.pc \in {"preflight", "walk", "items", "item"} => PlaceOK(part.window, part.pos, part.completed)
  /\ part.pc \in {"items", "item"} => ItemsOK
  /\ part.pc = "item" => part.items # {}
  /\ part.pc = "score" => WalkDone(part.completed)

CursorOK ==
  /\ cursor.phase # "score" => PlaceOK(cursor.window, cursor.pos, cursor.completed)
  /\ cursor.phase = "score" => WalkDone(cursor.completed) /\ part.pc \in {"idle", "score"}

StoreOK ==
  /\ Owed \subseteq news
  /\ \A i \in Items : checkpoints[i] = Stages => i \in passed
  /\ status = "complete" => Owed \subseteq passed

\* With deaths, the work done may be ahead of the part, which walks over it again: what was
\* decided and checked is the beginning of the walk, with no gap.
NoGaps ==
  /\ \A i \in passed : checkpoints[i] = Stages
  /\ \A j \in passed : \A i \in Due : DayMajor!Before(i, j) => i \in passed
  /\ \A day \in exited : \A i \in Due : i.day <= day => i \in passed

\* Without deaths, nothing is ahead of where the walk stands.
Front == IF part.pc = "idle" THEN cursor.pos ELSE part.pos
FrontPhase == IF part.pc = "idle" THEN cursor.phase ELSE part.pc
NothingAhead ==
  status = "running" /\ FrontPhase # "score" =>
    /\ \A day \in exited : day < Front.day
    /\ \A i \in passed : IsPast(i, Front) \/ (part.pc = "item" /\ i = Current /\ checkpoints[i] = Stages)

WalkInv ==
  /\ WalkTypes /\ PartOK /\ CursorOK /\ StoreOK
  /\ dies => NoGaps
  /\ ~dies => NothingAhead
-----------------------------------------------------------------------------
(* Natural numbers.                                                         *)

LEMMA TimesIsMonotone ==
  ASSUME NEW a \in Nat, NEW b \in Nat, NEW c \in Nat, a <= b
  PROVE  a * c <= b * c
<1>1. PICK d \in Nat : b = a + d
  <2> WITNESS b - a \in Nat
  <2> QED
    OBVIOUS
<1>2. b * c = a * c + d * c /\ d * c \in Nat
  BY <1>1
<1> QED
  BY <1>2

LEMMA LeastNatural ==
  ASSUME NEW T, T \subseteq Nat, T # {}
  PROVE  \E x \in T : \A y \in T : x <= y
<1> DEFINE less == {ss \in Nat \X Nat : ss[1] < ss[2]}
<1>1. IsWellFoundedOn(less, Nat)
  BY NatLessThanWellFounded DEF OpToRel
<1>2. \E x \in T : \A y \in T : ~ (<<y, x>> \in less)
  <2> HIDE DEF less
  <2> QED
    BY <1>1, WFMin
<1>3. PICK x \in T : \A y \in T : ~ (<<y, x>> \in less)
  BY <1>2
<1>4. ASSUME NEW y \in T, y < x PROVE FALSE
  <2>1. <<y, x>> \in less
    BY <1>4
  <2> QED
    BY <2>1, <1>3
<1> QED
  BY <1>4

\* Induction, over a set in place of an operator.
LEMMA SetInduction ==
  ASSUME NEW S, NEW last \in Nat, 0 \in S, \A n \in 0 .. last - 1 : n \in S => n + 1 \in S
  PROVE  0 .. last \subseteq S
<1> DEFINE T == {n \in 0 .. last : n \notin S}
<1>1. SUFFICES ASSUME T # {} PROVE FALSE
  OBVIOUS
<1>2. PICK x \in T : \A y \in T : x <= y
  <2>1. T \subseteq Nat
    OBVIOUS
  <2> HIDE DEF T
  <2> QED
    BY <1>1, <2>1, LeastNatural
<1>3. x \in 1 .. last /\ x \notin S /\ x - 1 \in 0 .. last - 1 /\ x - 1 \notin T
  BY <1>2
<1> QED
  BY <1>3

-----------------------------------------------------------------------------
(* The windows.                                                             *)

LEMMA WindowCountFacts ==
  /\ WindowCount \in Nat \ {0}
  /\ TestEnd(WindowCount) <= EndDay /\ TestEnd(WindowCount) \in Nat
<1> DEFINE span == EndDay - StartDay - TrainDays
<1>1. span \in Nat /\ TestDays \in Nat /\ span >= TestDays /\ TestDays > 0
  BY DaysAssumption, SpanAssumption
<1>2. span \div TestDays \in Nat /\ span \div TestDays # 0 /\ (span \div TestDays) * TestDays <= span
  <2> HIDE DEF span
  <2> QED
    BY <1>1
<1>3. WindowCount \in Nat \ {0} /\ WindowCount * TestDays <= span
  BY <1>2 DEF WindowCount
<1>4. (WindowCount - 1) * TestDays + TestDays = WindowCount * TestDays
  BY <1>1, <1>3
<1>5. WindowCount * TestDays \in Nat
  BY <1>1, <1>3
<1> QED
  BY <1>1, <1>3, <1>4, <1>5, DaysAssumption DEF TestEnd, TestStart

LEMMA WindowFacts ==
  ASSUME NEW w \in 1 .. WindowCount
  PROVE  /\ TestStart(w) \in Nat /\ TestStart(1) \in Nat /\ TestStart(1) <= TestStart(w)
         /\ TestEnd(w) = TestStart(w + 1) /\ TestEnd(w) = TestStart(w) + TestDays
         /\ TestEnd(w) <= TestEnd(WindowCount)
         /\ WalkEnd(w) \in Nat /\ TestEnd(w) - 1 <= WalkEnd(w) /\ TestStart(w) <= WalkEnd(w)
         /\ w = WindowCount => TestEnd(w) <= WalkEnd(w)
         /\ w # WindowCount => WalkEnd(w) = TestEnd(w) - 1 /\ w + 1 \in 1 .. WindowCount
<1>1. WindowCount \in Nat \ {0} /\ w \in Nat \ {0} /\ TestDays \in Nat \ {0} /\ TestEnd(WindowCount) <= EndDay
  BY WindowCountFacts, DaysAssumption
<1>2. /\ (w - 1) * TestDays \in Nat /\ w * TestDays = (w - 1) * TestDays + TestDays
      /\ (1 - 1) * TestDays = 0
      /\ WindowCount * TestDays = (WindowCount - 1) * TestDays + TestDays
      /\ (WindowCount - 1) * TestDays \in Nat
  BY <1>1
<1>3. (w - 1) * TestDays <= (WindowCount - 1) * TestDays
  BY <1>1, TimesIsMonotone
<1>4. /\ TestStart(w) \in Nat /\ TestStart(1) \in Nat /\ TestStart(1) <= TestStart(w)
      /\ TestEnd(w) = TestStart(w) + TestDays
      /\ TestEnd(w) <= TestEnd(WindowCount) /\ TestEnd(w) \in Nat
  BY <1>1, <1>2, <1>3, DaysAssumption DEF TestStart, TestEnd
<1>5. TestEnd(w) = TestStart(w + 1)
  <2>1. TestStart(w + 1) = StartDay + TrainDays + w * TestDays
    BY <1>1 DEF TestStart
  <2> QED
    BY <2>1, <1>1, <1>2, DaysAssumption DEF TestStart, TestEnd
<1>6. w = WindowCount => TestEnd(w) <= WalkEnd(w) /\ WalkEnd(w) \in Nat
  BY <1>1, <1>4, DaysAssumption, SpanAssumption DEF WalkEnd, IsLastWindow
<1>7. w # WindowCount => WalkEnd(w) = TestEnd(w) - 1 /\ w + 1 \in 1 .. WindowCount
  BY <1>1 DEF WalkEnd, IsLastWindow
<1> QED
  BY <1>1, <1>4, <1>5, <1>6, <1>7

LEMMA AllDaysFacts ==
  /\ AllDays \subseteq Nat
  /\ \A day \in AllDays : TestStart(1) <= day /\ day <= WalkEnd(WindowCount)
  /\ \A w \in 1 .. WindowCount : WalkDays(w) \subseteq AllDays /\ TestStart(w) \in WalkDays(w)
<1>1. WindowCount \in 1 .. WindowCount
  BY WindowCountFacts
<1>2. ASSUME NEW w \in 1 .. WindowCount, NEW day \in WalkDays(w)
      PROVE  day \in Nat /\ TestStart(1) <= day /\ day <= WalkEnd(WindowCount)
  <2>1. /\ TestStart(1) \in Nat /\ TestStart(w) \in Nat /\ TestStart(1) <= TestStart(w)
        /\ WalkEnd(w) \in Nat /\ TestEnd(w) <= TestEnd(WindowCount) /\ TestEnd(w) \in Int
        /\ w # WindowCount => WalkEnd(w) = TestEnd(w) - 1
    BY WindowFacts, DaysAssumption
  <2>2. TestEnd(WindowCount) <= WalkEnd(WindowCount) /\ WalkEnd(WindowCount) \in Nat /\ TestEnd(WindowCount) \in Nat
    BY <1>1, WindowFacts, WindowCountFacts
  <2>3. WalkEnd(w) <= WalkEnd(WindowCount)
    BY <2>1, <2>2
  <2> QED
    BY <2>1, <2>2, <2>3 DEF WalkDays
<1>3. \A w \in 1 .. WindowCount : TestStart(w) \in WalkDays(w)
  BY WindowFacts DEF WalkDays
<1> QED
  BY <1>2, <1>3 DEF AllDays
-----------------------------------------------------------------------------
(* The progress total.                                                      *)

\* The windows' ticker-days, added up window by window, are those from the first day to the last.
LEMMA StepsThroughValue ==
  \A w \in 1 .. WindowCount : StepsThrough[w] = TickerCount * (WalkEnd(w) + 1 - TestStart(1))
<1> DEFINE through(w) == IF w = 0 THEN 0 ELSE TickerCount * (WalkEnd(w) + 1 - TestStart(1))
           sums == [w \in 0 .. WindowCount |-> through(w)]
           step(f, w) == IF w = 0 THEN 0 ELSE f[w - 1] + TickerCount * Cardinality(WalkDays(w))
<1>1. WindowCount \in Nat /\ TickerCount \in Nat
  BY WindowCountFacts, LimitsAssumption
<1>2. ASSUME NEW w \in 1 .. WindowCount
      PROVE  through(w) = through(w - 1) + TickerCount * Cardinality(WalkDays(w))
  <2>1. Cardinality(WalkDays(w)) = WalkEnd(w) + 1 - TestStart(w)
    <3>1. WalkEnd(w) \in Int /\ TestStart(w) \in Int /\ TestStart(w) <= WalkEnd(w)
      BY WindowFacts
    <3> QED
      BY <3>1, FS_Interval DEF WalkDays
  <2>2. CASE w = 1
    <3>1. WalkEnd(1) \in Int /\ TestStart(1) \in Int
      BY <2>2, WindowFacts
    <3>2. TickerCount * (WalkEnd(1) + 1 - TestStart(1)) \in Int
      BY <3>1, <1>1
    <3>3. through(0) = 0 /\ through(1) = TickerCount * (WalkEnd(1) + 1 - TestStart(1))
      OBVIOUS
    <3>4. through(1) = through(0) + TickerCount * Cardinality(WalkDays(1))
      BY <2>1, <2>2, <3>2, <3>3
    <3> QED
      BY <2>2, <3>4
  <2>3. CASE w # 1
    <3>1. w - 1 \in 1 .. WindowCount /\ w - 1 # WindowCount /\ (w - 1) + 1 = w
      BY <1>1, <2>3
    <3>2. WalkEnd(w - 1) + 1 = TestStart(w) /\ WalkEnd(w - 1) \in Int
      <4> DEFINE v == w - 1
      <4>1. v \in 1 .. WindowCount /\ v # WindowCount /\ v + 1 = w
        BY <3>1
      <4> HIDE DEF v
      <4>2. WalkEnd(v) = TestEnd(v) - 1 /\ TestEnd(v) = TestStart(v + 1) /\ WalkEnd(v) \in Nat
        BY <4>1, WindowFacts
      <4>3. TestStart(w) \in Nat
        BY WindowFacts
      <4>4. WalkEnd(v) + 1 = TestStart(w)
        BY <4>1, <4>2, <4>3
      <4> QED
        BY <4>2, <4>4 DEF v
    <3>3. WalkEnd(w) \in Int /\ TestStart(w) \in Int /\ TestStart(1) \in Int
      BY WindowFacts
    <3>4. through(w - 1) = TickerCount * (TestStart(w) - TestStart(1))
      <4>1. w - 1 # 0
        BY <3>1
      <4>2. through(w - 1) = TickerCount * (WalkEnd(w - 1) + 1 - TestStart(1))
        BY <4>1
      <4>3. WalkEnd(w - 1) + 1 - TestStart(1) = TestStart(w) - TestStart(1)
        BY <3>2, <3>3
      <4> HIDE DEF through
      <4> QED
        BY <4>2, <4>3
    <3>5. \A a, b, c \in Int : TickerCount * (b - a) + TickerCount * (c + 1 - b) = TickerCount * (c + 1 - a)
      BY <1>1
    <3>6. TickerCount * (TestStart(w) - TestStart(1)) + TickerCount * (WalkEnd(w) + 1 - TestStart(w))
          = TickerCount * (WalkEnd(w) + 1 - TestStart(1))
      BY <3>3, <3>5
    <3> QED
      BY <3>4, <3>6, <2>1
  <2> QED
    BY <2>2, <2>3
<1>3. \A w \in 0 .. WindowCount : sums[w] = step(sums, w)
  BY <1>1, <1>2
<1>4. sums = [w \in 0 .. WindowCount |-> step(sums, w)]
  BY <1>3
<1>5. StepsThrough = [w \in 0 .. WindowCount |-> step(StepsThrough, w)]
  <2> DEFINE isSolution(f) == f = [w \in 0 .. WindowCount |-> step(f, w)]
  <2>1. isSolution(sums)
    BY <1>4
  <2>2. isSolution(CHOOSE f : isSolution(f))
    <3> HIDE DEF isSolution, sums
    <3> QED
      BY <2>1
  <2>3. StepsThrough = CHOOSE f : isSolution(f)
    BY DEF StepsThrough
  <2> QED
    BY <2>2, <2>3
<1> DEFINE agree == {w \in 0 .. WindowCount : StepsThrough[w] = sums[w]}
<1>6. 0 .. WindowCount \subseteq agree
  <2>1. 0 \in agree
    BY <1>1, <1>5
  <2>2. ASSUME NEW n \in 0 .. WindowCount - 1, n \in agree PROVE n + 1 \in agree
    <3>1. n + 1 \in 0 .. WindowCount /\ n + 1 # 0 /\ (n + 1) - 1 = n
      BY <1>1
    <3>2. sums[n + 1] = step(sums, n + 1) /\ StepsThrough[n + 1] = step(StepsThrough, n + 1)
      BY <1>4, <1>5, <3>1
    <3>3. sums[n] = StepsThrough[n]
      BY <2>2
    <3> HIDE DEF sums
    <3> QED
      BY <3>1, <3>2, <3>3
  <2> HIDE DEF agree
  <2> QED
    BY <1>1, <2>1, <2>2, SetInduction
<1> QED
  BY <1>6, <1>1

LEMMA TotalStepsValue == TotalSteps = TickerCount * (WalkEnd(WindowCount) - TestStart(1)) + TickerCount
<1>1. WindowCount \in 1 .. WindowCount /\ TickerCount \in Nat
  BY WindowCountFacts, LimitsAssumption
<1>2. WalkEnd(WindowCount) \in Int /\ TestStart(1) \in Int
  BY <1>1, WindowFacts
<1>3. TotalSteps = TickerCount * (WalkEnd(WindowCount) + 1 - TestStart(1))
  BY <1>1, StepsThroughValue DEF TotalSteps
<1>4. \A a, b \in Int : TickerCount * (b + 1 - a) = TickerCount * (b - a) + TickerCount
  BY <1>1
<1> QED
  BY <1>2, <1>3, <1>4

-----------------------------------------------------------------------------
(* Helpers.                                                                 *)

LEMMA ItemFacts ==
  \A i \in Items :
    /\ i.ticker \in 1 .. TickerCount /\ i.day \in Nat /\ i.key \in Nat \ {0}
    /\ \A j \in Items : i.ticker = j.ticker /\ i.day = j.day /\ i.key = j.key => i = j
  BY ItemsAssumption DEF Tickers

LEMMA OwedFacts == Owed \subseteq Due /\ Due \subseteq Items /\ (dies => Owed = Due)
  BY DEF Owed, Due

LEMMA PositionFacts ==
  ASSUME NEW pos \in Positions
  PROVE  /\ pos.day \in Nat /\ pos.day \in AllDays
         /\ pos.ticker \in 1 .. TickerCount + 1 /\ pos.after \in Nat /\ pos.exits \in BOOLEAN
         /\ DOMAIN pos = {"day", "ticker", "after", "exits"}
  BY AllDaysFacts DEF Positions

LEMMA StartOfFacts ==
  ASSUME NEW day \in AllDays
  PROVE  /\ StartOf(day) \in Positions
         /\ StartOf(day).day = day /\ StartOf(day).ticker = 1 /\ StartOf(day).after = 0 /\ StartOf(day).exits = FALSE
  BY LimitsAssumption DEF StartOf, Positions

LEMMA FirstDay ==
  /\ 1 \in 1 .. WindowCount /\ TestStart(1) \in AllDays /\ TestStart(1) \in WalkDays(1)
  /\ \A day \in AllDays : TestStart(1) <= day
  BY WindowCountFacts, AllDaysFacts

LEMMA IdleFacts ==
  /\ DOMAIN Idle = PartFields /\ Idle.pc = "idle"
  /\ Idle.window \in 1 .. WindowCount /\ Idle.pos \in Positions /\ Idle.items = {}
<1>1. StartOf(TestStart(1)) \in Positions
  BY FirstDay, StartOfFacts
<1> QED
  BY <1>1, FirstDay DEF Idle, PartFields

LEMMA CurrentFacts ==
  ASSUME part.items \subseteq Items, part.items # {}
  PROVE  Current \in part.items /\ \A j \in part.items : Current.key <= j.key
<1> DEFINE keys == {i.key : i \in part.items}
<1>1. keys \subseteq Nat /\ keys # {}
  BY ItemFacts
<1>2. PICK k \in keys : \A other \in keys : k <= other
  <2> HIDE DEF keys
  <2> QED
    BY <1>1, LeastNatural
<1>3. PICK i \in part.items : i.key = k
  BY <1>2
<1>4. \E j \in part.items : \A other \in part.items : j.key <= other.key
  BY <1>2, <1>3
<1> QED
  BY <1>4 DEF Current

\* What is before one place is before every later one.
LEMMA PlaceGrows ==
  ASSUME NEW w, NEW pos, NEW completed, PlaceOK(w, pos, completed),
         passed \subseteq passed', exited \subseteq exited', dies' = dies
  PROVE  PlaceOK(w, pos, completed)'
  BY DEF PlaceOK, Owed

-----------------------------------------------------------------------------
(* A part ends.                                                             *)

\* It fails, completes or dies: the cursor stays.
LEMMA EndedStep ==
  ASSUME WalkInv, part.pc # "idle", part' = Idle,
         UNCHANGED <<news, checkpoints, passed, exited, busy, cursor, dies>>,
         status' \in {"running", "complete", "failed"},
         status' = "complete" => Owed \subseteq passed,
         status' = "running" => dies
  PROVE  WalkInv'
<1>1. WalkTypes'
  BY IdleFacts DEF WalkInv, WalkTypes, WalkTypeOK
<1>2. PartOK'
  BY IdleFacts DEF PartOK
<1>3. CursorOK'
  BY IdleFacts DEF WalkInv, CursorOK, PlaceOK, WalkDone, Owed
<1>4. StoreOK'
  BY DEF WalkInv, StoreOK, Owed
<1>5. dies' => NoGaps'
  BY DEF WalkInv, NoGaps
<1>6. ~dies' => NothingAhead'
  BY DEF NothingAhead
<1> QED
  BY <1>1, <1>2, <1>3, <1>4, <1>5, <1>6 DEF WalkInv

LEMMA FailStep ==
  ASSUME WalkInv, part.pc # "idle", Fail, UNCHANGED <<news, checkpoints, passed, exited, busy, dies>>
  PROVE  WalkInv'
  BY EndedStep DEF Fail, EndPart

\* It pauses: the next part stands where this one did.
LEMMA YieldStep ==
  ASSUME WalkInv, NEW b, NEW phase, NEW stall, YieldPart(b, phase, stall),
         UNCHANGED <<news, checkpoints, passed, exited, busy, dies>>,
         \/ phase = "score" /\ part.pc = "score"
         \/ phase = "walk" /\ part.pc \in {"walk", "items"}
         \/ phase = "walk" /\ part.pc = "item" /\ checkpoints[Current] < Stages
  PROVE  WalkInv'
<1>1. CASE Fail
  BY <1>1, FailStep
<1>2. CASE ~Fail
  <2>1. /\ part' = Idle /\ UNCHANGED status
        /\ DOMAIN cursor' = CursorFields /\ cursor'.phase = phase
        /\ cursor'.window = part.window /\ cursor'.pos = part.pos /\ cursor'.completed = part.completed
    BY <1>2 DEF YieldPart, EndPart, CursorFields
  <2>2. WalkTypes'
    BY <2>1, IdleFacts DEF WalkInv, WalkTypes, WalkTypeOK
  <2>3. PartOK'
    BY <2>1, IdleFacts DEF PartOK
  <2>4. CursorOK'
    BY <2>1, IdleFacts DEF WalkInv, PartOK, CursorOK, PlaceOK, WalkDone, Owed
  <2>5. StoreOK'
    BY <2>1 DEF WalkInv, StoreOK, Owed
  <2>6. dies' => NoGaps'
    BY DEF WalkInv, NoGaps
  <2>7. ~dies' => NothingAhead'
    <3>1. SUFFICES ASSUME ~dies, phase = "walk", status = "running"
                   PROVE  (\A day \in exited : day < part.pos.day) /\ \A i \in passed : IsPast(i, part.pos)
      BY <2>1, IdleFacts DEF NothingAhead, Front, FrontPhase, IsPast
    <3>2. ~(\E i \in passed : part.pc = "item" /\ i = Current /\ checkpoints[i] = Stages)
      BY <3>1, LimitsAssumption
    <3> QED
      BY <3>1, <3>2 DEF WalkInv, NothingAhead, Front, FrontPhase
  <2> QED
    BY <2>2, <2>3, <2>4, <2>5, <2>6, <2>7 DEF WalkInv
<1> QED
  BY <1>1, <1>2

LEMMA PauseStep ==
  ASSUME WalkInv, NEW b, Pause(b) \/ PauseForOutage(b),
         UNCHANGED <<news, checkpoints, passed, exited, busy, dies>>,
         \/ part.pc \in {"walk", "items"}
         \/ part.pc = "item" /\ checkpoints[Current] < Stages
  PROVE  WalkInv'
<1>1. CASE Fail
  BY <1>1, FailStep
<1>2. CASE ~Fail
  BY <1>2, YieldStep DEF Pause, PauseForOutage
<1> QED
  BY <1>1, <1>2

-----------------------------------------------------------------------------
(* A part goes on.                                                          *)

LEMMA StartStep ==
  ASSUME WalkInv, Start
  PROVE  WalkInv'
<1>1. /\ part' = [Idle EXCEPT !.pc = cursor.phase, !.window = cursor.window, !.pos = cursor.pos,
                              !.completed = cursor.completed, !.skipped = cursor.skipped]
      /\ part.pc = "idle" /\ status = "running"
      /\ UNCHANGED <<news, checkpoints, passed, exited, busy, faults, dies, status, cursor, budget>>
  BY DEF Start, Unstored
<1>2. /\ DOMAIN part' = PartFields /\ part'.pc = cursor.phase /\ part'.items = {}
      /\ part'.window = cursor.window /\ part'.pos = cursor.pos /\ part'.completed = cursor.completed
  BY <1>1, IdleFacts DEF PartFields
<1>3. cursor.phase \in {"preflight", "walk", "score"}
  BY DEF WalkInv, WalkTypes
<1>4. WalkTypes'
  BY <1>1, <1>2 DEF WalkInv, WalkTypes, WalkTypeOK
<1>5. PartOK'
  BY <1>1, <1>2, <1>3 DEF WalkInv, CursorOK, PartOK, PlaceOK, WalkDone, Owed
<1>6. CursorOK'
  BY <1>1, <1>2 DEF WalkInv, CursorOK, PlaceOK, WalkDone, Owed
<1>7. StoreOK'
  BY <1>1 DEF WalkInv, StoreOK, Owed
<1>8. dies' => NoGaps'
  BY <1>1 DEF WalkInv, NoGaps
<1>9. ~dies' => NothingAhead'
  BY <1>1, <1>2 DEF WalkInv, NothingAhead, Front, FrontPhase, IsPast
<1> QED
  BY <1>4, <1>5, <1>6, <1>7, <1>8, <1>9 DEF WalkInv

\* A step within a part that is to be walked: what it must establish.
LEMMA MoveStep ==
  ASSUME WalkInv, part.pc \in {"preflight", "walk", "items", "item"},
         UNCHANGED <<cursor, status, dies, news>>,
         passed \subseteq passed', passed' \subseteq Items, exited \subseteq exited', exited' \subseteq AllDays,
         busy' \in BOOLEAN, checkpoints' \in [Items -> 0 .. Stages],
         \A i \in Items : checkpoints'[i] = Stages => i \in passed',
         DOMAIN part' = PartFields, part'.pc \in {"walk", "items", "item", "score"},
         part'.window \in 1 .. WindowCount, part'.pos \in Positions, part'.items \subseteq Items,
         part'.pc # "score" => PlaceOK(part.window, part.pos, part.completed)',
         part'.pc = "score" => WalkDone(part.completed)',
         part'.pc \in {"items", "item"} => ItemsOK',
         part'.pc = "item" => part'.items # {},
         dies => NoGaps',
         ~dies => NothingAhead'
  PROVE  WalkInv'
<1>1. WalkTypes'
  BY DEF WalkInv, WalkTypes, WalkTypeOK
<1>2. PartOK'
  BY DEF WalkInv, PartOK
<1>3. CursorOK'
  BY PlaceGrows DEF WalkInv, CursorOK
<1>4. StoreOK'
  BY DEF WalkInv, StoreOK, Owed
<1> QED
  BY <1>1, <1>2, <1>3, <1>4 DEF WalkInv

LEMMA PreflightStep ==
  ASSUME WalkInv, Preflight
  PROVE  WalkInv'
<1>1. part.pc = "preflight" /\ UNCHANGED <<news, checkpoints, passed, exited, busy, faults, dies>>
  BY DEF Preflight, Unstored
<1>2. CASE Fail
  BY <1>1, <1>2, FailStep
<1>3. CASE part' = [part EXCEPT !.pc = "walk"] /\ UNCHANGED <<status, cursor>>
  <2>1. /\ DOMAIN part' = PartFields /\ part'.pc = "walk" /\ part'.items = part.items
        /\ part'.window = part.window /\ part'.pos = part.pos /\ part'.completed = part.completed
    BY <1>3 DEF WalkInv, WalkTypes, PartFields
  <2>2. PlaceOK(part.window, part.pos, part.completed)'
    BY <1>1, <2>1 DEF WalkInv, PartOK, PlaceOK, Owed
  <2>3. dies => NoGaps'
    BY <1>1 DEF WalkInv, NoGaps
  <2>4. ~dies => NothingAhead'
    BY <1>1, <1>3, <2>1 DEF WalkInv, NothingAhead, Front, FrontPhase, IsPast
  <2> QED
    BY <1>1, <1>3, <2>1, <2>2, <2>3, <2>4, MoveStep DEF WalkInv, WalkTypes, WalkTypeOK, StoreOK
<1> QED
  BY <1>2, <1>3 DEF Preflight

LEMMA ReadNewsStep ==
  ASSUME WalkInv, ReadNews
  PROVE  WalkInv'
<1>1. /\ part.pc = "walk" /\ ~part.pos.exits
      /\ UNCHANGED <<news, checkpoints, passed, exited, busy, faults, dies, status, cursor>>
  BY DEF ReadNews, Unstored
<1> DEFINE ahead == {i \in DayNews(part.window, part.pos.ticker, part.pos.day) : IsAfterCursor(i, part.pos.after)}
<1>2. /\ DOMAIN part' = PartFields /\ part'.pc = "items" /\ part'.items = ahead
      /\ part'.window = part.window /\ part'.pos = part.pos /\ part'.completed = part.completed
  BY DEF ReadNews, WalkInv, WalkTypes, PartFields
<1>3. PlaceOK(part.window, part.pos, part.completed)'
  BY <1>1, <1>2 DEF WalkInv, PartOK, PlaceOK, Owed
<1>4. part.window \in 1 .. WindowCount /\ part.pos.day \in WalkDays(part.window) /\ part.pos \in Positions
  BY <1>1 DEF WalkInv, WalkTypes, WalkTypeOK, PartOK, PlaceOK
<1>5. ahead \subseteq Items /\ \A i \in ahead :
        /\ i.ticker = part.pos.ticker /\ i.day = part.pos.day /\ i.key > part.pos.after
        /\ i.day \in TestStart(part.window) .. TestEnd(part.window) - 1
  BY DEF DayNews, IsAfterCursor, WalkInv, WalkTypes, WalkTypeOK
<1>6. ASSUME NEW w \in 1 .. WindowCount, NEW day \in Int
      PROVE  /\ day \in TestStart(w) .. TestEnd(w) - 1 => day \in TestStart(1) .. TestEnd(WindowCount) - 1
             /\ day \in WalkDays(w) /\ day <= TestEnd(WindowCount) - 1 => day \in TestStart(w) .. TestEnd(w) - 1
  <2>1. /\ TestStart(w) \in Nat /\ TestStart(1) \in Nat /\ TestStart(1) <= TestStart(w)
        /\ TestEnd(w) <= TestEnd(WindowCount) /\ TestEnd(w) \in Int /\ TestEnd(WindowCount) \in Nat /\ WalkEnd(w) \in Nat
        /\ w # WindowCount => WalkEnd(w) = TestEnd(w) - 1
    BY WindowFacts, WindowCountFacts, DaysAssumption
  <2> QED
    BY <2>1 DEF WalkDays
<1>7. ItemsOK'
  <2>1. \A i \in ahead : i \in Due
    BY <1>4, <1>5, <1>6, ItemFacts DEF Due
  <2>2. ASSUME NEW i \in Owed, i.ticker = part.pos.ticker, i.day = part.pos.day, i.key > part.pos.after
        PROVE  i \in ahead
    <3>1. i \in news /\ i \in Items /\ i.day \in Int /\ i.day <= TestEnd(WindowCount) - 1
      BY WindowCountFacts, ItemFacts DEF WalkInv, StoreOK, Owed, Due
    <3>2. i.day \in TestStart(part.window) .. TestEnd(part.window) - 1
      BY <1>4, <1>6, <2>2, <3>1
    <3> QED
      BY <2>2, <3>1, <3>2 DEF DayNews, IsAfterCursor
  <2> HIDE DEF ahead
  <2> QED
    BY <1>1, <1>2, <1>5, <2>1, <2>2 DEF ItemsOK, Owed
<1>8. dies => NoGaps'
  BY <1>1 DEF WalkInv, NoGaps
<1>9. ~dies => NothingAhead'
  BY <1>1, <1>2 DEF WalkInv, NothingAhead, Front, FrontPhase, IsPast
<1> HIDE DEF ahead
<1> QED
  BY <1>1, <1>2, <1>3, <1>5, <1>7, <1>8, <1>9, MoveStep DEF WalkInv, WalkTypes, WalkTypeOK, StoreOK

LEMMA EndTickerStep ==
  ASSUME WalkInv, EndTicker
  PROVE  WalkInv'
<1>1. /\ part.pc = "items" /\ part.items = {}
      /\ UNCHANGED <<news, checkpoints, passed, exited, busy, faults, dies, status, cursor>>
  BY DEF EndTicker, Unstored
<1> DEFINE pos == part.pos
           next == [day |-> pos.day, ticker |-> pos.ticker + 1, after |-> 0, exits |-> pos.ticker = TickerCount]
<1>2. /\ DOMAIN part' = PartFields /\ part'.pc = "walk" /\ part'.items = part.items
      /\ part'.window = part.window /\ part'.pos = next /\ part'.completed = part.completed + 1
  <2>1. part' = [part EXCEPT !.pc = "walk", !.completed = @ + 1, !.pos = next]
    BY DEF EndTicker
  <2> HIDE DEF next
  <2> QED
    BY <2>1 DEF WalkInv, WalkTypes, PartFields
<1>3. pos \in Positions /\ PlaceOK(part.window, pos, part.completed) /\ ItemsOK
  BY <1>1 DEF WalkInv, WalkTypes, WalkTypeOK, PartOK
<1>4. /\ pos.ticker \in 1 .. TickerCount /\ pos.after \in Nat /\ pos.day \in Nat /\ TickerCount \in Nat \ {0}
      /\ TestStart(1) \in Int
  BY <1>3, PositionFacts, LimitsAssumption, WindowFacts, FirstDay DEF PlaceOK, ItemsOK
<1>5. /\ next \in Positions /\ next.day = pos.day /\ next.ticker = pos.ticker + 1 /\ next.after = 0
      /\ next.exits <=> pos.ticker = TickerCount
  <2>1. pos.day \in AllDays /\ pos.ticker + 1 \in 1 .. TickerCount + 1 /\ (pos.ticker = TickerCount) \in BOOLEAN
    BY <1>3, <1>4, PositionFacts
  <2> QED
    BY <2>1 DEF Positions
<1>6. \A i \in Items : IsPast(i, pos) => IsPast(i, next)
  BY <1>4, <1>5, ItemFacts DEF IsPast
<1>7. ASSUME NEW i \in Owed, IsPast(i, next)
      PROVE  i \in passed
  <2>1. i \in Items /\ i \notin part.items
    BY <1>1, OwedFacts
  <2>2. IsPast(i, pos)
    BY <1>3, <1>4, <1>5, <1>7, <2>1, ItemFacts DEF IsPast, ItemsOK
  <2> QED
    BY <1>3, <2>2 DEF PlaceOK
<1>8. part.completed + 1 = StepsAt(next)
  <2>1. TickerCount * (pos.day - TestStart(1)) \in Int
    BY <1>4
  <2> HIDE DEF next
  <2> QED
    BY <1>3, <1>4, <1>5, <2>1 DEF PlaceOK, StepsAt
<1>9. PlaceOK(part.window, part.pos, part.completed)'
  <2> HIDE DEF next
  <2> QED
    BY <1>1, <1>2, <1>3, <1>4, <1>5, <1>7, <1>8 DEF PlaceOK, Owed
<1> HIDE DEF next
<1>10. dies => NoGaps'
  BY <1>1 DEF WalkInv, NoGaps
<1>11. ~dies => NothingAhead'
  <2>1. SUFFICES ASSUME ~dies, status = "running"
                 PROVE  (\A day \in exited : day < next.day) /\ \A i \in passed : IsPast(i, next)
    BY <1>1, <1>2 DEF NothingAhead, Front, FrontPhase, IsPast
  <2>2. (\A day \in exited : day < pos.day) /\ \A i \in passed : IsPast(i, pos)
    BY <1>1, <2>1 DEF WalkInv, NothingAhead, Front, FrontPhase
  <2> QED
    BY <1>5, <1>6, <2>2 DEF WalkInv, WalkTypes, WalkTypeOK
<1> QED
  BY <1>1, <1>2, <1>3, <1>5, <1>9, <1>10, <1>11, MoveStep DEF WalkInv, WalkTypes, WalkTypeOK, StoreOK

LEMMA StartItemStep ==
  ASSUME WalkInv, StartItem
  PROVE  WalkInv'
<1>1. part.pc = "items" /\ part.items # {} /\ UNCHANGED <<news, checkpoints, passed, exited, busy, faults, dies>>
  BY DEF StartItem, Unstored
<1>2. CASE Pause(budget)
  BY <1>1, <1>2, PauseStep
<1>3. CASE part' = [part EXCEPT !.pc = "item", !.mark = Mark] /\ UNCHANGED <<status, cursor>>
  <2>1. /\ DOMAIN part' = PartFields /\ part'.pc = "item" /\ part'.items = part.items
        /\ part'.window = part.window /\ part'.pos = part.pos /\ part'.completed = part.completed
    BY <1>3 DEF WalkInv, WalkTypes, PartFields
  <2>2. PlaceOK(part.window, part.pos, part.completed)'
    BY <1>1, <2>1 DEF WalkInv, PartOK, PlaceOK, Owed
  <2>3. ItemsOK'
    BY <1>1, <2>1 DEF WalkInv, PartOK, ItemsOK, Owed
  <2>4. dies => NoGaps'
    BY <1>1 DEF WalkInv, NoGaps
  <2>5. ~dies => NothingAhead'
    BY <1>1, <1>3, <2>1 DEF WalkInv, NothingAhead, Front, FrontPhase, IsPast
  <2> QED
    BY <1>1, <1>3, <2>1, <2>2, <2>3, <2>4, <2>5, MoveStep DEF WalkInv, WalkTypes, WalkTypeOK, StoreOK
<1> QED
  BY <1>2, <1>3 DEF StartItem

\* The item that is next: nothing owed lies between the walk's place and it.
LEMMA NextItem ==
  ASSUME WalkInv, part.pc = "item"
  PROVE  /\ Current \in part.items /\ Current \in Items /\ Current \in Due
         /\ Current.ticker = part.pos.ticker /\ Current.day = part.pos.day /\ Current.key > part.pos.after
         /\ part.pos \in Positions /\ PlaceOK(part.window, part.pos, part.completed)
         /\ \A i \in Owed : DayMajor!Before(i, Current) => i \in passed
<1>1. /\ part.items \subseteq Items /\ part.items # {} /\ ItemsOK
      /\ part.pos \in Positions /\ PlaceOK(part.window, part.pos, part.completed)
  BY DEF WalkInv, WalkTypes, WalkTypeOK, PartOK
<1>2. Current \in part.items /\ \A j \in part.items : Current.key <= j.key
  BY <1>1, CurrentFacts
<1>3. /\ Current \in Items /\ Current \in Due
      /\ Current.ticker = part.pos.ticker /\ Current.day = part.pos.day /\ Current.key > part.pos.after
  BY <1>1, <1>2 DEF ItemsOK
<1>4. ASSUME NEW i \in Owed, DayMajor!Before(i, Current)
      PROVE  i \in passed
  <2>1. i \in Items
    BY OwedFacts
  <2>2. part.pos.after \in Nat
    BY <1>1, PositionFacts
  <2>3. i \notin part.items \/ ~(i.ticker = part.pos.ticker /\ i.day = part.pos.day)
    <3> HIDE DEF Current
    <3> QED
      BY <1>2, <1>3, <1>4, <2>1, ItemFacts DEF DayMajor!Before
  <2>4. IsPast(i, part.pos)
    <3> HIDE DEF Current
    <3> QED
      BY <1>1, <1>3, <1>4, <2>1, <2>2, <2>3, ItemFacts DEF ItemsOK, IsPast, DayMajor!Before
  <2> QED
    BY <1>1, <2>4 DEF PlaceOK
<1> QED
  BY <1>1, <1>2, <1>3, <1>4

\* Going past the next item, once it is done or skipped.
LEMMA GoPastStep ==
  ASSUME WalkInv, part.pc = "item",
         UNCHANGED <<news, checkpoints, exited, busy, dies, status, cursor>>,
         passed' \subseteq passed \cup {Current}, passed \subseteq passed', Current \in passed',
         passed' = passed \/ ~dies,
         DOMAIN part' = PartFields, part'.pc = "items", part'.items = part.items \ {Current},
         part'.window = part.window, part'.completed = part.completed,
         part'.pos = [part.pos EXCEPT !.after = Current.key]
  PROVE  WalkInv'
<1> DEFINE item == Current
           pos == part.pos
           next == [pos EXCEPT !.after = item.key]
<1>1. /\ item \in part.items /\ item \in Items
      /\ item.ticker = pos.ticker /\ item.day = pos.day /\ item.key > pos.after
      /\ pos \in Positions /\ PlaceOK(part.window, pos, part.completed)
      /\ \A i \in Owed : DayMajor!Before(i, item) => i \in passed
  BY NextItem
<1>2. part.items \subseteq Items /\ ItemsOK /\ \A j \in part.items : item.key <= j.key
  BY CurrentFacts DEF WalkInv, WalkTypes, WalkTypeOK, PartOK
<1> HIDE DEF item
<1>3. /\ pos.ticker \in Nat /\ pos.after \in Nat /\ pos.day \in Nat /\ item.key \in Nat
      /\ item.ticker \in Nat /\ item.day \in Nat
  BY <1>1, PositionFacts, ItemFacts
<1>4. /\ next \in Positions /\ next.day = pos.day /\ next.ticker = pos.ticker /\ next.after = item.key
      /\ next.exits = pos.exits
  BY <1>1, <1>3 DEF Positions
<1>5. part'.pos = next
  BY DEF item
<1> HIDE DEF next
<1>6. \A i \in Items : IsPast(i, next) <=> IsPast(i, pos) \/ i = item \/
                         (i.ticker = pos.ticker /\ i.day = pos.day /\ i.key > pos.after /\ i.key < item.key)
  BY <1>1, <1>3, <1>4, ItemFacts DEF IsPast
<1>7. passed' \subseteq Items /\ item \in passed'
  BY <1>1 DEF WalkInv, WalkTypes, WalkTypeOK, item
<1>8. PlaceOK(part.window, part.pos, part.completed)'
  <2>1. ASSUME NEW i \in Owed, IsPast(i, next)
        PROVE  i \in passed'
    <3>1. i \in Items
      BY OwedFacts
    <3> QED
      BY <1>1, <1>6, <1>7, <2>1, <3>1 DEF PlaceOK, DayMajor!Before
  <2> QED
    BY <1>1, <1>3, <1>4, <1>5, <2>1 DEF PlaceOK, StepsAt, Owed
<1>9. ItemsOK'
  <2>1. ASSUME NEW i \in part.items, i # item
        PROVE  i.key > item.key
    BY <1>1, <1>2, <2>1, ItemFacts DEF ItemsOK
  <2>2. part'.items = part.items \ {item}
    BY DEF item
  <2>3. ASSUME NEW i \in Owed, i.ticker = pos.ticker, i.day = pos.day, i.key > item.key
        PROVE  i \in part.items \ {item}
    <3>1. i \in Items /\ i.key \in Nat
      BY OwedFacts, ItemFacts
    <3> QED
      BY <1>1, <1>2, <1>3, <2>3, <3>1 DEF ItemsOK
  <2> QED
    BY <1>2, <1>4, <1>5, <2>1, <2>2, <2>3 DEF ItemsOK, Owed
<1>10. dies => NoGaps'
  BY DEF WalkInv, NoGaps
<1>11. ~dies => NothingAhead'
  <2>1. SUFFICES ASSUME ~dies, status = "running"
                 PROVE  (\A day \in exited : day < next.day) /\ \A i \in passed' : IsPast(i, next)
    BY <1>5 DEF NothingAhead, Front, FrontPhase, IsPast
  <2>2. (\A day \in exited : day < pos.day) /\ \A i \in passed : IsPast(i, pos) \/ i = item
    BY <2>1 DEF WalkInv, NothingAhead, Front, FrontPhase, item
  <2>3. passed' \subseteq passed \cup {item}
    BY DEF item
  <2> QED
    BY <1>4, <1>6, <1>7, <2>2, <2>3
<1>12. part'.items \subseteq Items
  BY <1>2
<1>13. \A i \in Items : checkpoints'[i] = Stages => i \in passed'
  BY DEF WalkInv, StoreOK
<1>14. exited' \subseteq AllDays /\ busy' \in BOOLEAN /\ checkpoints' \in [Items -> 0 .. Stages] /\ part.window \in 1 .. WindowCount
  BY DEF WalkInv, WalkTypes, WalkTypeOK
<1> QED
  BY <1>4, <1>5, <1>7, <1>8, <1>9, <1>10, <1>11, <1>12, <1>13, <1>14, MoveStep

LEMMA SameCurrent ==
  ASSUME part' = part
  PROVE  Current' = Current
  BY DEF Current

LEMMA RunStageStep ==
  ASSUME WalkInv, RunStage
  PROVE  WalkInv'
<1>1. part.pc = "item" /\ checkpoints[Current] < Stages /\ UNCHANGED <<news, exited, faults, dies>>
  BY DEF RunStage
<1>2. CASE ~(UNCHANGED part)
  <2>1. \E b : Pause(b) /\ UNCHANGED <<checkpoints, passed, busy>>
    BY <1>2 DEF RunStage
  <2> QED
    BY <1>1, <2>1, PauseStep
<1>3. CASE UNCHANGED part /\ ~(\E b : Pause(b) /\ UNCHANGED <<checkpoints, passed, busy>>)
  <2> DEFINE item == Current
  <2>1. /\ checkpoints' = [checkpoints EXCEPT ![item] = @ + 1]
        /\ IF checkpoints'[item] = Stages THEN passed' = passed \cup {item} /\ busy' \in BOOLEAN
           ELSE UNCHANGED <<passed, busy>>
        /\ UNCHANGED <<part, status, cursor>>
    BY <1>3 DEF RunStage
  <2>2. /\ item \in part.items /\ item \in Items /\ item \in Due
        /\ item.ticker = part.pos.ticker /\ item.day = part.pos.day /\ item.key > part.pos.after
        /\ part.pos \in Positions /\ PlaceOK(part.window, part.pos, part.completed)
        /\ \A i \in Owed : DayMajor!Before(i, item) => i \in passed
    BY <1>1, NextItem
  <2>3. Current' = item
    BY <2>1, SameCurrent
  <2>4. checkpoints[item] < Stages
    BY <1>1
  <2> HIDE DEF item
  <2>5. checkpoints \in [Items -> 0 .. Stages] /\ Stages \in Nat \ {0} /\ passed \subseteq Items
    BY LimitsAssumption DEF WalkInv, WalkTypes, WalkTypeOK
  <2>6. /\ checkpoints' \in [Items -> 0 .. Stages] /\ checkpoints'[item] = checkpoints[item] + 1
        /\ \A i \in Items : i # item => checkpoints'[i] = checkpoints[i]
    BY <2>1, <2>2, <2>4, <2>5
  <2>7. /\ passed \subseteq passed' /\ passed' \subseteq Items /\ passed' \subseteq passed \cup {item}
        /\ passed' # passed => passed' = passed \cup {item} /\ checkpoints'[item] = Stages
        /\ checkpoints'[item] = Stages => item \in passed'
    BY <2>1, <2>2, <2>5
  <2>8. PlaceOK(part.window, part.pos, part.completed)'
    BY <1>1, <2>1, <2>2, <2>7 DEF PlaceOK, Owed
  <2>9. ItemsOK' /\ part'.items # {}
    BY <1>1, <2>1, <2>2 DEF WalkInv, PartOK, ItemsOK, Owed
  <2>10. ASSUME dies PROVE NoGaps'
    <3>1. NoGaps /\ Owed = Due
      BY <2>10, OwedFacts DEF WalkInv
    <3>2. item \notin passed
      BY <2>4, <2>5, <3>1 DEF NoGaps
    <3>3. \A i \in passed' : checkpoints'[i] = Stages
      BY <2>5, <2>6, <2>7, <3>1, <3>2 DEF NoGaps
    <3>4. \A j \in passed' : \A i \in Due : DayMajor!Before(i, j) => i \in passed'
      BY <2>2, <2>7, <3>1 DEF NoGaps
    <3> QED
      BY <1>1, <2>7, <3>1, <3>3, <3>4 DEF NoGaps
  <2>11. ASSUME ~dies PROVE NothingAhead'
    <3>1. SUFFICES ASSUME status = "running"
                   PROVE  /\ \A day \in exited : day < part.pos.day
                          /\ \A i \in passed' : IsPast(i, part.pos) \/ (i = item /\ checkpoints'[i] = Stages)
      BY <1>1, <2>1, <2>3 DEF NothingAhead, Front, FrontPhase, IsPast
    <3>2. /\ \A day \in exited : day < part.pos.day
          /\ \A i \in passed : IsPast(i, part.pos) \/ (i = Current /\ checkpoints[i] = Stages)
      BY <1>1, <2>11, <3>1 DEF WalkInv, NothingAhead, Front, FrontPhase
    <3>3. \A i \in passed : IsPast(i, part.pos)
      BY <3>2, <2>4, <2>5 DEF item
    <3> QED
      BY <2>7, <3>2, <3>3
  <2>12. \A i \in Items : checkpoints'[i] = Stages => i \in passed'
    BY <2>6, <2>7 DEF WalkInv, StoreOK
  <2>13. /\ busy' \in BOOLEAN /\ exited \subseteq AllDays /\ part.window \in 1 .. WindowCount /\ part.items \subseteq Items
         /\ DOMAIN part = PartFields
    BY <2>1 DEF WalkInv, WalkTypes, WalkTypeOK
  <2> QED
    BY <1>1, <2>1, <2>2, <2>6, <2>7, <2>8, <2>9, <2>10, <2>11, <2>12, <2>13, MoveStep
<1>4. CASE \E b : Pause(b) /\ UNCHANGED <<checkpoints, passed, busy>>
  BY <1>1, <1>4, PauseStep
<1> QED
  BY <1>2, <1>3, <1>4

LEMMA ModelUnavailableStep ==
  ASSUME WalkInv, ModelUnavailable
  PROVE  WalkInv'
<1>1. /\ part.pc = "item" /\ checkpoints[Current] < Stages
      /\ UNCHANGED <<news, checkpoints, passed, exited, busy, faults, dies>>
  BY DEF ModelUnavailable, Unstored
<1>2. \E b : Pause(b) \/ PauseForOutage(b)
  BY DEF ModelUnavailable
<1> QED
  BY <1>1, <1>2, PauseStep

LEMMA FinishItemStep ==
  ASSUME WalkInv, FinishItem
  PROVE  WalkInv'
<1>1. /\ part.pc = "item" /\ checkpoints[Current] = Stages
      /\ part' = [part EXCEPT !.pc = "items", !.items = @ \ {Current}, !.pos.after = Current.key]
      /\ UNCHANGED <<news, checkpoints, passed, exited, busy, faults, dies, status, cursor>>
  BY DEF FinishItem, GoPast, Unstored
<1>2. Current \in passed
  BY <1>1, NextItem DEF WalkInv, StoreOK
<1>3. /\ DOMAIN part' = PartFields /\ part'.pc = "items" /\ part'.items = part.items \ {Current}
      /\ part'.window = part.window /\ part'.completed = part.completed
      /\ part'.pos = [part.pos EXCEPT !.after = Current.key]
  BY <1>1 DEF WalkInv, WalkTypes, PartFields
<1> QED
  BY <1>1, <1>2, <1>3, GoPastStep

LEMMA SkipItemStep ==
  ASSUME WalkInv, SkipItem
  PROVE  WalkInv'
<1>1. ~dies /\ part.pc = "item" /\ UNCHANGED <<news, checkpoints, exited, busy, faults, dies>>
  BY DEF SkipItem
<1>2. CASE Fail /\ UNCHANGED passed
  BY <1>1, <1>2, FailStep
<1>3. CASE /\ passed' = passed \cup {Current} /\ UNCHANGED <<status, cursor>>
           /\ part' = [part EXCEPT !.pc = "items", !.items = @ \ {Current}, !.pos.after = Current.key, !.skipped = @ + 1]
  <2>1. /\ DOMAIN part' = PartFields /\ part'.pc = "items" /\ part'.items = part.items \ {Current}
        /\ part'.window = part.window /\ part'.completed = part.completed
        /\ part'.pos = [part.pos EXCEPT !.after = Current.key]
    BY <1>3 DEF WalkInv, WalkTypes, PartFields
  <2> QED
    BY <1>1, <1>3, <2>1, GoPastStep
<1> QED
  BY <1>2, <1>3 DEF SkipItem

\* The day after a day's exit check: what is before it is done.
LEMMA NextDay ==
  ASSUME WalkInv, part.pc = "walk", part.pos.exits, exited' = exited \cup {part.pos.day}, UNCHANGED <<passed, dies>>,
         NEW w \in 1 .. WindowCount, NEW next, next = StartOf(part.pos.day + 1), next.day \in WalkDays(w),
         NEW completed, completed = part.completed
  PROVE  PlaceOK(w, next, completed)'
<1> DEFINE pos == part.pos
<1>1. pos \in Positions /\ PlaceOK(part.window, pos, completed)
  BY DEF WalkInv, WalkTypes, WalkTypeOK, PartOK
<1>2. /\ pos.day \in Nat /\ pos.ticker = TickerCount + 1 /\ TickerCount \in Nat \ {0} /\ TestStart(1) \in Int
  BY <1>1, PositionFacts, LimitsAssumption, WindowFacts, FirstDay DEF PlaceOK
<1>3. next.day = pos.day + 1 /\ next.ticker = 1 /\ next.after = 0 /\ next.exits = FALSE
  BY DEF StartOf
<1>4. completed = StepsAt(next)
  <2>1. \A a, b \in Int : TickerCount * (b + 1 - a) = TickerCount * (b - a) + TickerCount
    BY <1>2
  <2>2. TickerCount * (pos.day - TestStart(1)) \in Int
    BY <1>2
  <2> QED
    BY <1>1, <1>2, <1>3, <2>1, <2>2 DEF PlaceOK, StepsAt
<1>5. DayMajor!DaysBefore(next.day) \subseteq exited'
  <2> SUFFICES ASSUME NEW d \in AllDays, d < next.day PROVE d \in exited'
    BY DEF DayMajor!DaysBefore
  <2>1. d \in Nat
    BY AllDaysFacts
  <2>2. d < pos.day \/ d = pos.day
    BY <1>2, <1>3, <2>1
  <2> QED
    BY <1>1, <2>2 DEF PlaceOK, DayMajor!DaysBefore
<1>6. ASSUME NEW i \in Owed, IsPast(i, next)
      PROVE  i \in passed'
  <2>1. i \in Items
    BY OwedFacts
  <2>2. IsPast(i, pos)
    BY <1>2, <1>3, <1>6, <2>1, ItemFacts DEF IsPast
  <2> QED
    BY <1>1, <2>2 DEF PlaceOK
<1>7. next.exits <=> next.ticker = TickerCount + 1
  BY <1>2, <1>3
<1> QED
  BY <1>4, <1>5, <1>6, <1>7 DEF PlaceOK, Owed

LEMMA CheckExitsStep ==
  ASSUME WalkInv, CheckExits
  PROVE  WalkInv'
<1>1. part.pc = "walk" /\ part.pos.exits /\ UNCHANGED <<news, checkpoints, passed, faults, dies>>
  BY DEF CheckExits
<1>2. CASE Pause(budget) /\ UNCHANGED <<exited, busy>>
  BY <1>1, <1>2, PauseStep
<1>3. CASE ~(Pause(budget) /\ UNCHANGED <<exited, busy>>)
  <2> DEFINE day == part.pos.day
             left == WalkEnd(part.window) - day
             next == StartOf(day + 1)
  <2>1. /\ exited' = exited \cup {day} /\ UNCHANGED <<status, cursor>>
        /\ busy' \in {busy} \cup (IF day \in exited THEN {} ELSE {FALSE})
        /\ part' = AfterDay(busy')
    BY <1>3 DEF CheckExits
  <2>2. /\ part.pos \in Positions /\ part.window \in 1 .. WindowCount /\ DOMAIN part = PartFields
        /\ PlaceOK(part.window, part.pos, part.completed) /\ day \in WalkDays(part.window) /\ day \in Nat /\ day \in AllDays
        /\ part.pos.ticker = TickerCount + 1
    BY <1>1, PositionFacts DEF WalkInv, WalkTypes, WalkTypeOK, PartOK, PlaceOK
  <2>3. /\ WalkEnd(part.window) \in Nat /\ TestStart(part.window) \in Nat /\ TestStart(part.window) <= day
        /\ day <= WalkEnd(part.window) /\ left \in Nat
    BY <2>2, WindowFacts DEF WalkDays
  <2>4. /\ exited' \subseteq AllDays /\ busy' \in BOOLEAN /\ checkpoints' \in [Items -> 0 .. Stages]
        /\ passed' \subseteq Items /\ part.items \subseteq Items
        /\ \A i \in Items : checkpoints'[i] = Stages => i \in passed'
    BY <1>1, <2>1, <2>2 DEF WalkInv, WalkTypes, WalkTypeOK, StoreOK
  <2>5. \A i \in Owed : i.day <= day => i \in passed
    <3> SUFFICES ASSUME NEW i \in Owed, i.day <= day PROVE IsPast(i, part.pos)
      BY <2>2 DEF PlaceOK
    <3>1. i \in Items /\ TickerCount \in Nat
      BY OwedFacts, LimitsAssumption
    <3> QED
      BY <2>2, <3>1, ItemFacts DEF IsPast
  <2>6. dies => NoGaps'
    BY <1>1, <2>1, <2>5, OwedFacts DEF WalkInv, NoGaps
  <2>7. ASSUME ~dies, status = "running"
        PROVE  (\A d \in exited' : d < day + 1) /\ \A i \in passed : i.day <= day
    <3>1. (\A d \in exited : d < day) /\ \A i \in passed : IsPast(i, part.pos)
      BY <1>1, <2>7 DEF WalkInv, NothingAhead, Front, FrontPhase
    <3>2. passed \subseteq Items /\ exited \subseteq Nat
      BY AllDaysFacts DEF WalkInv, WalkTypes, WalkTypeOK
    <3>3. \A d \in exited' : d < day + 1
      BY <2>1, <2>2, <3>1, <3>2
    <3>4. \A i \in passed : i.day <= day
      BY <2>2, <3>1, <3>2, ItemFacts DEF IsPast
    <3> QED
      BY <3>3, <3>4
  <2>8. ASSUME NEW w \in 1 .. WindowCount, day + 1 \in WalkDays(w),
               DOMAIN part' = PartFields, part'.pc = "walk", part'.window = w, part'.pos = next,
               part'.completed = part.completed, part'.items = part.items
        PROVE  WalkInv'
    <3>1. PlaceOK(part.window, part.pos, part.completed)'
      <4>1. PICK place, completed : place = StartOf(day + 1) /\ completed = part.completed
        OBVIOUS
      <4>2. place.day \in WalkDays(w)
        BY <2>8, <4>1 DEF StartOf
      <4>3. PlaceOK(w, place, completed)'
        BY <1>1, <2>1, <4>1, <4>2, NextDay
      <4> QED
        BY <2>8, <4>1, <4>3 DEF PlaceOK
    <3>2. next \in Positions /\ next.day = day + 1
      BY <2>8, AllDaysFacts, StartOfFacts
    <3>3. ~dies => NothingAhead'
      <4>1. SUFFICES ASSUME ~dies, status = "running"
                     PROVE  (\A d \in exited' : d < next.day) /\ \A i \in passed : IsPast(i, next)
        BY <1>1, <2>1, <2>8 DEF NothingAhead, Front, FrontPhase, IsPast
      <4>2. passed \subseteq Items
        BY DEF WalkInv, WalkTypes, WalkTypeOK
      <4>3. (\A d \in exited' : d < day + 1) /\ \A i \in passed : i.day <= day
        BY <2>7, <4>1
      <4>4. \A i \in passed : i.day < day + 1
        BY <2>2, <4>2, <4>3, ItemFacts
      <4> QED
        BY <3>2, <4>3, <4>4 DEF IsPast
    <3> HIDE DEF next, day, left
    <3> QED
      BY <1>1, <2>1, <2>4, <2>6, <2>8, <3>1, <3>2, <3>3, MoveStep
  <2>9. CASE left > 0 /\ ~MayStop(day, busy')
    <3>1. part' = [part EXCEPT !.pos = next]
      BY <2>1, <2>9 DEF AfterDay
    <3>2. day + 1 \in WalkDays(part.window)
      BY <2>2, <2>3, <2>9, WindowFacts DEF WalkDays
    <3>3. /\ DOMAIN part' = PartFields /\ part'.pc = "walk" /\ part'.window = part.window /\ part'.pos = next
          /\ part'.completed = part.completed /\ part'.items = part.items
      <4> HIDE DEF next
      <4> QED
        BY <1>1, <2>2, <3>1 DEF PartFields
    <3> QED
      BY <2>2, <2>8, <3>2, <3>3
  <2>10. CASE ~(left > 0 /\ ~MayStop(day, busy')) /\ ~IsLastWindow(part.window)
    <3>1. part' = [part EXCEPT !.window = @ + 1, !.pos = StartOf(TestStart(part.window + 1))]
      BY <2>1, <2>10 DEF AfterDay
    <3>2. /\ part.window # WindowCount /\ part.window + 1 \in 1 .. WindowCount
          /\ WalkEnd(part.window) = TestEnd(part.window) - 1 /\ TestEnd(part.window) = TestStart(part.window + 1)
          /\ TestStart(part.window + 1) \in WalkDays(part.window + 1) /\ TestEnd(part.window) \in Int
      BY <2>2, <2>10, WindowFacts, AllDaysFacts, DaysAssumption DEF IsLastWindow
    <3>3. day = WalkEnd(part.window)
      BY <2>2, <2>3, <2>10 DEF MayStop
    <3>4. day + 1 = TestStart(part.window + 1)
      BY <3>2, <3>3
    <3>5. /\ DOMAIN part' = PartFields /\ part'.pc = "walk" /\ part'.window = part.window + 1 /\ part'.pos = next
          /\ part'.completed = part.completed /\ part'.items = part.items
      <4>1. part' = [part EXCEPT !.window = @ + 1, !.pos = next]
        BY <3>1, <3>4
      <4> HIDE DEF next
      <4> QED
        BY <1>1, <2>2, <4>1 DEF PartFields
    <3> HIDE DEF next
    <3> QED
      BY <2>8, <3>2, <3>4, <3>5
  <2>11. CASE ~(left > 0 /\ ~MayStop(day, busy')) /\ IsLastWindow(part.window)
    <3>1. part' = [part EXCEPT !.pc = "score", !.completed = @ + left * TickerCount]
      BY <2>1, <2>11 DEF AfterDay
    <3>2. /\ part.window = WindowCount /\ TestEnd(WindowCount) <= WalkEnd(WindowCount) /\ TestEnd(WindowCount) \in Nat
          /\ TestStart(1) \in Nat /\ TickerCount \in Nat
      BY <2>2, <2>11, WindowFacts, WindowCountFacts, LimitsAssumption DEF IsLastWindow
    <3>3. day = WalkEnd(WindowCount) \/ (day >= TestEnd(WindowCount) /\ ~busy')
      BY <2>2, <2>3, <2>11, <3>2 DEF MayStop
    <3>4. day >= TestEnd(WindowCount)
      BY <3>2, <3>3
    <3>5. /\ DOMAIN part' = PartFields /\ part'.pc = "score" /\ part'.window = part.window /\ part'.pos = part.pos
          /\ part'.completed = part.completed + left * TickerCount /\ part'.items = part.items
      <4> HIDE DEF left
      <4> QED
        BY <2>2, <3>1 DEF PartFields
    <3>6. part'.completed = TotalSteps
      <4>1. part.completed = TickerCount * (day - TestStart(1)) + TickerCount
        <5>1. part.completed = TickerCount * (day - TestStart(1)) + (TickerCount + 1) - 1
          BY <2>2 DEF PlaceOK, StepsAt
        <5> QED
          BY <5>1, <2>2, <3>2
      <4>2. part'.completed = TickerCount * (day - TestStart(1)) + TickerCount + (WalkEnd(WindowCount) - day) * TickerCount
        BY <3>2, <3>5, <4>1
      <4>3. \A a, b, c \in Int : TickerCount * (b - a) + TickerCount + (c - b) * TickerCount = TickerCount * (c - a) + TickerCount
        BY <3>2
      <4> QED
        BY <2>2, <2>3, <3>2, <4>2, <4>3, TotalStepsValue
    <3>7. Owed \subseteq passed
      <4> SUFFICES ASSUME NEW i \in Owed PROVE i \in passed
        OBVIOUS
      <4>1. i.day \in Nat /\ i.day <= TestEnd(WindowCount) - 1
        BY <3>2, OwedFacts, ItemFacts, FirstDay DEF Due
      <4> QED
        BY <2>2, <2>5, <3>2, <3>4, <4>1
    <3>8. DayMajor!DaysBefore(TestEnd(WindowCount)) \subseteq exited'
      <4>1. DayMajor!DaysBefore(day) \subseteq exited
        BY <2>2 DEF PlaceOK
      <4> SUFFICES ASSUME NEW d \in AllDays, d < TestEnd(WindowCount) PROVE d \in exited'
        BY DEF DayMajor!DaysBefore
      <4>2. d < day
        BY <2>2, <3>2, <3>4, AllDaysFacts
      <4> QED
        BY <2>1, <4>1, <4>2 DEF DayMajor!DaysBefore
    <3>9. AllDays \subseteq exited' \/ ~busy'
      <4> SUFFICES ASSUME busy' PROVE AllDays \subseteq exited'
        OBVIOUS
      <4>1. day = WalkEnd(WindowCount) /\ DayMajor!DaysBefore(day) \subseteq exited
        BY <2>2, <3>3 DEF PlaceOK
      <4> QED
        BY <2>1, <2>2, <4>1, AllDaysFacts DEF DayMajor!DaysBefore
    <3>10. WalkDone(part.completed)'
      BY <1>1, <3>6, <3>7, <3>8, <3>9 DEF WalkDone, Owed
    <3>11. ~dies => NothingAhead'
      BY <3>5 DEF NothingAhead, FrontPhase
    <3> HIDE DEF day, left, next
    <3> QED
      BY <1>1, <2>1, <2>2, <2>4, <2>6, <3>5, <3>10, <3>11, MoveStep
  <2> QED
    BY <2>9, <2>10, <2>11
<1> QED
  BY <1>2, <1>3

LEMMA ScoreStep ==
  ASSUME WalkInv, Score
  PROVE  WalkInv'
<1>1. part.pc = "score" /\ UNCHANGED <<news, checkpoints, passed, exited, busy, faults, dies>>
  BY DEF Score, Unstored
<1>2. CASE YieldPart(budget, "score", NoStall)
  BY <1>1, <1>2, YieldStep
<1>3. CASE status' = "complete" /\ EndPart /\ UNCHANGED cursor
  <2>1. Owed \subseteq passed
    BY <1>1 DEF WalkInv, PartOK, WalkDone
  <2> QED
    BY <1>1, <1>3, <2>1, EndedStep DEF EndPart
<1> QED
  BY <1>2, <1>3 DEF Score

LEMMA DieStep ==
  ASSUME WalkInv, Die
  PROVE  WalkInv'
<1>1. /\ dies /\ part.pc # "idle" /\ part' = Idle
      /\ UNCHANGED <<news, checkpoints, passed, exited, busy, status, cursor, dies>>
  BY DEF Die, EndPart
<1>2. status = "running"
  BY <1>1 DEF WalkInv, PartOK
<1> QED
  BY <1>1, <1>2, EndedStep

LEMMA SameWalk ==
  ASSUME WalkInv, news \subseteq news', news' \subseteq Items,
         UNCHANGED <<checkpoints, passed, exited, busy, status, cursor, part, dies>>
  PROVE  WalkInv'
<1>1. WalkTypes'
  BY DEF WalkInv, WalkTypes, WalkTypeOK
<1>2. PartOK'
  BY DEF WalkInv, PartOK, PlaceOK, ItemsOK, WalkDone, Owed
<1>3. CursorOK'
  BY DEF WalkInv, CursorOK, PlaceOK, WalkDone, Owed
<1>4. StoreOK'
  BY DEF WalkInv, StoreOK, Owed
<1>5. dies' => NoGaps'
  BY DEF WalkInv, NoGaps
<1>6. ~dies' => NothingAhead'
  <2>1. Current' = Current
    BY SameCurrent
  <2> QED
    BY <2>1 DEF WalkInv, NothingAhead, Front, FrontPhase, IsPast
<1> QED
  BY <1>1, <1>2, <1>3, <1>4, <1>5, <1>6 DEF WalkInv

LEMMA WalkInit ==
  ASSUME Init
  PROVE  WalkInv
<1> DEFINE start == StartOf(TestStart(1))
<1>1. /\ start \in Positions /\ start.day = TestStart(1) /\ start.ticker = 1 /\ start.after = 0 /\ start.exits = FALSE
      /\ TestStart(1) \in Nat /\ TickerCount \in Nat \ {0} /\ Stages \in Nat \ {0}
  BY FirstDay, StartOfFacts, WindowFacts, LimitsAssumption
<1>2. /\ dies \in BOOLEAN /\ news = (IF dies THEN Items ELSE Items \ Late)
      /\ checkpoints = [i \in Items |-> 0] /\ passed = {} /\ exited = {} /\ busy = FALSE
      /\ status = "running" /\ part = Idle
  BY DEF Init
<1>3. /\ DOMAIN cursor = CursorFields /\ cursor.phase = "preflight" /\ cursor.window = 1 /\ cursor.pos = start
      /\ cursor.completed = 0
  BY DEF Init, FirstCursor, CursorFields
<1> HIDE DEF start
<1>4. WalkTypes
  <2>1. checkpoints \in [Items -> 0 .. Stages]
    BY <1>1, <1>2
  <2>2. news \subseteq Items /\ passed \subseteq Items /\ exited \subseteq AllDays /\ {busy, dies} \subseteq BOOLEAN
    BY <1>2
  <2>3. {cursor.window, part.window} \subseteq 1 .. WindowCount /\ {cursor.pos, part.pos} \subseteq Positions
    BY <1>1, <1>2, <1>3, IdleFacts, FirstDay
  <2> QED
    BY <1>2, <1>3, <2>1, <2>2, <2>3, IdleFacts DEF WalkTypes, WalkTypeOK
<1>5. PlaceOK(1, start, 0)
  <2>1. \A i \in Owed : ~IsPast(i, start)
    <3> SUFFICES ASSUME NEW i \in Owed PROVE ~IsPast(i, start)
      OBVIOUS
    <3>1. i \in Items /\ i.day >= TestStart(1)
      BY <1>1, OwedFacts DEF Due
    <3> QED
      BY <1>1, <3>1, ItemFacts DEF IsPast
  <2>2. DayMajor!DaysBefore(TestStart(1)) = {}
    <3> SUFFICES ASSUME NEW d \in AllDays, d < TestStart(1) PROVE FALSE
      BY DEF DayMajor!DaysBefore
    <3>1. d \in Nat /\ TestStart(1) <= d
      BY FirstDay, AllDaysFacts
    <3> QED
      BY <1>1, <3>1
  <2>3. StepsAt(start) = 0
    <3>1. TickerCount * (TestStart(1) - TestStart(1)) = 0
      BY <1>1
    <3> QED
      BY <1>1, <3>1 DEF StepsAt
  <2> QED
    BY <1>1, <1>2, <2>1, <2>2, <2>3, FirstDay, OwedFacts DEF PlaceOK
<1>6. PartOK
  BY <1>2, IdleFacts DEF PartOK
<1>7. CursorOK
  BY <1>3, <1>5 DEF CursorOK
<1>8. StoreOK
  BY <1>1, <1>2 DEF StoreOK, Owed, Due
<1>9. dies => NoGaps
  BY <1>2 DEF NoGaps
<1>10. ~dies => NothingAhead
  BY <1>2 DEF NothingAhead
<1> QED
  BY <1>4, <1>6, <1>7, <1>8, <1>9, <1>10 DEF WalkInv

LEMMA WalkStep ==
  ASSUME WalkInv, [Next]_vars
  PROVE  WalkInv'
<1>1. CASE Start
  BY <1>1, StartStep
<1>2. CASE Preflight
  BY <1>2, PreflightStep
<1>3. CASE ReadNews
  BY <1>3, ReadNewsStep
<1>4. CASE EndTicker
  BY <1>4, EndTickerStep
<1>5. CASE StartItem
  BY <1>5, StartItemStep
<1>6. CASE RunStage
  BY <1>6, RunStageStep
<1>7. CASE ModelUnavailable
  BY <1>7, ModelUnavailableStep
<1>8. CASE FinishItem
  BY <1>8, FinishItemStep
<1>9. CASE SkipItem
  BY <1>9, SkipItemStep
<1>10. CASE CheckExits
  BY <1>10, CheckExitsStep
<1>11. CASE Score
  BY <1>11, ScoreStep
<1>12. CASE PartFails
  BY <1>12, FailStep DEF PartFails, Unstored
<1>13. CASE Die
  BY <1>13, DieStep
<1>14. CASE Arrive
  BY <1>14, SameWalk, ItemsAssumption DEF Arrive, WalkInv, WalkTypes, WalkTypeOK
<1>15. CASE UNCHANGED vars
  BY <1>15, SameWalk DEF vars, WalkInv, WalkTypes, WalkTypeOK
<1> QED
  BY <1>1, <1>2, <1>3, <1>4, <1>5, <1>6, <1>7, <1>8, <1>9, <1>10, <1>11, <1>12, <1>13, <1>14, <1>15 DEF Next, PartStep

THEOREM WalkInvariance == Spec => []WalkInv
<1>1. Init => WalkInv
  BY WalkInit
<1>2. WalkInv /\ [Next]_vars => WalkInv'
  BY WalkStep
<1> QED
  BY <1>1, <1>2, PTL DEF Spec

\* A run that completes has gone past every item it owes, and its progress count has then
\* reached its total.
THEOREM NothingIsSkipped == Spec => []NothingSkipped
<1>1. WalkInv => NothingSkipped
  BY DEF WalkInv, StoreOK, PartOK, WalkDone, NothingSkipped
<1> QED
  BY <1>1, WalkInvariance, PTL

-----------------------------------------------------------------------------
(* The day-major walk.                                                      *)

LEMMA WalkStarts ==
  ASSUME Init
  PROVE  DayMajor!Init
  BY DEF Init, DayMajor!Init

\* The model's output for an item: decided in the order of the walk.
LEMMA DecideInOrder ==
  ASSUME WalkInv, part.pc = "item", checkpoints[Current] < Stages,
         passed' = passed \cup {Current}, busy' \in BOOLEAN, UNCHANGED <<exited, status>>
  PROVE  DayMajor!Decide(Current)
<1> DEFINE item == Current
           pos == part.pos
<1>1. /\ item \in Items /\ item \in Due /\ item.ticker = pos.ticker /\ item.day = pos.day /\ item.key > pos.after
      /\ pos \in Positions /\ PlaceOK(part.window, pos, part.completed)
      /\ \A i \in Owed : DayMajor!Before(i, item) => i \in passed
  BY NextItem
<1>2. checkpoints[item] # Stages /\ checkpoints[item] < Stages
  BY LimitsAssumption, <1>1 DEF WalkInv, WalkTypes, WalkTypeOK
<1> HIDE DEF item
<1>3. /\ pos.day \in AllDays /\ pos.day \in Nat /\ pos.ticker \in Nat /\ pos.after \in Nat
      /\ passed \subseteq Items /\ exited \subseteq AllDays /\ status = "running"
  BY <1>1, PositionFacts DEF WalkInv, WalkTypes, WalkTypeOK, PartOK
<1>4. ASSUME dies
      PROVE  item.day \notin exited /\ \A i \in passed : DayMajor!Before(i, item)
  <2>1. NoGaps /\ item \notin passed
    BY <1>2, <1>4 DEF WalkInv, NoGaps
  <2>2. item.day \notin exited
    BY <1>1, <2>1, ItemFacts DEF NoGaps
  <2>3. ASSUME NEW i \in passed, ~DayMajor!Before(i, item)
        PROVE  FALSE
    <3>1. i \in Items /\ i # item
      BY <1>3, <2>1
    <3>2. DayMajor!Before(item, i)
      BY <1>1, <2>3, <3>1, ItemFacts DEF DayMajor!Before
    <3> QED
      BY <1>1, <2>1, <3>2 DEF NoGaps
  <2> QED
    BY <2>2, <2>3
<1>5. ASSUME ~dies
      PROVE  item.day \notin exited /\ \A i \in passed : DayMajor!Before(i, item)
  <2>1. (\A day \in exited : day < pos.day) /\ \A i \in passed : IsPast(i, pos) \/ (i = item /\ checkpoints[i] = Stages)
    BY <1>3, <1>5 DEF WalkInv, NothingAhead, Front, FrontPhase, item
  <2>2. \A i \in passed : IsPast(i, pos)
    BY <1>2, <2>1
  <2> QED
    BY <1>1, <1>3, <2>1, <2>2, ItemFacts DEF IsPast, DayMajor!Before
<1>6. DayMajor!DaysBefore(item.day) \subseteq exited
  BY <1>1 DEF PlaceOK
<1>7. DayMajor!Decide(item)
  <2>1. passed' = passed \cup {item}
    BY DEF item
  <2> QED
    BY <1>1, <1>3, <1>4, <1>5, <1>6, <2>1 DEF DayMajor!Decide
<1> QED
  BY <1>7 DEF item

LEMMA WalkStepIsDayMajor ==
  ASSUME WalkInv, [Next]_vars
  PROVE  [DayMajor!Next]_(DayMajor!vars)
<1> DEFINE still == UNCHANGED <<passed, exited, busy>> /\ (status' = "complete" <=> status = "complete")
<1>1. still => UNCHANGED DayMajor!vars
  BY DEF DayMajor!vars
<1>2. part.pc # "idle" => status = "running"
  BY DEF WalkInv, PartOK
<1>3. ASSUME Fail \/ UNCHANGED status \/ (\E b, phase, stall : YieldPart(b, phase, stall)), part.pc # "idle",
             UNCHANGED <<passed, exited, busy>>
      PROVE  still
  BY <1>2, <1>3 DEF Fail, YieldPart
<1>4. ASSUME \E b : Pause(b) \/ PauseForOutage(b)
      PROVE  Fail \/ \E b, phase, stall : YieldPart(b, phase, stall)
  BY <1>4 DEF Pause, PauseForOutage
<1>5. CASE Start
  BY <1>1, <1>5 DEF Start, Unstored
<1>6. CASE Preflight
  BY <1>1, <1>3, <1>6 DEF Preflight, Unstored
<1>7. CASE ReadNews
  BY <1>1, <1>7 DEF ReadNews, Unstored
<1>8. CASE EndTicker
  BY <1>1, <1>8 DEF EndTicker, Unstored
<1>9. CASE StartItem
  BY <1>1, <1>3, <1>4, <1>9 DEF StartItem, Unstored
<1>10. CASE RunStage
  <2>1. part.pc = "item" /\ checkpoints[Current] < Stages /\ UNCHANGED exited
    BY <1>10 DEF RunStage
  <2>2. CASE \E b : Pause(b) /\ UNCHANGED <<passed, busy>>
    BY <1>1, <1>3, <1>4, <2>1, <2>2
  <2>3. CASE UNCHANGED <<passed, busy, status>>
    BY <1>1, <2>1, <2>3
  <2>4. CASE passed' = passed \cup {Current} /\ busy' \in BOOLEAN /\ UNCHANGED status
    <3>1. DayMajor!Decide(Current) /\ Current \in Items
      BY <2>1, <2>4, DecideInOrder, NextItem
    <3> HIDE DEF Current
    <3> QED
      BY <3>1 DEF DayMajor!Next
  <2> QED
    BY <1>10, <2>2, <2>3, <2>4 DEF RunStage
<1>11. CASE ModelUnavailable
  BY <1>1, <1>3, <1>4, <1>11 DEF ModelUnavailable, Unstored
<1>12. CASE FinishItem
  BY <1>1, <1>12 DEF FinishItem, Unstored
<1>13. CASE SkipItem
  <2>1. part.pc = "item" /\ checkpoints[Current] < Stages /\ UNCHANGED <<exited, busy>>
    BY <1>13 DEF SkipItem
  <2>2. CASE Fail /\ UNCHANGED passed
    BY <1>1, <1>3, <2>1, <2>2
  <2>3. CASE passed' = passed \cup {Current} /\ UNCHANGED status
    <3>1. busy' \in BOOLEAN
      BY <2>1 DEF WalkInv, WalkTypes, WalkTypeOK
    <3>2. DayMajor!Decide(Current) /\ Current \in Items
      BY <2>1, <2>3, <3>1, DecideInOrder, NextItem
    <3> HIDE DEF Current
    <3> QED
      BY <3>2 DEF DayMajor!Next
  <2> QED
    BY <1>13, <2>2, <2>3 DEF SkipItem
<1>14. CASE CheckExits
  <2>1. part.pc = "walk" /\ part.pos.exits /\ UNCHANGED passed
    BY <1>14 DEF CheckExits
  <2>2. CASE Pause(budget) /\ UNCHANGED <<exited, busy>>
    BY <1>1, <1>3, <1>4, <2>1, <2>2
  <2>3. CASE /\ exited' = exited \cup {part.pos.day} /\ UNCHANGED status
             /\ busy' \in {busy} \cup (IF part.pos.day \in exited THEN {} ELSE {FALSE})
    <3>1. part.pos.day \in AllDays /\ DayMajor!DaysBefore(part.pos.day) \subseteq exited /\ status = "running"
      BY <1>2, <2>1, PositionFacts DEF WalkInv, WalkTypes, WalkTypeOK, PartOK, PlaceOK
    <3>2. CASE part.pos.day \in exited
      BY <1>1, <2>1, <2>3, <3>2
    <3>3. CASE part.pos.day \notin exited
      <4>1. DayMajor!CheckExits(part.pos.day)
        BY <2>1, <2>3, <3>1, <3>3 DEF DayMajor!CheckExits
      <4> QED
        BY <3>1, <4>1 DEF DayMajor!Next
    <3> QED
      BY <3>2, <3>3
  <2> QED
    BY <1>14, <2>2, <2>3 DEF CheckExits
<1>15. CASE Score
  <2>1. part.pc = "score" /\ UNCHANGED <<passed, exited, busy>>
    BY <1>15 DEF Score, Unstored
  <2>2. CASE YieldPart(budget, "score", NoStall)
    BY <1>1, <1>3, <2>1, <2>2
  <2>3. CASE status' = "complete"
    <3>1. DayMajor!Finish
      BY <1>2, <2>1, <2>3 DEF WalkInv, PartOK, WalkDone, DayMajor!Finish
    <3> QED
      BY <3>1 DEF DayMajor!Next
  <2> QED
    BY <1>15, <2>2, <2>3 DEF Score
<1>16. CASE PartFails
  BY <1>1, <1>3, <1>16 DEF PartFails, Unstored
<1>17. CASE Die
  BY <1>1, <1>17 DEF Die
<1>18. CASE Arrive
  BY <1>1, <1>18 DEF Arrive
<1>19. CASE UNCHANGED vars
  BY <1>1, <1>19 DEF vars
<1> QED
  BY <1>5, <1>6, <1>7, <1>8, <1>9, <1>10, <1>11, <1>12, <1>13, <1>14, <1>15, <1>16, <1>17, <1>18, <1>19 DEF Next, PartStep

\* Refinement: however a run is cut into parts, its decisions and exit checks are those of one
\* uninterrupted, day-major walk.
THEOREM WalkIsDayMajor == Spec => KeepsDayMajorOrder
<1>1. Init => DayMajor!Init
  BY WalkStarts
<1>2. WalkInv /\ [Next]_vars => [DayMajor!Next]_(DayMajor!vars)
  BY WalkStepIsDayMajor
<1> QED
  BY <1>1, <1>2, WalkInvariance, PTL DEF Spec, KeepsDayMajorOrder, DayMajor!Spec

-----------------------------------------------------------------------------
(* What a run has left goes down with every step.                          *)

LEMMA BelowAt ==
  ASSUME NEW r, NEW s, NEW k \in Places, r[k] < s[k], \A j \in 1 .. k - 1 : r[j] = s[j]
  PROVE  IsBelow(r, s)
  BY DEF IsBelow

\* Ranks do not go down for ever: among any, there is one that none is below.
THEOREM NoEndlessDescent ==
  ASSUME NEW T, T \subseteq [Places -> Nat], T # {}
  PROVE  \E r \in T : \A other \in T : ~IsBelow(other, r)
<1> DEFINE Agree(s, r, k) == \A j \in 1 .. k : s[j] = r[j]
           Least(r, k) == \A s \in T : Agree(s, r, k - 1) => r[k] <= s[k]
           has == {k \in 0 .. 12 : \E r \in T : \A j \in 1 .. k : Least(r, j)}
<1>1. 0 \in has
  OBVIOUS
<1>2. ASSUME NEW n \in 0 .. 12 - 1, n \in has PROVE n + 1 \in has
  <2>1. PICK r \in T : \A j \in 1 .. n : Least(r, j)
    BY <1>2
  <2> DEFINE values == {s[n + 1] : s \in {s \in T : Agree(s, r, n)}}
  <2>2. values \subseteq Nat /\ values # {}
    <3>1. Agree(r, r, n) /\ n + 1 \in Places
      BY DEF Places
    <3> QED
      BY <3>1
  <2>3. PICK v \in values : \A other \in values : v <= other
    <3> HIDE DEF values
    <3> QED
      BY <2>2, LeastNatural
  <2>4. PICK s \in T : Agree(s, r, n) /\ s[n + 1] = v
    BY <2>3
  <2>5. ASSUME NEW j \in 1 .. n PROVE Least(s, j)
    <3>1. Least(r, j)
      BY <2>1
    <3>2. \A i \in 1 .. j - 1 : s[i] = r[i]
      BY <2>4
    <3>3. s[j] = r[j]
      BY <2>4
    <3> QED
      BY <3>1, <3>2, <3>3
  <2>6. Least(s, n + 1)
    <3>1. SUFFICES ASSUME NEW other \in T, Agree(other, s, n) PROVE s[n + 1] <= other[n + 1]
      OBVIOUS
    <3>2. Agree(other, r, n)
      BY <2>4, <3>1
    <3> QED
      BY <2>3, <2>4, <3>2
  <2>7. \A j \in 1 .. n + 1 : Least(s, j)
    <3> HIDE DEF Least
    <3>1. \A j \in 1 .. n + 1 : j \in 1 .. n \/ j = n + 1
      OBVIOUS
    <3> QED
      BY <2>5, <2>6, <3>1
  <2> HIDE DEF Least
  <2> QED
    BY <2>7
<1>3. 12 \in has
  <2> HIDE DEF has
  <2>1. 0 .. 12 \subseteq has
    BY <1>1, <1>2, SetInduction
  <2> QED
    BY <2>1
<1>4. PICK r \in T : \A j \in 1 .. 12 : Least(r, j)
  BY <1>3
<1>5. ASSUME NEW other \in T PROVE ~IsBelow(other, r)
  <2>1. SUFFICES ASSUME NEW k \in Places, other[k] < r[k], \A j \in 1 .. k - 1 : other[j] = r[j]
                 PROVE  FALSE
    BY DEF IsBelow
  <2>2. r[k] <= other[k]
    BY <1>4, <2>1 DEF Places
  <2>3. r[k] \in Nat /\ other[k] \in Nat
    BY DEF Places
  <2> QED
    BY <2>1, <2>2, <2>3
<1> QED
  BY <1>5

LEMMA LeftIs ==
  /\ Left[1] = IF status = "running" THEN 1 ELSE 0
  /\ Left[2] = MaxFaults - faults /\ Left[3] = Cardinality(Items \ news)
  /\ Left[4] = MaxParts - cursor.counted /\ Left[5] = MaxIdleParts - cursor.idle
  /\ Left[6] = PhasesLeft(part.pc)
  /\ Left[7] = WalkEnd(WindowCount) - part.pos.day /\ Left[8] = TickerCount + 1 - part.pos.ticker
  /\ Left[9] = IF part.pc = "walk" THEN 1 ELSE 0
  /\ Left[10] = Cardinality(part.items)
  /\ Left[11] = IF part.pc = "items" THEN 1 ELSE 0
  /\ Left[12] = IF part.pc = "item" THEN Stages - checkpoints[Current] ELSE 0
  BY DEF Left

LEMMA LeftIsNext ==
  /\ Left'[1] = IF status' = "running" THEN 1 ELSE 0
  /\ Left'[2] = MaxFaults - faults' /\ Left'[3] = Cardinality(Items \ news')
  /\ Left'[4] = MaxParts - cursor'.counted /\ Left'[5] = MaxIdleParts - cursor'.idle
  /\ Left'[6] = PhasesLeft(part'.pc)
  /\ Left'[7] = WalkEnd(WindowCount) - part'.pos.day /\ Left'[8] = TickerCount + 1 - part'.pos.ticker
  /\ Left'[9] = IF part'.pc = "walk" THEN 1 ELSE 0
  /\ Left'[10] = Cardinality(part'.items)
  /\ Left'[11] = IF part'.pc = "items" THEN 1 ELSE 0
  /\ Left'[12] = IF part'.pc = "item" THEN Stages - checkpoints'[Current'] ELSE 0
  BY DEF Left

LEMMA RankOf ==
  ASSUME NEW f, f = Left, \A k \in Places : f[k] \in Nat
  PROVE  f \in [Places -> Nat]
<1>1. DOMAIN Left = 1 .. 12
  BY DEF Left
<1>2. Left = [k \in 1 .. 12 |-> Left[k]]
  BY DEF Left
<1> HIDE DEF Left
<1> QED
  BY <1>1, <1>2 DEF Places

\* The counts that are carried from part to part stay within their limits.
CountsOK ==
  /\ faults \in 0 .. MaxFaults
  /\ cursor.counted \in 0 .. MaxParts - 1 /\ cursor.idle \in 0 .. MaxIdleParts

LEMMA IdleStreakIs ==
  ASSUME CountsOK, NEW b
  PROVE  IdleStreak(b) \in Nat /\ (IsIdle(b) => IdleStreak(b) = cursor.idle + 1)
  BY LimitsAssumption DEF CountsOK, IdleStreak

\* A pause uses up a part, or an idle part.
LEMMA YieldCounts ==
  ASSUME CountsOK, NEW b, NEW phase, NEW stall, YieldPart(b, phase, stall)
  PROVE  \/ Fail
         \/ /\ UNCHANGED status
            /\ cursor'.counted \in 0 .. MaxParts - 1 /\ cursor'.idle \in 0 .. MaxIdleParts
            /\ \/ cursor'.counted > cursor.counted
               \/ cursor'.counted = cursor.counted /\ cursor'.idle > cursor.idle
<1> DEFINE counted == cursor.counted + (IF IsIdle(b) THEN 0 ELSE 1)
<1>1. SUFFICES ASSUME ~Fail PROVE
           /\ UNCHANGED status
           /\ cursor'.counted \in 0 .. MaxParts - 1 /\ cursor'.idle \in 0 .. MaxIdleParts
           /\ \/ cursor'.counted > cursor.counted
              \/ cursor'.counted = cursor.counted /\ cursor'.idle > cursor.idle
  OBVIOUS
<1>2. /\ ~(counted >= MaxParts) /\ ~(IdleStreak(b) > MaxIdleParts)
      /\ cursor'.counted = counted /\ cursor'.idle = IdleStreak(b) /\ UNCHANGED status
  <2> HIDE DEF Fail
  <2> QED
    BY <1>1 DEF YieldPart
<1>3. cursor.counted \in Nat /\ cursor.idle \in Nat /\ MaxParts \in Nat /\ MaxIdleParts \in Nat
  BY LimitsAssumption DEF CountsOK
<1>4. CASE IsIdle(b)
  BY <1>2, <1>3, <1>4, IdleStreakIs
<1>5. CASE ~IsIdle(b)
  BY <1>2, <1>3, <1>5, IdleStreakIs
<1> QED
  BY <1>4, <1>5

LEMMA PauseCounts ==
  ASSUME CountsOK, NEW b, Pause(b) \/ PauseForOutage(b)
  PROVE  \/ Fail
         \/ /\ UNCHANGED status
            /\ cursor'.counted \in 0 .. MaxParts - 1 /\ cursor'.idle \in 0 .. MaxIdleParts
            /\ \/ cursor'.counted > cursor.counted
               \/ cursor'.counted = cursor.counted /\ cursor'.idle > cursor.idle
  BY YieldCounts DEF Pause, PauseForOutage

LEMMA CountsInit == Init => CountsOK
  BY LimitsAssumption, FiniteAssumption DEF Init, CountsOK, FirstCursor

LEMMA CountsStep ==
  ASSUME CountsOK, [Next]_vars
  PROVE  CountsOK'
<1>1. ASSUME UNCHANGED faults, \/ UNCHANGED cursor
                               \/ Fail
                               \/ \E b : Pause(b) \/ PauseForOutage(b)
                               \/ \E b, phase, stall : YieldPart(b, phase, stall)
      PROVE  CountsOK'
  <2>1. CASE UNCHANGED cursor
    BY <1>1, <2>1 DEF CountsOK
  <2>2. CASE Fail
    BY <1>1, <2>2 DEF CountsOK, Fail
  <2>3. CASE \E b : Pause(b) \/ PauseForOutage(b)
    BY <1>1, <2>2, <2>3, PauseCounts DEF CountsOK
  <2>4. CASE \E b, phase, stall : YieldPart(b, phase, stall)
    BY <1>1, <2>2, <2>4, YieldCounts DEF CountsOK
  <2> QED
    BY <1>1, <2>1, <2>2, <2>3, <2>4
<1>2. CASE Start \/ Preflight \/ ReadNews \/ EndTicker \/ FinishItem \/ SkipItem \/ PartFails
  <2>1. UNCHANGED faults /\ (UNCHANGED cursor \/ Fail)
    BY <1>2 DEF Start, Preflight, ReadNews, EndTicker, FinishItem, SkipItem, PartFails, Unstored
  <2> QED
    BY <1>1, <2>1
<1>3. CASE StartItem
  BY <1>1, <1>3 DEF StartItem, Unstored
<1>4. CASE RunStage
  <2>1. UNCHANGED faults /\ (UNCHANGED cursor \/ \E b : Pause(b))
    BY <1>4 DEF RunStage
  <2> QED
    BY <1>1, <2>1
<1>5. CASE ModelUnavailable
  <2>1. UNCHANGED faults /\ \E b : Pause(b) \/ PauseForOutage(b)
    BY <1>5 DEF ModelUnavailable, Unstored
  <2> QED
    BY <1>1, <2>1
<1>6. CASE CheckExits
  <2>1. UNCHANGED faults /\ (UNCHANGED cursor \/ \E b : Pause(b))
    BY <1>6 DEF CheckExits
  <2> QED
    BY <1>1, <2>1
<1>7. CASE Score
  <2>1. UNCHANGED faults /\ (UNCHANGED cursor \/ \E b, phase, stall : YieldPart(b, phase, stall))
    BY <1>7 DEF Score, Unstored
  <2> QED
    BY <1>1, <2>1
<1>8. CASE Die
  BY <1>8, FiniteAssumption DEF Die, CountsOK
<1>9. CASE Arrive \/ UNCHANGED vars
  BY <1>9 DEF Arrive, vars, CountsOK
<1> QED
  BY <1>2, <1>3, <1>4, <1>5, <1>6, <1>7, <1>8, <1>9 DEF Next, PartStep

\* With the invariant, what is left is counted in natural numbers.
LEMMA LeftIsCounted ==
  ASSUME WalkInv, CountsOK
  PROVE  Left \in [Places -> Nat]
<1>1. /\ IsFiniteSet(Items \ news) /\ IsFiniteSet(part.items)
      /\ Cardinality(Items \ news) \in Nat /\ Cardinality(part.items) \in Nat
  <2>1. Items \ news \subseteq Items /\ part.items \subseteq Items
    BY DEF WalkInv, WalkTypes, WalkTypeOK
  <2> QED
    BY <2>1, FiniteAssumption, FS_Subset, FS_CardinalityType
<1>2. /\ MaxFaults - faults \in Nat /\ MaxParts - cursor.counted \in Nat /\ MaxIdleParts - cursor.idle \in Nat
  BY FiniteAssumption, LimitsAssumption DEF CountsOK
<1>3. PhasesLeft(part.pc) \in Nat
  BY DEF PhasesLeft, WalkInv, WalkTypes
<1>4. WalkEnd(WindowCount) - part.pos.day \in Nat /\ TickerCount + 1 - part.pos.ticker \in Nat
  <2>1. part.pos \in Positions
    BY DEF WalkInv, WalkTypes, WalkTypeOK
  <2>2. WalkEnd(WindowCount) \in Nat
    BY WindowCountFacts, WindowFacts
  <2>3. part.pos.day \in Nat /\ part.pos.day <= WalkEnd(WindowCount) /\ part.pos.ticker \in 1 .. TickerCount + 1
    BY <2>1, PositionFacts, AllDaysFacts
  <2> QED
    BY <2>2, <2>3, LimitsAssumption
<1>5. part.pc = "item" => Stages - checkpoints[Current] \in Nat
  <2>1. ASSUME part.pc = "item" PROVE checkpoints[Current] \in 0 .. Stages
    BY <2>1, NextItem DEF WalkInv, WalkTypes, WalkTypeOK
  <2> QED
    BY <2>1, LimitsAssumption
<1>6. \A k \in Places : Left[k] \in Nat
  <2>1. /\ Left[1] \in Nat /\ Left[2] \in Nat /\ Left[3] \in Nat /\ Left[4] \in Nat /\ Left[5] \in Nat
        /\ Left[6] \in Nat /\ Left[7] \in Nat /\ Left[8] \in Nat /\ Left[9] \in Nat /\ Left[10] \in Nat
        /\ Left[11] \in Nat /\ Left[12] \in Nat
    BY <1>1, <1>2, <1>3, <1>4, <1>5, LeftIs
  <2> QED
    BY <2>1 DEF Places
<1> QED
  BY <1>6, RankOf

LEMMA BelowAtFirst ==
  ASSUME NEW r, NEW s
  PROVE  /\ r[1] < s[1] => IsBelow(r, s)
         /\ r[1] = s[1] /\ r[2] < s[2] => IsBelow(r, s)
         /\ r[1] = s[1] /\ r[2] = s[2] /\ r[3] < s[3] => IsBelow(r, s)
         /\ r[1] = s[1] /\ r[2] = s[2] /\ r[3] = s[3] /\ r[4] < s[4] => IsBelow(r, s)
         /\ r[1] = s[1] /\ r[2] = s[2] /\ r[3] = s[3] /\ r[4] = s[4] /\ r[5] < s[5] => IsBelow(r, s)
<1>1. \A k \in 1 .. 5 : k \in Places
  BY DEF Places
<1> QED
  BY <1>1, BelowAt

\* Within a part, from what it is yet to begin to the stages of an item.
LEMMA BelowInPart ==
  ASSUME NEW r, NEW s, r[1] = s[1], r[2] = s[2], r[3] = s[3], r[4] = s[4], r[5] = s[5]
  PROVE  /\ r[6] < s[6] => IsBelow(r, s)
         /\ r[6] = s[6] /\ r[7] < s[7] => IsBelow(r, s)
         /\ r[6] = s[6] /\ r[7] = s[7] /\ r[8] < s[8] => IsBelow(r, s)
         /\ r[6] = s[6] /\ r[7] = s[7] /\ r[8] = s[8] /\ r[9] < s[9] => IsBelow(r, s)
         /\ r[6] = s[6] /\ r[7] = s[7] /\ r[8] = s[8] /\ r[9] = s[9] /\ r[10] < s[10] => IsBelow(r, s)
         /\ r[6] = s[6] /\ r[7] = s[7] /\ r[8] = s[8] /\ r[9] = s[9] /\ r[10] = s[10] /\ r[11] < s[11]
            => IsBelow(r, s)
         /\ r[6] = s[6] /\ r[7] = s[7] /\ r[8] = s[8] /\ r[9] = s[9] /\ r[10] = s[10] /\ r[11] = s[11]
            /\ r[12] < s[12] => IsBelow(r, s)
<1>1. \A k \in 6 .. 12 : k \in Places
  BY DEF Places
<1> QED
  BY <1>1, BelowAt

\* A part that ends, ends the run or uses up a part of it.
LEMMA FailIsBelow ==
  ASSUME WalkInv, part.pc # "idle", Fail
  PROVE  IsBelow(Left', Left)
<1>1. Left[1] = 1 /\ Left'[1] = 0
  BY LeftIs, LeftIsNext DEF WalkInv, PartOK, Fail
<1> QED
  BY <1>1, BelowAtFirst

LEMMA EndedIsBelow ==
  ASSUME WalkInv, CountsOK, part.pc # "idle", UNCHANGED <<faults, news>>,
         \/ Fail
         \/ /\ UNCHANGED status
            /\ cursor'.counted \in 0 .. MaxParts - 1 /\ cursor'.idle \in 0 .. MaxIdleParts
            /\ \/ cursor'.counted > cursor.counted
               \/ cursor'.counted = cursor.counted /\ cursor'.idle > cursor.idle
  PROVE  IsBelow(Left', Left)
<1>1. CASE Fail
  BY <1>1, FailIsBelow
<1>2. CASE ~Fail
  <2>1. Left'[1] = Left[1] /\ Left'[2] = Left[2] /\ Left'[3] = Left[3]
    BY <1>2, LeftIs, LeftIsNext
  <2>2. Left'[4] < Left[4] \/ (Left'[4] = Left[4] /\ Left'[5] < Left[5])
    BY <1>2, LeftIs, LeftIsNext, LimitsAssumption DEF CountsOK
  <2> QED
    BY <2>1, <2>2, BelowAtFirst
<1> QED
  BY <1>1, <1>2

\* A part that goes on leaves the run's counts alone.
LEMMA InPart ==
  ASSUME UNCHANGED <<status, faults, news, cursor>>
  PROVE  /\ Left'[1] = Left[1] /\ Left'[2] = Left[2] /\ Left'[3] = Left[3] /\ Left'[4] = Left[4]
         /\ Left'[5] = Left[5]
  BY LeftIs, LeftIsNext

LEMMA StartIsBelow ==
  ASSUME WalkInv, Start
  PROVE  IsBelow(Left', Left)
<1>1. UNCHANGED <<status, faults, news, cursor>> /\ part.pc = "idle" /\ part'.pc = cursor.phase
  BY IdleFacts DEF Start, Unstored, PartFields
<1>2. cursor.phase \in {"preflight", "walk", "score"}
  BY DEF WalkInv, WalkTypes
<1>3. Left[6] = 3 /\ Left'[6] \in {0, 1, 2}
  BY <1>1, <1>2, LeftIs, LeftIsNext DEF PhasesLeft
<1> QED
  BY <1>1, <1>3, InPart, BelowInPart

LEMMA PreflightIsBelow ==
  ASSUME WalkInv, Preflight
  PROVE  IsBelow(Left', Left)
<1>1. part.pc = "preflight" /\ UNCHANGED <<faults, news>>
  BY DEF Preflight, Unstored
<1>2. CASE Fail
  BY <1>1, <1>2, FailIsBelow
<1>3. CASE ~Fail
  <2>1. UNCHANGED <<status, cursor>> /\ part'.pc = "walk"
    BY <1>3 DEF Preflight, WalkInv, WalkTypes, PartFields
  <2>2. Left[6] = 2 /\ Left'[6] = 1
    BY <1>1, <2>1, LeftIs, LeftIsNext DEF PhasesLeft
  <2> QED
    BY <1>1, <2>1, <2>2, InPart, BelowInPart
<1> QED
  BY <1>2, <1>3

LEMMA ReadNewsIsBelow ==
  ASSUME WalkInv, ReadNews
  PROVE  IsBelow(Left', Left)
<1>1. /\ UNCHANGED <<status, faults, news, cursor>> /\ part.pc = "walk" /\ part'.pc = "items"
      /\ part'.pos = part.pos
  BY DEF ReadNews, Unstored, WalkInv, WalkTypes, PartFields
<1>2. /\ Left'[6] = Left[6] /\ Left'[7] = Left[7] /\ Left'[8] = Left[8] /\ Left[9] = 1 /\ Left'[9] = 0
  BY <1>1, LeftIs, LeftIsNext DEF PhasesLeft
<1> QED
  BY <1>1, <1>2, InPart, BelowInPart

LEMMA EndTickerIsBelow ==
  ASSUME WalkInv, EndTicker
  PROVE  IsBelow(Left', Left)
<1>1. /\ UNCHANGED <<status, faults, news, cursor>> /\ part.pc = "items" /\ part'.pc = "walk"
      /\ part'.pos.day = part.pos.day /\ part'.pos.ticker = part.pos.ticker + 1
  BY DEF EndTicker, Unstored, WalkInv, WalkTypes, PartFields
<1>2. part.pos.ticker \in Nat /\ TickerCount \in Nat
  BY PositionFacts, LimitsAssumption DEF WalkInv, WalkTypes, WalkTypeOK
<1>3. /\ Left'[6] = Left[6] /\ Left'[7] = Left[7] /\ Left'[8] < Left[8]
  BY <1>1, <1>2, LeftIs, LeftIsNext DEF PhasesLeft
<1> QED
  BY <1>1, <1>3, InPart, BelowInPart

LEMMA StartItemIsBelow ==
  ASSUME WalkInv, CountsOK, StartItem
  PROVE  IsBelow(Left', Left)
<1>1. part.pc = "items" /\ UNCHANGED <<faults, news>>
  BY DEF StartItem, Unstored
<1>2. CASE Pause(budget)
  BY <1>1, <1>2, PauseCounts, EndedIsBelow
<1>3. CASE ~Pause(budget)
  <2>1. /\ UNCHANGED <<status, cursor>> /\ part'.pc = "item" /\ part'.pos = part.pos /\ part'.items = part.items
    BY <1>3 DEF StartItem, WalkInv, WalkTypes, PartFields
  <2>2. /\ Left'[6] = Left[6] /\ Left'[7] = Left[7] /\ Left'[8] = Left[8] /\ Left'[9] = Left[9]
        /\ Left'[10] = Left[10] /\ Left[11] = 1 /\ Left'[11] = 0
    BY <1>1, <2>1, LeftIs, LeftIsNext DEF PhasesLeft
  <2> QED
    BY <1>1, <2>1, <2>2, InPart, BelowInPart
<1> QED
  BY <1>2, <1>3

LEMMA RunStageIsBelow ==
  ASSUME WalkInv, CountsOK, RunStage
  PROVE  IsBelow(Left', Left)
<1>1. part.pc = "item" /\ UNCHANGED <<faults, news>>
  BY DEF RunStage
<1>2. CASE \E b : Pause(b)
  BY <1>1, <1>2, PauseCounts, EndedIsBelow
<1>3. CASE ~\E b : Pause(b)
  <2>1. /\ UNCHANGED <<part, status, cursor>>
        /\ checkpoints' = [checkpoints EXCEPT ![Current] = @ + 1]
    BY <1>3 DEF RunStage
  <2>2. Current' = Current
    BY <2>1, SameCurrent
  <2>3. Current \in Items /\ checkpoints \in [Items -> 0 .. Stages] /\ Stages \in Nat
    BY <1>1, NextItem, LimitsAssumption DEF WalkInv, WalkTypes, WalkTypeOK
  <2>4. Left'[12] < Left[12]
    <3> HIDE DEF Current
    <3>1. checkpoints'[Current] = checkpoints[Current] + 1 /\ checkpoints[Current] \in Nat
      BY <2>1, <2>3
    <3> QED
      BY <1>1, <2>1, <2>2, <2>3, <3>1, LeftIs, LeftIsNext
  <2>5. /\ Left'[6] = Left[6] /\ Left'[7] = Left[7] /\ Left'[8] = Left[8] /\ Left'[9] = Left[9]
        /\ Left'[10] = Left[10] /\ Left'[11] = Left[11]
    BY <2>1, LeftIs, LeftIsNext
  <2> QED
    BY <1>1, <2>1, <2>4, <2>5, InPart, BelowInPart
<1> QED
  BY <1>2, <1>3

LEMMA ModelUnavailableIsBelow ==
  ASSUME WalkInv, CountsOK, ModelUnavailable
  PROVE  IsBelow(Left', Left)
<1>1. part.pc = "item" /\ UNCHANGED <<faults, news>> /\ \E b : Pause(b) \/ PauseForOutage(b)
  BY DEF ModelUnavailable, Unstored
<1> QED
  BY <1>1, PauseCounts, EndedIsBelow

\* One item fewer.
LEMMA GoPastIsBelow ==
  ASSUME WalkInv, part.pc = "item", UNCHANGED <<status, faults, news, cursor>>,
         part'.pc = "items", part'.items = part.items \ {Current},
         part'.pos = [part.pos EXCEPT !.after = Current.key]
  PROVE  IsBelow(Left', Left)
<1>1. Current \in part.items /\ part.items \subseteq Items
  BY NextItem DEF WalkInv, WalkTypes, WalkTypeOK
<1>2. Cardinality(part'.items) = Cardinality(part.items) - 1 /\ Cardinality(part.items) \in Nat
  <2>1. IsFiniteSet(part.items)
    BY <1>1, FiniteAssumption, FS_Subset
  <2> HIDE DEF Current
  <2> QED
    BY <1>1, <2>1, FS_RemoveElement, FS_CardinalityType
<1>3. part'.pos.day = part.pos.day /\ part'.pos.ticker = part.pos.ticker
  BY PositionFacts DEF WalkInv, WalkTypes, WalkTypeOK
<1>4. /\ Left'[6] = Left[6] /\ Left'[7] = Left[7] /\ Left'[8] = Left[8] /\ Left'[9] = Left[9]
      /\ Left'[10] < Left[10]
  BY <1>2, <1>3, LeftIs, LeftIsNext DEF PhasesLeft
<1> QED
  BY <1>4, InPart, BelowInPart

LEMMA FinishItemIsBelow ==
  ASSUME WalkInv, FinishItem
  PROVE  IsBelow(Left', Left)
<1>1. /\ UNCHANGED <<status, faults, news, cursor>> /\ part.pc = "item"
      /\ part' = [part EXCEPT !.pc = "items", !.items = @ \ {Current}, !.pos.after = Current.key]
  BY DEF FinishItem, GoPast, Unstored
<1>2. part'.pc = "items" /\ part'.items = part.items \ {Current} /\ part'.pos = [part.pos EXCEPT !.after = Current.key]
  <2> HIDE DEF Current
  <2> QED
    BY <1>1 DEF WalkInv, WalkTypes, PartFields
<1> QED
  BY <1>1, <1>2, GoPastIsBelow

LEMMA SkipItemIsBelow ==
  ASSUME WalkInv, SkipItem
  PROVE  IsBelow(Left', Left)
<1>1. part.pc = "item" /\ UNCHANGED <<faults, news>>
  BY DEF SkipItem
<1>2. CASE Fail
  BY <1>1, <1>2, FailIsBelow
<1>3. CASE ~Fail
  <2>1. /\ part' = [part EXCEPT !.pc = "items", !.items = @ \ {Current}, !.pos.after = Current.key, !.skipped = @ + 1]
        /\ UNCHANGED <<status, cursor>>
    <3> HIDE DEF Fail
    <3> QED
      BY <1>3 DEF SkipItem
  <2>2. part'.pc = "items" /\ part'.items = part.items \ {Current} /\ part'.pos = [part.pos EXCEPT !.after = Current.key]
    <3> HIDE DEF Current
    <3> QED
      BY <2>1 DEF WalkInv, WalkTypes, PartFields
  <2> QED
    BY <1>1, <2>1, <2>2, GoPastIsBelow
<1> QED
  BY <1>2, <1>3

\* One day fewer, or nothing left but the scoring.
LEMMA CheckExitsIsBelow ==
  ASSUME WalkInv, CountsOK, CheckExits
  PROVE  IsBelow(Left', Left)
<1>1. part.pc = "walk" /\ part.pos.exits /\ UNCHANGED <<faults, news>>
  BY DEF CheckExits
<1>2. CASE Pause(budget)
  BY <1>1, <1>2, PauseCounts, EndedIsBelow
<1>3. CASE ~Pause(budget)
  <2> DEFINE day == part.pos.day
             w == part.window
             left == WalkEnd(w) - day
  <2>1. UNCHANGED <<status, cursor>> /\ part' = AfterDay(busy')
    BY <1>3 DEF CheckExits
  <2>2. /\ w \in 1 .. WindowCount /\ DOMAIN part = PartFields /\ day \in WalkDays(w) /\ day \in Nat
    BY <1>1, PositionFacts DEF WalkInv, WalkTypes, WalkTypeOK, PartOK, PlaceOK
  <2>3. /\ WalkEnd(w) \in Nat /\ day <= WalkEnd(w)
        /\ w # WindowCount => TestStart(w + 1) = WalkEnd(w) + 1
    <3>1. WindowCount \in Nat /\ WalkEnd(w) \in Nat
      BY <2>2, WindowCountFacts, WindowFacts
    <3>2. day <= WalkEnd(w)
      BY <2>2 DEF WalkDays
    <3>3. TestStart(w) \in Nat /\ TestEnd(w) = TestStart(w) + TestDays /\ TestDays \in Nat
      BY <2>2, WindowFacts, DaysAssumption
    <3>4. w # WindowCount => WalkEnd(w) = TestEnd(w) - 1 /\ TestEnd(w) = TestStart(w + 1)
      BY <2>2, WindowFacts
    <3> QED
      BY <3>1, <3>2, <3>3, <3>4
  <2>4. WalkEnd(WindowCount) \in Nat
    BY WindowCountFacts, WindowFacts
  <2>5. \/ part'.pc = "score"
        \/ part'.pc = "walk" /\ part'.pos.day > day /\ part'.pos.day \in Nat
    <3>1. CASE left > 0 /\ ~MayStop(day, busy')
      <4>1. part' = [part EXCEPT !.pos = StartOf(day + 1)]
        BY <2>1, <3>1 DEF AfterDay
      <4>2. part'.pc = "walk" /\ part'.pos.day = day + 1
        BY <1>1, <2>2, <4>1 DEF StartOf, PartFields
      <4> QED
        BY <2>2, <4>2
    <3>2. CASE ~(left > 0 /\ ~MayStop(day, busy')) /\ ~IsLastWindow(w)
      <4>1. part' = [part EXCEPT !.window = @ + 1, !.pos = StartOf(TestStart(w + 1))]
        BY <2>1, <3>2 DEF AfterDay
      <4>2. part'.pc = "walk" /\ part'.pos.day = TestStart(w + 1)
        BY <1>1, <2>2, <4>1 DEF StartOf, PartFields
      <4>3. w # WindowCount
        BY <3>2 DEF IsLastWindow
      <4> QED
        BY <2>2, <2>3, <4>2, <4>3
    <3>3. CASE ~(left > 0 /\ ~MayStop(day, busy')) /\ IsLastWindow(w)
      BY <2>1, <2>2, <3>3 DEF AfterDay, PartFields
    <3> QED
      BY <3>1, <3>2, <3>3
  <2>6. CASE part'.pc = "score"
    <3>1. Left[6] = 1 /\ Left'[6] = 0
      BY <1>1, <2>6, LeftIs, LeftIsNext DEF PhasesLeft
    <3> QED
      BY <1>1, <2>1, <3>1, InPart, BelowInPart
  <2>7. CASE part'.pc = "walk" /\ part'.pos.day > day /\ part'.pos.day \in Nat
    <3>1. Left[6] = Left'[6] /\ Left'[7] < Left[7]
      BY <1>1, <2>2, <2>4, <2>7, LeftIs, LeftIsNext
    <3> QED
      BY <1>1, <2>1, <3>1, InPart, BelowInPart
  <2> QED
    BY <2>5, <2>6, <2>7
<1> QED
  BY <1>2, <1>3

LEMMA ScoreIsBelow ==
  ASSUME WalkInv, CountsOK, Score
  PROVE  IsBelow(Left', Left)
<1>1. part.pc = "score" /\ UNCHANGED <<faults, news>>
  BY DEF Score, Unstored
<1>2. CASE YieldPart(budget, "score", NoStall)
  BY <1>1, <1>2, YieldCounts, EndedIsBelow
<1>3. CASE status' = "complete"
  <2>1. Left[1] = 1 /\ Left'[1] = 0
    BY <1>1, <1>3, LeftIs, LeftIsNext DEF WalkInv, PartOK
  <2> QED
    BY <2>1, BelowAtFirst
<1> QED
  BY <1>2, <1>3 DEF Score

LEMMA DieIsBelow ==
  ASSUME CountsOK, Die
  PROVE  IsBelow(Left', Left)
<1>1. Left'[1] = Left[1] /\ Left'[2] < Left[2]
  BY LeftIs, LeftIsNext, FiniteAssumption DEF Die, CountsOK
<1> QED
  BY <1>1, BelowAtFirst

LEMMA ArriveIsBelow ==
  ASSUME Arrive
  PROVE  IsBelow(Left', Left)
<1>1. UNCHANGED <<status, faults>> /\ \E item \in Late \ news : news' = news \cup {item}
  BY DEF Arrive
<1>2. PICK item \in Late \ news : news' = news \cup {item}
  BY <1>1
<1>3. item \in Items \ news /\ Items \ news' = (Items \ news) \ {item}
  BY <1>2, ItemsAssumption
<1>4. IsFiniteSet(Items \ news)
  BY FiniteAssumption, FS_Subset
<1>5. Cardinality(Items \ news') = Cardinality(Items \ news) - 1 /\ Cardinality(Items \ news) \in Nat
  BY <1>3, <1>4, FS_RemoveElement, FS_CardinalityType
<1>6. Left'[1] = Left[1] /\ Left'[2] = Left[2] /\ Left'[3] < Left[3]
  BY <1>1, <1>5, LeftIs, LeftIsNext
<1> QED
  BY <1>6, BelowAtFirst

LEMMA StepIsBelow ==
  ASSUME WalkInv, CountsOK, Next
  PROVE  IsBelow(Left', Left)
<1>1. CASE Start \/ Preflight \/ ReadNews \/ EndTicker
  BY <1>1, StartIsBelow, PreflightIsBelow, ReadNewsIsBelow, EndTickerIsBelow
<1>2. CASE StartItem \/ RunStage \/ ModelUnavailable \/ FinishItem \/ SkipItem
  BY <1>2, StartItemIsBelow, RunStageIsBelow, ModelUnavailableIsBelow, FinishItemIsBelow, SkipItemIsBelow
<1>3. CASE CheckExits \/ Score
  BY <1>3, CheckExitsIsBelow, ScoreIsBelow
<1>4. CASE PartFails
  BY <1>4, FailIsBelow DEF PartFails
<1>5. CASE Die \/ Arrive
  BY <1>5, DieIsBelow, ArriveIsBelow
<1> QED
  BY <1>1, <1>2, <1>3, <1>4, <1>5 DEF Next, PartStep

\* Every step of the run uses something up, and by NoEndlessDescent that ends: whatever is paused,
\* skipped, delivered again or stored meanwhile, a run has no endless behaviour.
THEOREM EveryStepCountsHolds == Spec => EveryStepCounts
<1>1. Init => CountsOK
  BY CountsInit
<1>2. CountsOK /\ [Next]_vars => CountsOK'
  BY CountsStep
<1>3. WalkInv /\ CountsOK /\ [Next]_vars => [IsBelow(Left', Left) /\ Left \in [Places -> Nat]]_vars
  BY StepIsBelow, LeftIsCounted
<1> QED
  BY <1>1, <1>2, <1>3, WalkInvariance, PTL DEF Spec, EveryStepCounts
=============================================================================

------------------------ MODULE IntradayBars_proofs ------------------------
(***************************************************************************)
(* For any watchlist, any lengths of day, batch, lookback and retention,   *)
(* and any number of ticks that run at the same time: a day that nothing   *)
(* opens again has all its bars, and the purge spares a run.               *)
(*                                                                         *)
(* A mark looks at no row and brings its day the status "done" with the    *)
(* time of the claim.  It may do so because a tick that holds a day alone  *)
(* knows what the row says (ClaimStands) and has every bar that was over   *)
(* when it claimed (HolderHasBars).                                        *)
(***************************************************************************)
EXTENDS IntradayBars, TLAPS

\* The bars of a day that pass the gate, up to an instant.
Needed(key, now) == {<<key[1], u>> : u \in {b \in BarsOf(key[2]) \ Refused : b < now}}

Row == [status : {"none", "pending", "in_progress", "done", "failed"}, last : Int]

IsTick(i) ==
  i = [pc |-> i.pc, now |-> i.now, seed |-> i.seed, todo |-> i.todo, days |-> i.days, got |-> i.got]

ClockOK ==
  /\ clock \in Nat /\ rows \in [Tickers \X Days -> Row]
  /\ DOMAIN tick = Invocations
  /\ \A w \in Invocations : IsTick(tick[w]) /\ tick[w].now \in Int /\ tick[w].now <= clock

HoldersShare ==
  \A v, w \in Invocations : v # w => Holds(v) \cap Holds(w) \subseteq shared

ClaimStands ==
  \A w \in Invocations : \A key \in Holds(w) \ shared :
    key \in DOMAIN rows => rows[key] = [status |-> "in_progress", last |-> tick[w].now]

HolderHasBars ==
  \A w \in Invocations : \A key \in Claimed(w) :
    /\ At(w, "write") => \A b \in Needed(key, tick[w].now) : b \in tick[w].got
    /\ At(w, "done") => Needed(key, tick[w].now) \subseteq bars \cup purged

FillInv == ClockOK /\ HoldersShare /\ ClaimStands /\ HolderHasBars /\ FinalIsWhole

-----------------------------------------------------------------------------

LEMMA BarsEnd ==
  ASSUME NEW key, NEW now \in Int, key[2] \in Days, now >= EndOf(key[2]),
         Needed(key, now) \subseteq bars \cup purged
  PROVE  IsWhole(key)
<1>1. DayLen \in Nat /\ key[2] \in Int
  BY IntradayAssumption DEF Days
<1>2. EndOf(key[2]) \in Int /\ key[2] * DayLen \in Int
  BY <1>1 DEF EndOf
<1>3. \A u \in BarsOf(key[2]) : u \in Int /\ u < now
  BY <1>2 DEF BarsOf
<1> QED
  BY <1>3 DEF IsWhole, Needed


-----------------------------------------------------------------------------
(* Steps of one tick.                                                       *)

\* A step after which the tick holds no day, and that touches no row that is claimed.
LEMMA FreeStep ==
  ASSUME FillInv, NEW w \in Invocations, NEW i, tick' = [tick EXCEPT ![w] = i], IsTick(i),
         i.now \in Int, i.now <= clock, i.pc \notin {"fetch", "write", "done", "failed"},
         rows' \in [Tickers \X Days -> Row],
         \A key \in DOMAIN rows :
           rows'[key] = rows[key] \/ (rows'[key].status # "done" /\ rows[key].status # "in_progress"),
         UNCHANGED <<clock, bars, shared, purged>>
  PROVE  FillInv'
<1>1. /\ tick'[w] = i
      /\ \A v \in Invocations \ {w} : tick'[v] = tick[v]
      /\ DOMAIN tick' = Invocations
  BY DEF FillInv, ClockOK
<1>2. ClockOK'
  BY <1>1 DEF FillInv, ClockOK
<1>3. /\ Holds(w)' = {}
      /\ \A v \in Invocations \ {w} : Holds(v)' = Holds(v) /\ Claimed(v)' = Claimed(v)
  BY <1>1 DEF Holds, Claimed, Ticker
<1>4. HoldersShare'
  BY <1>3 DEF FillInv, HoldersShare
<1>5. ClaimStands'
  <2> SUFFICES ASSUME NEW v \in Invocations, NEW key \in Holds(v)' \ shared', key \in DOMAIN rows'
               PROVE  rows'[key] = [status |-> "in_progress", last |-> tick'[v].now]
    BY DEF ClaimStands
  <2>1. v # w /\ key \in Holds(v) \ shared /\ key \in DOMAIN rows /\ tick'[v] = tick[v]
    BY <1>1, <1>3 DEF FillInv, ClockOK
  <2>2. rows[key] = [status |-> "in_progress", last |-> tick[v].now]
    BY <2>1 DEF FillInv, ClaimStands
  <2> QED
    BY <2>1, <2>2
<1>6. HolderHasBars'
  BY <1>1, <1>3 DEF FillInv, HolderHasBars, At, Needed
<1>7. FinalIsWhole'
  BY DEF FillInv, ClockOK, FinalIsWhole, IsFinal, IsWhole
<1> QED
  BY <1>2, <1>4, <1>5, <1>6, <1>7 DEF FillInv


LEMMA ClaimStep ==
  ASSUME FillInv, NEW w \in Invocations, Claim(w)
  PROVE  FillInv'
<1> DEFINE mine == [status |-> "in_progress", last |-> tick[w].now]
<1>1. /\ tick'[w] = [tick[w] EXCEPT !.pc = "fetch"] /\ IsTick(tick[w])
      /\ \A v \in Invocations \ {w} : tick'[v] = tick[v]
      /\ DOMAIN tick' = Invocations /\ mine \in Row
  BY DEF FillInv, ClockOK, Claim, Become, Row
<1>2. ClockOK'
  <2>1. \A v \in Invocations : IsTick(tick'[v]) /\ tick'[v].now = tick[v].now
    BY <1>1 DEF FillInv, ClockOK, IsTick
  <2>2. rows' \in [Tickers \X Days -> Row]
    BY <1>1 DEF FillInv, ClockOK, Claim
  <2> QED
    BY <1>1, <2>1, <2>2 DEF FillInv, ClockOK, Claim
<1>3. /\ Holds(w)' = Claimed(w)
      /\ \A v \in Invocations \ {w} : Holds(v)' = Holds(v) /\ Claimed(v)' = Claimed(v)
      /\ Claimed(w)' = Claimed(w)
  <2>1. tick'[w].pc = "fetch" /\ tick'[w].todo = tick[w].todo /\ tick'[w].days = tick[w].days
    BY <1>1 DEF IsTick
  <2>2. Claimed(w)' = Claimed(w)
    BY <2>1 DEF Claimed, Ticker
  <2>3. Holds(w)' = Claimed(w)'
    BY <2>1 DEF Holds, Claimed, Ticker
  <2>4. \A v \in Invocations \ {w} : Holds(v)' = Holds(v) /\ Claimed(v)' = Claimed(v)
    BY <1>1 DEF Holds, Claimed, Ticker
  <2> QED
    BY <2>2, <2>3, <2>4
<1>4. HoldersShare'
  <2> SUFFICES ASSUME NEW u \in Invocations, NEW v \in Invocations, u # v
               PROVE  Holds(u)' \cap Holds(v)' \subseteq shared'
    BY DEF HoldersShare
  <2>1. shared \subseteq shared'
    BY DEF Claim
  <2>2. \A x \in Invocations \ {w} : Claimed(w) \cap Holds(x) \subseteq shared'
    BY DEF Claim
  <2> QED
    BY <1>3, <2>1, <2>2 DEF FillInv, HoldersShare
<1>5. ClaimStands'
  <2> SUFFICES ASSUME NEW v \in Invocations, NEW key \in Holds(v)' \ shared', key \in DOMAIN rows'
               PROVE  rows'[key] = [status |-> "in_progress", last |-> tick'[v].now]
    BY DEF ClaimStands
  <2>1. rows' = [k \in DOMAIN rows |-> IF k \in Claimed(w) THEN mine ELSE rows[k]]
    BY DEF Claim
  <2>2. CASE v = w
    BY <2>1, <2>2, <1>1, <1>3
  <2>3. CASE v # w
    <3>1. key \in Holds(v) \ shared /\ key \notin Claimed(w) /\ key \in DOMAIN rows
      BY <2>1, <2>3, <1>3 DEF Claim
    <3>2. rows[key] = [status |-> "in_progress", last |-> tick[v].now]
      BY <3>1 DEF FillInv, ClaimStands
    <3> QED
      BY <2>1, <2>3, <3>1, <3>2, <1>1
  <2> QED
    BY <2>2, <2>3
<1>6. HolderHasBars'
  <2> SUFFICES ASSUME NEW v \in Invocations, NEW key \in Claimed(v)'
               PROVE  /\ At(v, "write")' => \A b \in Needed(key, tick'[v].now) : b \in tick'[v].got
                      /\ At(v, "done")' => Needed(key, tick'[v].now) \subseteq bars' \cup purged'
    BY DEF HolderHasBars, Needed
  <2>1. UNCHANGED <<bars, purged>>
    BY DEF Claim
  <2>2. CASE v = w
    <3>1. ~At(v, "write")' /\ ~At(v, "done")'
      BY <2>2, <1>1 DEF At, IsTick
    <3> QED
      BY <3>1
  <2>3. CASE v # w
    BY <2>1, <2>3, <1>1, <1>3 DEF FillInv, HolderHasBars, At
  <2> QED
    BY <2>2, <2>3
<1>7. FinalIsWhole'
  BY DEF FillInv, ClockOK, FinalIsWhole, IsFinal, IsWhole, Claim
<1> QED
  BY <1>2, <1>4, <1>5, <1>6, <1>7 DEF FillInv

\* A step that touches no row, keeps what is stored, and lets the tick fetch or write.
LEMMA WorkStep ==
  ASSUME FillInv, NEW w \in Invocations, NEW pc, NEW got,
         tick' = [tick EXCEPT ![w] = [tick[w] EXCEPT !.pc = pc, !.got = got]],
         Holds(w) = Claimed(w),
         \A key \in Claimed(w) :
           /\ pc = "write" => \A b \in Needed(key, tick[w].now) : b \in got
           /\ pc = "done" => Needed(key, tick[w].now) \subseteq bars' \cup purged',
         bars \cup purged \subseteq bars' \cup purged',
         UNCHANGED <<clock, rows, shared>>
  PROVE  FillInv'
<1>1. /\ tick'[w].now = tick[w].now /\ tick'[w].todo = tick[w].todo /\ tick'[w].days = tick[w].days
      /\ tick'[w].pc = pc /\ tick'[w].got = got /\ IsTick(tick'[w])
      /\ \A v \in Invocations \ {w} : tick'[v] = tick[v]
      /\ DOMAIN tick' = Invocations
  <2>1. /\ tick'[w] = [tick[w] EXCEPT !.pc = pc, !.got = got]
        /\ \A v \in Invocations \ {w} : tick'[v] = tick[v]
        /\ DOMAIN tick' = Invocations
    BY DEF FillInv, ClockOK
  <2>2. IsTick(tick[w])
    BY DEF FillInv, ClockOK
  <2>3. tick'[w] = [pc |-> pc, now |-> tick[w].now, seed |-> tick[w].seed, todo |-> tick[w].todo,
                    days |-> tick[w].days, got |-> got]
    BY <2>1, <2>2 DEF IsTick
  <2> QED
    BY <2>1, <2>3 DEF IsTick
<1>2. ClockOK'
  BY <1>1 DEF FillInv, ClockOK
<1>3. /\ Holds(w)' \subseteq Holds(w)
      /\ \A v \in Invocations \ {w} : Holds(v)' = Holds(v) /\ Claimed(v)' = Claimed(v)
      /\ Claimed(w)' = Claimed(w)
  BY <1>1 DEF Holds, Claimed, Ticker
<1>4. HoldersShare' /\ ClaimStands'
  BY <1>1, <1>3 DEF FillInv, HoldersShare, ClaimStands
<1>5. HolderHasBars'
  <2> SUFFICES ASSUME NEW v \in Invocations, NEW key \in Claimed(v)'
               PROVE  /\ At(v, "write")' => \A b \in Needed(key, tick'[v].now) : b \in tick'[v].got
                      /\ At(v, "done")' => Needed(key, tick'[v].now) \subseteq bars' \cup purged'
    BY DEF HolderHasBars, Needed
  <2>1. CASE v = w
    BY <2>1, <1>1, <1>3 DEF At
  <2>2. CASE v # w
    BY <2>2, <1>1, <1>3 DEF FillInv, HolderHasBars, At
  <2> QED
    BY <2>1, <2>2
<1>6. FinalIsWhole'
  BY DEF FillInv, ClockOK, FinalIsWhole, IsFinal, IsWhole
<1> QED
  BY <1>2, <1>4, <1>5, <1>6 DEF FillInv


LEMMA FetchStep ==
  ASSUME FillInv, NEW w \in Invocations, Fetch(w)
  PROVE  FillInv'
<1>1. Holds(w) = Claimed(w) /\ IsTick(tick[w]) /\ UNCHANGED <<clock, rows, bars, purged, shared>>
  BY DEF Fetch, At, Holds, FillInv, ClockOK
<1>2. CASE Become(w, [tick[w] EXCEPT !.pc = "write", !.got = VendorBars(Ticker(w), tick[w].days)])
  <2>1. ASSUME NEW key \in Claimed(w), NEW b \in Needed(key, tick[w].now)
        PROVE  b \in VendorBars(Ticker(w), tick[w].days)
    <3>1. PICK d \in tick[w].days : key = <<Ticker(w), d>>
      BY DEF Claimed
    <3>2. PICK u \in BarsOf(d) : u < tick[w].now /\ b = <<Ticker(w), u>>
      BY <3>1 DEF Needed
    <3>3. u \in Int /\ tick[w].now \in Int /\ clock \in Int /\ tick[w].now <= clock
      BY DEF BarsOf, FillInv, ClockOK
    <3> QED
      BY <3>2, <3>3 DEF VendorBars
  <2> QED
    <3> DEFINE got == VendorBars(Ticker(w), tick[w].days)
    <3>1. tick' = [tick EXCEPT ![w] = [tick[w] EXCEPT !.pc = "write", !.got = got]]
      BY <1>2 DEF Become
    <3>2. \A key \in Claimed(w) :
            /\ "write" = "write" => \A b \in Needed(key, tick[w].now) : b \in got
            /\ "write" = "done" => Needed(key, tick[w].now) \subseteq bars' \cup purged'
      BY <2>1
    <3>3. bars \cup purged \subseteq bars' \cup purged'
      BY <1>1
    <3> HIDE DEF got
    <3> QED
      BY <1>1, <3>1, <3>2, <3>3, WorkStep
<1>3. CASE Become(w, [tick[w] EXCEPT !.pc = "failed"])
  <2>1. [tick[w] EXCEPT !.pc = "failed"] = [tick[w] EXCEPT !.pc = "failed", !.got = tick[w].got]
    BY <1>1 DEF IsTick
  <2> QED
    <3>1. tick' = [tick EXCEPT ![w] = [tick[w] EXCEPT !.pc = "failed", !.got = tick[w].got]]
      BY <1>3, <2>1 DEF Become
    <3>2. \A key \in Claimed(w) :
            /\ "failed" = "write" => \A b \in Needed(key, tick[w].now) : b \in tick[w].got
            /\ "failed" = "done" => Needed(key, tick[w].now) \subseteq bars' \cup purged'
      OBVIOUS
    <3>3. bars \cup purged \subseteq bars' \cup purged'
      BY <1>1
    <3> QED
      BY <1>1, <3>1, <3>2, <3>3, WorkStep
<1> QED
  BY <1>2, <1>3 DEF Fetch

LEMMA WriteStep ==
  ASSUME FillInv, NEW w \in Invocations, Write(w)
  PROVE  FillInv'
<1>1. /\ Holds(w) = Claimed(w) /\ At(w, "write")
      /\ UNCHANGED <<clock, rows, purged, shared>>
      /\ tick' = [tick EXCEPT ![w] = [tick[w] EXCEPT !.pc = "done", !.got = {}]]
  BY DEF Write, At, Holds, Become
<1>2. ASSUME NEW key \in Claimed(w)
      PROVE  Needed(key, tick[w].now) \subseteq bars'
  <2> SUFFICES ASSUME NEW b \in Needed(key, tick[w].now)
               PROVE  b \in bars'
    OBVIOUS
  <2>1. b \in tick[w].got
    BY <1>1 DEF FillInv, HolderHasBars
  <2>2. b[2] \notin Refused
    BY DEF Needed
  <2> QED
    BY <2>1, <2>2 DEF Write
<1>3. bars \subseteq bars'
  BY DEF Write
<1> QED
  BY <1>1, <1>2, <1>3, WorkStep

\* The mark: the row of a day that one tick holds alone is still the row of its claim.
LEMMA MarkStep ==
  ASSUME FillInv, NEW w \in Invocations, Mark(w)
  PROVE  FillInv'
<1>1. PICK day \in tick[w].days :
        /\ rows' = [rows EXCEPT ![<<Ticker(w), day>>] = IF At(w, "done") THEN DoneRow(@) ELSE FailedRow(@)]
        /\ Become(w, IF tick[w].days = {day} THEN NextTicker(tick[w]) ELSE [tick[w] EXCEPT !.days = @ \ {day}])
  BY DEF Mark
<1> DEFINE marked == <<Ticker(w), day>>
           i == tick'[w]
<1>2. UNCHANGED <<clock, bars, shared, purged>> /\ tick[w].pc \in {"done", "failed"}
  BY DEF Mark
<1>3. /\ \A v \in Invocations \ {w} : tick'[v] = tick[v]
      /\ DOMAIN tick' = Invocations
      /\ i = IF tick[w].days = {day} THEN NextTicker(tick[w]) ELSE [tick[w] EXCEPT !.days = @ \ {day}]
      /\ IsTick(tick[w]) /\ tick[w].now \in Int /\ tick[w].now <= clock /\ clock \in Int
  BY <1>1 DEF Become, FillInv, ClockOK
<1>4. /\ IsTick(i) /\ i.now \in Int /\ i.now <= clock
      /\ i.pc \in {"done", "failed"} =>
           /\ i.pc = tick[w].pc /\ i.now = tick[w].now
           /\ i.todo = tick[w].todo /\ i.days = tick[w].days \ {day}
      /\ i.pc \in {"done", "failed", "idle", "select"}
  <2>1. CASE tick[w].days = {day} /\ Len(tick[w].todo) = 1
    BY <2>1, <1>3 DEF NextTicker, Resting, IsTick, FillInv, ClockOK
  <2>2. CASE tick[w].days = {day} /\ Len(tick[w].todo) # 1
    <3>1. i = [pc |-> "select", now |-> tick[w].now, seed |-> tick[w].seed, todo |-> Tail(tick[w].todo),
               days |-> {}, got |-> {}]
      BY <2>2, <1>3 DEF NextTicker, IsTick
    <3> HIDE DEF i
    <3> QED
      BY <3>1, <1>3 DEF IsTick
  <2>3. CASE tick[w].days # {day}
    <3>1. i = [pc |-> tick[w].pc, now |-> tick[w].now, seed |-> tick[w].seed, todo |-> tick[w].todo,
               days |-> tick[w].days \ {day}, got |-> tick[w].got]
      BY <2>3, <1>3 DEF IsTick
    <3> HIDE DEF i
    <3> QED
      BY <3>1, <1>2, <1>3 DEF IsTick
  <2> QED
    BY <2>1, <2>2, <2>3
<1>5. /\ \A v \in Invocations \ {w} : Holds(v)' = Holds(v) /\ Claimed(v)' = Claimed(v)
      /\ Holds(w) = Claimed(w) /\ marked \in Claimed(w)
      /\ Holds(w)' \subseteq Holds(w) \ {marked}
  <2>1. Holds(w) = Claimed(w) /\ marked \in Claimed(w)
    BY <1>2 DEF Holds, Claimed
  <2>2. \A v \in Invocations \ {w} : Holds(v)' = Holds(v) /\ Claimed(v)' = Claimed(v)
    BY <1>3 DEF Holds, Claimed, Ticker
  <2>3. CASE i.pc \in {"done", "failed"}
    <3>1. Holds(w)' = {<<Ticker(w), d>> : d \in tick[w].days \ {day}}
      BY <2>3, <1>4 DEF Holds, Claimed, Ticker
    <3> QED
      BY <3>1, <2>1, <2>2 DEF Claimed
  <2>4. CASE i.pc \notin {"done", "failed"}
    <3>1. Holds(w)' = {}
      BY <2>4, <1>4 DEF Holds
    <3> QED
      BY <3>1, <2>1, <2>2
  <2> QED
    BY <2>3, <2>4
<1>6. \A key \in DOMAIN rows \ {marked} : rows'[key] = rows[key]
  BY <1>1 DEF FillInv, ClockOK
<1>7. ClockOK'
  <2>1. marked \in DOMAIN rows => (IF At(w, "done") THEN DoneRow(rows[marked]) ELSE FailedRow(rows[marked])) \in Row
    BY <1>3 DEF FillInv, ClockOK, DoneRow, FailedRow, Row
  <2>2. rows' \in [Tickers \X Days -> Row]
    BY <2>1, <1>1 DEF FillInv, ClockOK
  <2> QED
    BY <2>2, <1>2, <1>3, <1>4 DEF FillInv, ClockOK
<1>8. HoldersShare'
  BY <1>2, <1>5 DEF FillInv, HoldersShare
<1>9. ClaimStands'
  <2> SUFFICES ASSUME NEW v \in Invocations, NEW key \in Holds(v)' \ shared', key \in DOMAIN rows'
               PROVE  rows'[key] = [status |-> "in_progress", last |-> tick'[v].now]
    BY DEF ClaimStands
  <2>1. key \in Holds(v) \ shared /\ key \in DOMAIN rows /\ tick'[v].now = tick[v].now
    BY <1>2, <1>3, <1>4, <1>5, <1>7 DEF Holds, FillInv, ClockOK
  <2>2. key # marked
    BY <2>1, <1>5 DEF FillInv, HoldersShare
  <2> QED
    BY <2>1, <2>2, <1>6 DEF FillInv, ClaimStands
<1>10. HolderHasBars'
  <2> SUFFICES ASSUME NEW v \in Invocations, NEW key \in Claimed(v)'
               PROVE  /\ At(v, "write")' => \A b \in Needed(key, tick'[v].now) : b \in tick'[v].got
                      /\ At(v, "done")' => Needed(key, tick'[v].now) \subseteq bars' \cup purged'
    BY DEF HolderHasBars, Needed
  <2>1. CASE v = w
    <3>1. ~At(w, "write")'
      BY <1>4 DEF At
    <3>2. ASSUME At(w, "done")'
          PROVE  Needed(key, tick'[w].now) \subseteq bars' \cup purged'
      <4>1. key \in Claimed(w) /\ At(w, "done") /\ tick'[w].now = tick[w].now
        BY <2>1, <3>2, <1>4, <1>5 DEF At, Holds
      <4> QED
        BY <4>1, <1>2 DEF FillInv, HolderHasBars
    <3> QED
      BY <2>1, <3>1, <3>2
  <2>2. CASE v # w
    BY <2>2, <1>2, <1>3, <1>5 DEF FillInv, HolderHasBars, At
  <2> QED
    BY <2>1, <2>2
<1>11. FinalIsWhole'
  <2> SUFFICES ASSUME NEW key \in DOMAIN rows' \ shared', IsFinal(key)'
               PROVE  IsWhole(key)'
    BY DEF FinalIsWhole
  <2>1. key \in DOMAIN rows \ shared /\ (IsWhole(key) => IsWhole(key)')
    BY <1>2, <1>7 DEF FillInv, ClockOK, IsWhole
  <2>2. CASE key # marked
    BY <2>1, <2>2, <1>6 DEF FillInv, FinalIsWhole, IsFinal
  <2>3. CASE key = marked
    <3>1. rows[key] = [status |-> "in_progress", last |-> tick[w].now]
      BY <2>1, <2>3, <1>5 DEF FillInv, ClaimStands
    <3>2. rows'[key] = IF At(w, "done") THEN DoneRow(rows[key]) ELSE FailedRow(rows[key])
      BY <2>1, <2>3, <1>1 DEF FillInv, ClockOK
    <3>3. At(w, "done") /\ rows'[key].last = tick[w].now
      BY <3>1, <3>2 DEF IsFinal, DoneRow, FailedRow
    <3>4. Needed(key, tick[w].now) \subseteq bars \cup purged
      BY <2>3, <3>3, <1>5 DEF FillInv, HolderHasBars
    <3>5. tick[w].now >= EndOf(key[2]) /\ key[2] \in Days
      BY <2>1, <3>3 DEF IsFinal, FillInv, ClockOK
    <3> QED
      BY <3>4, <3>5, <1>3, <2>1, BarsEnd
  <2> QED
    BY <2>2, <2>3
<1> QED
  BY <1>7, <1>8, <1>9, <1>10, <1>11 DEF FillInv


-----------------------------------------------------------------------------
(* The invariant.                                                           *)

LEMMA StoreStep ==
  ASSUME FillInv, clock' \in Nat, clock <= clock', bars \cup purged \subseteq bars' \cup purged',
         UNCHANGED <<rows, tick, shared>>
  PROVE  FillInv'
<1>1. ClockOK'
  BY DEF FillInv, ClockOK
<1>2. HoldersShare' /\ ClaimStands'
  BY DEF FillInv, HoldersShare, ClaimStands, Holds, Claimed, Ticker
<1>3. HolderHasBars'
  BY DEF FillInv, HolderHasBars, At, Needed, Claimed, Ticker
<1>4. FinalIsWhole'
  BY DEF FillInv, FinalIsWhole, IsFinal, IsWhole
<1> QED
  BY <1>1, <1>2, <1>3, <1>4 DEF FillInv

LEMMA TickStep ==
  ASSUME FillInv, NEW w \in Invocations, Tick(w)
  PROVE  FillInv'
<1>1. ClockOK /\ clock \in Nat /\ IsTick(tick[w]) /\ tick[w].now \in Int /\ tick[w].now <= clock
  BY DEF FillInv, ClockOK
<1>2. CASE Start(w)
  <2> DEFINE seed == FlattenSeq([i \in 1 .. Len(Watchlist) |-> NewWindow(Watchlist[i], DayOf(clock))])
             i == [pc |-> "seed", now |-> clock, seed |-> seed, todo |-> Watchlist, days |-> {}, got |-> {}]
  <2>1. tick' = [tick EXCEPT ![w] = i]
    BY <1>2 DEF Start, Become
  <2>2. UNCHANGED <<clock, bars, shared, purged>> /\ rows' = rows
    BY <1>2 DEF Start
  <2> HIDE DEF seed
  <2>3. IsTick(i) /\ i.now \in Int /\ i.now <= clock /\ i.pc \notin {"fetch", "write", "done", "failed"}
    BY <1>1 DEF IsTick
  <2> QED
    BY <1>1, <2>1, <2>2, <2>3, FreeStep DEF ClockOK
<1>3. ASSUME NEW keys
      PROVE  /\ Seeded(keys) \in [Tickers \X Days -> Row]
             /\ \A key \in DOMAIN rows : \/ Seeded(keys)[key] = rows[key]
                                         \/ /\ Seeded(keys)[key].status # "done"
                                            /\ rows[key].status # "in_progress"
  <2>1. Pending \in Row /\ Pending.status = "pending" /\ NoRow.status = "none"
    BY DEF Pending, Row, NoRow
  <2> QED
    BY <1>1, <2>1 DEF Seeded, ClockOK
<1>4. CASE Seed(w)
  <2>1. PICK n : /\ rows' = Seeded(ToSet(SubSeq(tick[w].seed, 1, n)))
                 /\ Become(w, [tick[w] EXCEPT !.seed = SubSeq(@, n + 1, Len(@))])
    BY <1>4 DEF Seed
  <2> DEFINE rest == SubSeq(tick[w].seed, n + 1, Len(tick[w].seed))
             i == [tick[w] EXCEPT !.seed = rest]
  <2>2. tick' = [tick EXCEPT ![w] = i]
    BY <2>1 DEF Become
  <2>3. UNCHANGED <<clock, bars, shared, purged>> /\ tick[w].pc = "seed"
    BY <1>4 DEF Seed, At
  <2> HIDE DEF rest
  <2>4. IsTick(i) /\ i.now = tick[w].now /\ i.pc = "seed"
    BY <1>1, <2>3 DEF IsTick
  <2> HIDE DEF i
  <2>5. i.pc \notin {"fetch", "write", "done", "failed"}
    BY <2>4
  <2> QED
    BY <1>1, <1>3, <2>1, <2>2, <2>3, <2>4, <2>5, FreeStep
<1>5. CASE EnsureToday(w)
  <2> DEFINE i == [tick[w] EXCEPT !.pc = "reopen"]
  <2>1. PICK keys : rows' = Seeded(keys)
    BY <1>5 DEF EnsureToday
  <2>2. tick' = [tick EXCEPT ![w] = i] /\ UNCHANGED <<clock, bars, shared, purged>>
    BY <1>5 DEF EnsureToday, Become
  <2>3. IsTick(i) /\ i.now = tick[w].now /\ i.pc = "reopen"
    BY <1>1 DEF IsTick
  <2> HIDE DEF i
  <2>4. i.pc \notin {"fetch", "write", "done", "failed"}
    BY <2>3
  <2> QED
    BY <1>1, <1>3, <2>1, <2>2, <2>3, <2>4, FreeStep
<1>6. CASE Reopen(w)
  <2> DEFINE i == [tick[w] EXCEPT !.pc = "select"]
             open(key) == IF IsIncomplete(key, tick[w].now) THEN [rows[key] EXCEPT !.status = "pending"] ELSE rows[key]
  <2>1. rows' = [key \in DOMAIN rows |-> open(key)]
    BY <1>6 DEF Reopen
  <2>2. tick' = [tick EXCEPT ![w] = i] /\ UNCHANGED <<clock, bars, shared, purged>>
    BY <1>6 DEF Reopen, Become
  <2>3. IsTick(i) /\ i.now = tick[w].now /\ i.pc = "select"
    BY <1>1 DEF IsTick
  <2> HIDE DEF i
  <2>4. \A key \in DOMAIN rows :
          /\ open(key) \in Row
          /\ open(key) = rows[key] \/ (open(key).status # "done" /\ rows[key].status # "in_progress")
    BY <1>1 DEF ClockOK, Row, IsIncomplete
  <2>5. i.pc \notin {"fetch", "write", "done", "failed"}
    BY <2>3
  <2>6. rows' \in [Tickers \X Days -> Row]
    BY <2>1, <2>4, <1>1 DEF ClockOK
  <2>7. \A key \in DOMAIN rows :
          rows'[key] = rows[key] \/ (rows'[key].status # "done" /\ rows[key].status # "in_progress")
    BY <2>1, <2>4
  <2> QED
    BY <1>1, <2>2, <2>3, <2>5, <2>6, <2>7, FreeStep
<1>7. CASE Select(w)
  <2> DEFINE days == Oldest(Ticker(w), tick[w].now)
             i == IF days = {} THEN NextTicker(tick[w]) ELSE [tick[w] EXCEPT !.pc = "claim", !.days = days]
  <2>1. tick' = [tick EXCEPT ![w] = i] /\ rows' = rows /\ UNCHANGED <<clock, bars, shared, purged>>
    BY <1>7 DEF Select, Become
  <2> HIDE DEF days
  <2>2. IsTick(i) /\ i.now \in Int /\ i.now <= clock /\ i.pc \in {"idle", "select", "claim"}
    <3>1. CASE days = {} /\ Len(tick[w].todo) = 1
      BY <1>1, <3>1 DEF NextTicker, Resting, IsTick
    <3>2. CASE days = {} /\ Len(tick[w].todo) # 1
      <4>1. i = [pc |-> "select", now |-> tick[w].now, seed |-> tick[w].seed, todo |-> Tail(tick[w].todo),
                 days |-> {}, got |-> {}]
        BY <1>1, <3>2 DEF NextTicker, IsTick
      <4> HIDE DEF i
      <4> QED
        BY <4>1, <1>1 DEF IsTick
    <3>3. CASE days # {}
      <4>1. i = [pc |-> "claim", now |-> tick[w].now, seed |-> tick[w].seed, todo |-> tick[w].todo,
                 days |-> days, got |-> tick[w].got]
        BY <1>1, <3>3 DEF IsTick
      <4> HIDE DEF i
      <4> QED
        BY <4>1, <1>1 DEF IsTick
    <3> QED
      BY <3>1, <3>2, <3>3
  <2> HIDE DEF i
  <2>3. i.pc \notin {"fetch", "write", "done", "failed"}
    BY <2>2
  <2> QED
    BY <1>1, <2>1, <2>2, <2>3, FreeStep DEF ClockOK
<1> QED
  BY <1>2, <1>4, <1>5, <1>6, <1>7, ClaimStep, FetchStep, WriteStep, MarkStep DEF Tick


LEMMA Invariance == Spec => []FillInv
<1>1. Init => FillInv
  <2> SUFFICES ASSUME Init PROVE FillInv
    OBVIOUS
  <2>1. /\ clock = StartTime /\ StartTime \in Nat
        /\ rows = [k \in Tickers \X Days |-> NoRow] /\ NoRow \in Row /\ NoRow.status = "none"
        /\ tick = [w \in Invocations |-> Resting] /\ IsTick(Resting) /\ Resting.now = 0 /\ Resting.pc = "idle"
    BY IntradayAssumption DEF Init, NoRow, Row, Resting, IsTick
  <2>2. ClockOK
    BY <2>1 DEF ClockOK
  <2>3. \A w \in Invocations : Holds(w) = {} /\ ~At(w, "write") /\ ~At(w, "done")
    BY <2>1 DEF Holds, At
  <2>4. FinalIsWhole
    BY <2>1 DEF FinalIsWhole, IsFinal
  <2> QED
    BY <2>2, <2>3, <2>4 DEF FillInv, HoldersShare, ClaimStands, HolderHasBars
<1>2. FillInv /\ [Next]_vars => FillInv'
  <2> SUFFICES ASSUME FillInv, [Next]_vars PROVE FillInv'
    OBVIOUS
  <2>0. clock \in Nat
    BY DEF FillInv, ClockOK
  <2>1. CASE Pass
    BY <2>0, <2>1, StoreStep DEF Pass
  <2>2. CASE Purge
    <3>1. UNCHANGED <<clock, rows, tick, shared>>
      BY <2>2 DEF Purge, StartPurge, RunMoves, LookForPaused, DeleteBars
    <3>2. bars \cup purged \subseteq bars' \cup purged'
      BY <2>2 DEF Purge, StartPurge, RunMoves, LookForPaused, DeleteBars
    <3> QED
      BY <2>0, <3>1, <3>2, StoreStep
  <2>3. ASSUME NEW w \in Invocations, Tick(w)
        PROVE  FillInv'
    BY <2>3, TickStep
  <2>4. ASSUME NEW w \in Invocations, Abort(w)
        PROVE  FillInv'
    <3>1. tick' = [tick EXCEPT ![w] = Resting] /\ rows' = rows /\ UNCHANGED <<clock, bars, shared, purged>>
      BY <2>4 DEF Abort, Become
    <3>2. IsTick(Resting) /\ Resting.now = 0 /\ Resting.pc \notin {"fetch", "write", "done", "failed"}
      BY DEF Resting, IsTick
    <3>3. rows \in [Tickers \X Days -> Row]
      BY DEF FillInv, ClockOK
    <3> QED
      <4>1. Resting.now \in Int /\ Resting.now <= clock
        BY <2>0, <3>2
      <4> QED
        BY <3>1, <3>2, <3>3, <4>1, FreeStep
  <2>5. CASE UNCHANGED vars
    BY <2>0, <2>5, StoreStep DEF vars
  <2> QED
    BY <2>1, <2>2, <2>3, <2>4, <2>5 DEF Next
<1> QED
  BY <1>1, <1>2, PTL DEF Spec

\* A day that is complete in the books has all its bars, stored now or deleted by age,
\* whatever was fetched early, failed or died on the way (markBackfillDone, reopenIncompleteDays).
THEOREM FinalIsWholeHolds == Spec => []FinalIsWhole
<1>1. FillInv => FinalIsWhole
  BY DEF FillInv
<1> QED
  BY <1>1, Invariance, PTL

-----------------------------------------------------------------------------
(* The purge.                                                               *)

\* What the two looks at the registry established: no run was active at the first, and none
\* paused at the second, unless a run has moved since.
LooksStand ==
  /\ purge.pc = "paused?" => purge.moved \/ purge.run # "running"
  /\ purge.pc = "delete" => purge.moved \/ purge.run \notin {"running", "paused"}

\* The purge deletes nothing while a backtest that was there when it began is at work or
\* paused (purgeOldIntradayBars and its two gates).
THEOREM PurgeSparesRunsHolds == Spec => PurgeSparesRuns
<1>1. Init => LooksStand
  BY DEF Init, NoPurge, LooksStand
<1>2. LooksStand /\ [Next]_vars => LooksStand'
  <2> SUFFICES ASSUME LooksStand, [Next]_vars PROVE LooksStand'
    OBVIOUS
  <2>1. CASE StartPurge
    <3>1. PICK run \in Runs :
            purge' = [NoPurge EXCEPT !.pc = IF run = "running" THEN "idle" ELSE "paused?", !.cutoff = clock - Retention,
                        !.run = IF run = "running" THEN "quiet" ELSE run, !.last = clock]
      BY <2>1 DEF StartPurge
    <3> QED
      BY <3>1 DEF LooksStand, NoPurge
  <2>2. CASE RunMoves
    <3>1. PICK run : purge' = [purge EXCEPT !.run = run, !.moved = TRUE]
      BY <2>2 DEF RunMoves
    <3> QED
      BY <3>1 DEF LooksStand
  <2>3. CASE LookForPaused
    BY <2>3 DEF LookForPaused, MayDelete, LooksStand, NoPurge
  <2>4. CASE DeleteBars
    BY <2>4 DEF DeleteBars, LooksStand, NoPurge
  <2>5. CASE UNCHANGED purge
    BY <2>5 DEF LooksStand
  <2>6. \/ StartPurge \/ RunMoves \/ LookForPaused \/ DeleteBars \/ UNCHANGED purge
    BY DEF Next, Purge, Pass, Tick, Start, Seed, EnsureToday, Reopen, Select, Claim, Fetch, Write, Mark, Abort, vars
  <2> QED
    BY <2>1, <2>2, <2>3, <2>4, <2>5, <2>6
<1>3. LooksStand /\ [Next]_vars =>
        [purged' # purged => purge.moved \/ purge.run \notin {"running", "paused"}]_vars
  <2> SUFFICES ASSUME LooksStand, Next, purged' # purged
               PROVE  purge.moved \/ purge.run \notin {"running", "paused"}
    OBVIOUS
  <2>1. DeleteBars
    BY DEF Next, Purge, Pass, StartPurge, RunMoves, LookForPaused, Tick, Start, Seed, EnsureToday, Reopen, Select,
           Claim, Fetch, Write, Mark, Abort
  <2> QED
    BY <2>1 DEF DeleteBars, LooksStand
<1> QED
  BY <1>1, <1>2, <1>3, PTL DEF Spec, PurgeSparesRuns
=============================================================================

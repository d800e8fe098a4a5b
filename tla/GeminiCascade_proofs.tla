------------------------ MODULE GeminiCascade_proofs ------------------------
(***************************************************************************)
(* For any models, keys, lanes and delays, whatever the order in which the *)
(* calls read and write the map as a whole: a race may lose a cooldown,    *)
(* but what a reader finds was put, with that end; an only writer loses    *)
(* none; a cascade that ends has met every pair, from wherever it began;   *)
(* and a backtest is parked for the day only when the day's quota is gone. *)
(*                                                                         *)
(* CascadeInv is the invariant: the attempts behind a call are Covered,    *)
(* each pair it calls used up for the day is (SpentFor), and each daily    *)
(* cooldown it hints at was put or is about to be (HintOK).                *)
(***************************************************************************)
EXTENDS GeminiCascade, SequenceTheorems, FiniteSetTheorems, WellFoundedInduction, TLAPS

-----------------------------------------------------------------------------
(* Numbers.                                                                 *)

LEMMA TimesIsMonotone ==
  ASSUME NEW a \in Nat, NEW b \in Nat, NEW c \in Nat, a <= b
  PROVE  a * c <= b * c
<1>1. PICK d \in Nat : b = a + d
  <2> WITNESS b - a \in Nat
  <2> QED
    OBVIOUS
<1>2. b * c = a * c + d * c /\ d * c \in Nat
  BY <1>1
<1> QED
  BY <1>2

LEMMA DivMod ==
  ASSUME NEW a \in Nat, NEW n \in Nat \ {0}
  PROVE  a \div n \in Nat /\ a % n \in 0 .. n - 1 /\ a = (a \div n) * n + (a % n)
  OBVIOUS

LEMMA DivUnique ==
  ASSUME NEW n \in Nat \ {0}, NEW q \in Nat, NEW r \in 0 .. n - 1
  PROVE  (q * n + r) \div n = q /\ (q * n + r) % n = r
<1> DEFINE a == q * n + r
<1>1. a \in Nat
  OBVIOUS
<1> HIDE DEF a
<1>2. PICK d \in Nat, e \in 0 .. n - 1 : d = a \div n /\ e = a % n /\ a = d * n + e
  BY <1>1, DivMod
<1>3. d * n + e = q * n + r
  BY <1>2 DEF a
<1>4. CASE d >= q + 1
  <2>1. d * n >= (q + 1) * n
    BY <1>4, TimesIsMonotone
  <2>2. (q + 1) * n = q * n + n /\ q * n \in Nat /\ d * n \in Nat
    OBVIOUS
  <2> QED
    BY <2>1, <2>2, <1>3
<1>5. CASE q >= d + 1
  <2>1. q * n >= (d + 1) * n
    BY <1>5, TimesIsMonotone
  <2>2. (d + 1) * n = d * n + n /\ q * n \in Nat /\ d * n \in Nat
    OBVIOUS
  <2> QED
    BY <2>1, <2>2, <1>3
<1>6. CASE d = q
  <2>1. d * n = q * n /\ q * n \in Nat
    BY <1>6
  <2>2. e = r
    BY <1>3, <2>1
  <2> QED
    BY <1>2, <1>6, <2>2 DEF a
<1> QED
  BY <1>2, <1>4, <1>5, <1>6

LEMMA LeastNatural ==
  ASSUME NEW T, T \subseteq Nat, T # {}
  PROVE  Min(T) \in T /\ \A y \in T : Min(T) <= y
<1> DEFINE less == {ss \in Nat \X Nat : ss[1] < ss[2]}
<1>1. IsWellFoundedOn(less, Nat)
  BY NatLessThanWellFounded DEF OpToRel
<1>2. \E x \in T : \A y \in T : ~ (<<y, x>> \in less)
  <2> HIDE DEF less
  <2> QED
    BY <1>1, WFMin
<1>3. PICK x \in T : \A y \in T : ~ (<<y, x>> \in less)
  BY <1>2
<1>4. ASSUME NEW y \in T, y < x PROVE FALSE
  <2>1. <<y, x>> \in less
    BY <1>4
  <2> QED
    BY <2>1, <1>3
<1>5. \E z \in T : \A y \in T : z <= y
  BY <1>4
<1> QED
  BY <1>5 DEF Min

\* By the least subset that would have none.
LEMMA GreatestOfFinite ==
  ASSUME NEW S, IsFiniteSet(S), S \subseteq Int, S # {}
  PROVE  Max(S) \in S /\ \A y \in S : Max(S) >= y
<1> DEFINE has(T) == T = {} \/ \E x \in T : \A y \in T : x >= y
           bad == {T \in SUBSET S : ~has(T)}
           smaller == StrictSubsetOrdering(S)
<1>1. ASSUME bad # {} PROVE FALSE
  <2>1. PICK T \in bad : \A U \in bad : ~ (<<U, T>> \in smaller)
    <3>1. IsWellFoundedOn(smaller, SUBSET S) /\ bad \subseteq SUBSET S
      BY FS_StrictSubsetOrderingWellFounded, FS_FiniteSubsetsOfFinite
    <3> HIDE DEF smaller, bad
    <3> QED
      BY <1>1, <3>1, WFMin
  <2>2. PICK t \in T : TRUE
    OBVIOUS
  <2>3. <<T \ {t}, T>> \in smaller
    BY <2>2 DEF StrictSubsetOrdering
  <2>4. has(T \ {t})
    BY <2>1, <2>3
  <2> QED
    BY <2>2, <2>4
<1>2. \E x \in S : \A y \in S : x >= y
  BY <1>1
<1> QED
  BY <1>2 DEF Max

LEMMA GreaterOfTwo ==
  ASSUME NEW a \in Int, NEW b \in Int
  PROVE  Max({a, b}) \in {a, b} /\ Max({a, b}) >= a /\ Max({a, b}) >= b
<1>1. \E x \in {a, b} : \A y \in {a, b} : x >= y
  <2>1. CASE a >= b
    BY <2>1
  <2>2. CASE b >= a
    BY <2>2
  <2> QED
    BY <2>1, <2>2
<1> QED
  BY <1>1 DEF Max

-----------------------------------------------------------------------------
(* The map.                                                                 *)

IsHistory(puts) == puts \in Seq(ToSet(puts))

\* What is in a map, alive or not, is no entry or one that was put.
WasPut(entries, puts) ==
  DOMAIN entries = Names /\ \A n \in Names : entries[n] = NoEntry \/ entries[n] \in ToSet(puts[n])

MapInv ==
  /\ DOMAIN recorded = Names /\ \A n \in Names : IsHistory(recorded[n])
  /\ WasPut(stored.entries, recorded)
  /\ DOMAIN cache = Lanes /\ \A l \in Lanes : WasPut(cache[l].entries, recorded)

LEMMA FirstLane == \A l \in Lanes : InvocationOf(l) \in Lanes
  BY CascadeAssumption DEF InvocationOf

LEMMA HistoryGrows ==
  ASSUME NEW puts, IsHistory(puts), NEW entry
  PROVE  IsHistory(Append(puts, entry)) /\ ToSet(Append(puts, entry)) = ToSet(puts) \cup {entry}
<1> DEFINE all == ToSet(puts) \cup {entry}
<1>1. puts \in Seq(all) /\ entry \in all
  <2>1. Len(puts) \in Nat /\ puts \in [1 .. Len(puts) -> ToSet(puts)]
    BY DEF IsHistory
  <2> QED
    BY <2>1 DEF IsHistory
<1>2. Append(puts, entry) \in Seq(all)
  BY <1>1
<1> DEFINE longer == Append(puts, entry)
<1>3. /\ Len(puts) \in Nat /\ DOMAIN puts = 1 .. Len(puts) /\ DOMAIN longer = 1 .. Len(puts) + 1
      /\ \A i \in DOMAIN puts : longer[i] = puts[i]
      /\ longer[Len(puts) + 1] = entry
  BY <1>1
<1> HIDE DEF longer
<1>4. ToSet(longer) = all
  BY <1>3 DEF ToSet
<1> QED
  BY <1>2, <1>4 DEF IsHistory, longer

LEMMA LoadedWasPut ==
  ASSUME MapInv
  PROVE  WasPut(Loaded.entries, recorded)
<1>1. WasPut(NoEntries, recorded)
  BY DEF NoEntries, WasPut
<1>2. WasPut(Alive(stored.entries), recorded)
  BY DEF MapInv, Alive, WasPut
<1> QED
  BY <1>1, <1>2 DEF Loaded

\* Every read leaves an invocation with what it had, or with what is stored.
LEMMA ReadStep ==
  ASSUME MapInv, NEW l \in Lanes, NEW read \in Reads(l), AfterRead(l, read), UNCHANGED <<stored, recorded>>
  PROVE  MapInv'
<1>1. read.cache \in {cache[InvocationOf(l)], Loaded}
  BY DEF Reads
<1>2. WasPut(read.cache.entries, recorded)
  BY <1>1, FirstLane, LoadedWasPut DEF MapInv
<1>3. cache' = [cache EXCEPT ![InvocationOf(l)] = read.cache]
  BY DEF AfterRead
<1> QED
  BY <1>2, <1>3, FirstLane DEF MapInv

\* What a put enters was put, whether or not the map is stored.
LEMMA EnterKeepsMap ==
  ASSUME MapInv, NEW l \in Lanes, Enter(l), stored' \in {stored, Persisted(WithPut(l).entries)}
  PROVE  MapInv'
<1> DEFINE put == call[l].put
           entry == [daily |-> put.daily, exp |-> now + put.ttl]
           i == InvocationOf(l)
           base == IF cache[i].at >= 0 THEN cache[i] ELSE Loaded
           new == WithEntry(base.entries, put.name, entry)
<1>1. /\ cache' = [cache EXCEPT ![i] = [base EXCEPT !.entries = Alive(new)]]
      /\ stored' \in {stored, Persisted(new)}
      /\ recorded' = [recorded EXCEPT ![put.name] = Append(@, entry)]
  BY DEF Enter, WithPut
<1> HIDE DEF put
<1>2. WasPut(base.entries, recorded) /\ i \in Lanes
  BY FirstLane, LoadedWasPut DEF MapInv
<1> HIDE DEF base, i
<1>3. /\ DOMAIN recorded' = Names
      /\ \A n \in Names : IsHistory(recorded'[n]) /\ ToSet(recorded[n]) \subseteq ToSet(recorded'[n])
      /\ put.name \in Names => entry \in ToSet(recorded'[put.name])
  <2> HIDE DEF entry
  <2> QED
    BY <1>1, HistoryGrows DEF MapInv
<1> HIDE DEF entry
<1>4. WasPut(new, recorded')
  BY <1>2, <1>3 DEF WasPut, WithEntry
<1> HIDE DEF new
<1>5. WasPut(Alive(new), recorded')
  BY <1>4 DEF WasPut, Alive
<1>6. WasPut(stored'.entries, recorded')
  <2>1. CASE stored' = stored
    BY <1>3, <2>1 DEF MapInv, WasPut
  <2>2. CASE stored' = Persisted(new)
    BY <1>5, <2>2 DEF Persisted
  <2> QED
    BY <1>1, <2>1, <2>2
<1>7. \A k \in Lanes : WasPut(cache'[k].entries, recorded')
  BY <1>1, <1>2, <1>3, <1>5 DEF MapInv, WasPut
<1> QED
  BY <1>1, <1>3, <1>6, <1>7 DEF MapInv

LEMMA MapStep ==
  ASSUME MapInv, [Next]_vars
  PROVE  MapInv'
<1>1. CASE UNCHANGED <<stored, cache, recorded>>
  BY <1>1 DEF MapInv
<1>2. ASSUME NEW l \in Lanes, Begin(l)
      PROVE  MapInv'
  BY <1>1, <1>2, ReadStep DEF Begin
<1>3. ASSUME NEW l \in Lanes, Look(l)
      PROVE  MapInv'
  BY <1>1, <1>3, ReadStep DEF Look
<1>4. ASSUME NEW l \in Lanes, Reread(l)
      PROVE  MapInv'
  BY <1>4, FirstLane, LoadedWasPut DEF Reread, MapInv
<1>5. ASSUME NEW l \in Lanes, NewInvocation(l)
      PROVE  MapInv'
  <2>1. WasPut(NotLoaded.entries, recorded)
    BY DEF NotLoaded, NoEntries, WasPut
  <2> QED
    BY <2>1, <1>5, FirstLane DEF NewInvocation, MapInv
<1>6. ASSUME NEW l \in Lanes, Answer(l)
      PROVE  MapInv'
  BY <1>1, <1>6 DEF Answer
<1>7. ASSUME NEW l \in Lanes, Write(l)
      PROVE  MapInv'
  BY <1>7, EnterKeepsMap DEF Write
<1>8. ASSUME NEW l \in Lanes, PutFails(l)
      PROVE  MapInv'
  BY <1>1, <1>8, EnterKeepsMap DEF PutFails, RereadFails
<1> QED
  BY <1>1, <1>2, <1>3, <1>4, <1>5, <1>6, <1>7, <1>8 DEF Next, Tick, vars

\* Whoever races, no cooldown is made up or prolonged (cooldown_map_kv.js: a map read, changed
\* and written back as a whole, by Workers that do not wait for each other).
THEOREM NoInventedCooldownHolds == Spec => []NoInventedCooldown
<1>1. Init => MapInv
  BY DEF Init, MapInv, WasPut, NoEntries, NotLoaded, IsHistory, ToSet
<1>2. MapInv /\ [Next]_vars => MapInv'
  BY MapStep
<1>3. MapInv /\ now \in Nat => NoInventedCooldown
  BY DEF MapInv, WasPut, NoInventedCooldown, IsAlive, NoEntry
<1>4. Init => now \in Nat
  BY DEF Init
<1>5. now \in Nat /\ [Next]_vars => now' \in Nat
  <2>1. \A l \in Lanes : Begin(l) => now' = now
    BY DEF Begin
  <2>2. \A l \in Lanes : Look(l) => now' = now
    BY DEF Look
  <2>3. \A l \in Lanes : Answer(l) => now' = now
    BY DEF Answer
  <2>4. \A l \in Lanes : Reread(l) \/ Write(l) \/ PutFails(l) \/ NewInvocation(l) => now' = now
    BY DEF Reread, Write, PutFails, Enter, RereadFails, NewInvocation
  <2>5. now \in Nat /\ Tick => now' \in Nat
    BY DEF Tick
  <2> QED
    BY <2>1, <2>2, <2>3, <2>4, <2>5 DEF Next, vars
<1> DEFINE inv == MapInv /\ now \in Nat
<1>6. Init => inv
  BY <1>1, <1>4
<1>7. inv /\ [Next]_vars => inv'
  BY <1>2, <1>5
<1>8. inv => NoInventedCooldown
  BY <1>3
<1> HIDE DEF inv
<1> QED
  BY <1>6, <1>7, <1>8, PTL DEF Spec

-----------------------------------------------------------------------------
(* The attempts of a cascade.                                               *)

LEMMA Sizes ==
  /\ ModelCount \in Nat \ {0} /\ KeyCount \in Nat \ {0} /\ Total \in Nat /\ Total = KeyCount * ModelCount
  /\ DayLength \in Nat \ {0} /\ Buffer \in Nat
  BY CascadeAssumption DEF Total

LEMMA AttemptIsPair ==
  ASSUME NEW i \in 0 .. Total - 1, NEW c, c.start \in 0 .. KeyCount - 1
  PROVE  /\ ModelAt(i) \in Models /\ PairAt(c, i) \in Pairs /\ PairAt(c, i)[1] = ModelAt(i)
         /\ i < NextKeyAt(i) /\ NextKeyAt(i) \in 0 .. Total
<1>1. /\ i \div ModelCount \in Nat /\ i % ModelCount \in 0 .. ModelCount - 1
      /\ i = (i \div ModelCount) * ModelCount + (i % ModelCount)
  <2>1. i \in Nat
    OBVIOUS
  <2> QED
    BY <2>1, Sizes, DivMod
<1>2. (i \div ModelCount) + 1 <= KeyCount
  <2> SUFFICES ASSUME KeyCount <= i \div ModelCount PROVE FALSE
    BY <1>1, Sizes
  <2>1. KeyCount * ModelCount <= (i \div ModelCount) * ModelCount
    BY <1>1, Sizes, TimesIsMonotone
  <2>2. (i \div ModelCount) * ModelCount \in Nat
    BY <1>1, Sizes
  <2> QED
    BY <1>1, <2>1, <2>2, Sizes
<1>3. ((i \div ModelCount) + 1) * ModelCount <= KeyCount * ModelCount
  BY <1>1, <1>2, Sizes, TimesIsMonotone
<1>4. ((i \div ModelCount) + 1) * ModelCount = (i \div ModelCount) * ModelCount + ModelCount
  BY <1>1, Sizes
<1>5. (i \div ModelCount) * ModelCount \in Nat
  BY <1>1, Sizes
<1>6. (c.start + (i \div ModelCount)) % KeyCount \in 0 .. KeyCount - 1
  <2>1. c.start + (i \div ModelCount) \in Nat
    BY <1>1, Sizes
  <2> QED
    BY <2>1, Sizes, DivMod
<1> QED
  BY <1>1, <1>3, <1>4, <1>5, <1>6, Sizes DEF ModelAt, Models, PairAt, Pairs, NextKeyAt

\* From wherever the rotation begins, there is an attempt for every pair.
LEMMA PairIsAttempt ==
  ASSUME NEW p \in Pairs, NEW c, c.start \in 0 .. KeyCount - 1
  PROVE  \E i \in 0 .. Total - 1 : ModelAt(i) = p[1] /\ PairAt(c, i) = p
<1> DEFINE key == p[2]
           d == IF key >= c.start THEN key - c.start ELSE key - c.start + KeyCount
           r == p[1] - 1
           i == d * ModelCount + r
<1>1. key \in 0 .. KeyCount - 1 /\ p[1] \in 1 .. ModelCount /\ p = <<p[1], key>>
  BY DEF Pairs, Models
<1>2. d \in 0 .. KeyCount - 1 /\ r \in 0 .. ModelCount - 1
  BY <1>1, Sizes
<1>3. (c.start + d) % KeyCount = key
  <2>1. CASE key >= c.start
    <3>1. c.start + d = 0 * KeyCount + key
      BY <1>1, <2>1, Sizes
    <3>2. (0 * KeyCount + key) % KeyCount = key
      BY <1>1, Sizes, DivUnique
    <3> HIDE DEF key
    <3> QED
      BY <3>1, <3>2
  <2>2. CASE ~(key >= c.start)
    <3>1. c.start + d = 1 * KeyCount + key
      BY <1>1, <2>2, Sizes
    <3>2. (1 * KeyCount + key) % KeyCount = key
      BY <1>1, Sizes, DivUnique
    <3> HIDE DEF key
    <3> QED
      BY <3>1, <3>2
  <2> QED
    BY <2>1, <2>2
<1> HIDE DEF d, r, key
<1>4. i \div ModelCount = d /\ i % ModelCount = r
  BY <1>2, Sizes, DivUnique
<1>5. i \in 0 .. Total - 1
  <2>1. (d + 1) * ModelCount <= KeyCount * ModelCount
    BY <1>2, Sizes, TimesIsMonotone
  <2>2. (d + 1) * ModelCount = d * ModelCount + ModelCount /\ d * ModelCount \in Nat
    BY <1>2, Sizes
  <2> QED
    BY <1>2, <2>1, <2>2, Sizes
<1>6. ModelAt(i) = p[1] /\ PairAt(c, i) = p
  <2>1. r + 1 = p[1]
    BY <1>1 DEF r
  <2> HIDE DEF i
  <2> QED
    BY <1>1, <1>3, <1>4, <2>1 DEF ModelAt, PairAt
<1> QED
  BY <1>5, <1>6

\* The attempts up to the next key are all of one key.
LEMMA SameKey ==
  ASSUME NEW i \in 0 .. Total - 1, NEW j \in Nat, i <= j, j < NextKeyAt(i), NEW c
  PROVE  PairAt(c, j)[2] = PairAt(c, i)[2]
<1> DEFINE q == i \div ModelCount
           s == j - q * ModelCount
<1>1. q \in Nat /\ i % ModelCount \in 0 .. ModelCount - 1 /\ i = q * ModelCount + (i % ModelCount)
  <2>1. i \in Nat
    OBVIOUS
  <2> QED
    BY <2>1, Sizes, DivMod
<1>2. (q + 1) * ModelCount = q * ModelCount + ModelCount /\ q * ModelCount \in Nat /\ NextKeyAt(i) = (q + 1) * ModelCount
  BY <1>1, Sizes DEF NextKeyAt
<1> HIDE DEF q
<1>3. s \in 0 .. ModelCount - 1 /\ j = q * ModelCount + s
  BY <1>1, <1>2, Sizes
<1>4. j \div ModelCount = q
  <2> HIDE DEF s
  <2> QED
    BY <1>1, <1>3, Sizes, DivUnique
<1> QED
  BY <1>4 DEF PairAt, q

\* The next attempt of a model that is not passed over.
LEMMA PositionFacts ==
  ASSUME NEW c, c.at \in 0 .. Total
  PROVE  /\ Position(c) \in c.at .. Total
         /\ Position(c) = Total \/ ModelAt(Position(c)) \notin c.dead
         /\ \A i \in c.at .. Total : i < Position(c) => ModelAt(i) \in c.dead
<1> DEFINE open == {i \in c.at .. Total : i = Total \/ ModelAt(i) \notin c.dead}
<1>1. open \subseteq Nat /\ Total \in open
  BY Sizes
<1>2. Position(c) = Min(open)
  BY DEF Position
<1>3. Min(open) \in open /\ \A i \in open : Min(open) <= i
  <2> HIDE DEF open
  <2> QED
    BY <1>1, LeastNatural
<1>4. \A i \in c.at .. Total : i < Min(open) => i \notin open
  BY <1>1, <1>3
<1> QED
  BY <1>2, <1>3, <1>4

-----------------------------------------------------------------------------
(* Days.                                                                    *)

LEMMA DayFacts ==
  ASSUME NEW t \in Nat
  PROVE  /\ Day(t) \in Nat \ {0} /\ t < Day(t) * DayLength /\ Day(t) * DayLength \in Nat
         /\ (Day(t) - 1) * DayLength <= t /\ Day(t) <= Day(t + 1)
         /\ DailyCooldown(t) \in Nat \ {0} /\ t + DailyCooldown(t) = Day(t) * DayLength + Buffer
<1>1. ASSUME NEW u \in Nat
      PROVE  /\ Day(u) \in Nat \ {0} /\ u < Day(u) * DayLength /\ Day(u) * DayLength \in Nat
             /\ (Day(u) - 1) * DayLength <= u
  <2>1. /\ u \div DayLength \in Nat /\ u % DayLength \in 0 .. DayLength - 1
        /\ u = (u \div DayLength) * DayLength + (u % DayLength)
    BY Sizes, DivMod
  <2>2. /\ ((u \div DayLength) + 1) * DayLength = (u \div DayLength) * DayLength + DayLength
        /\ (u \div DayLength) * DayLength \in Nat
    BY <2>1, Sizes
  <2>3. Day(u) = (u \div DayLength) + 1 /\ Day(u) - 1 = u \div DayLength
    BY <2>1 DEF Day
  <2> QED
    BY <2>1, <2>2, <2>3, Sizes
<1>2. Day(t) <= Day(t + 1)
  <2>1. SUFFICES ASSUME Day(t + 1) <= Day(t) - 1 PROVE FALSE
    BY <1>1
  <2>2. Day(t + 1) * DayLength <= (Day(t) - 1) * DayLength
    <3>1. Day(t + 1) \in Nat /\ Day(t) - 1 \in Nat
      BY <1>1
    <3> QED
      BY <2>1, <3>1, Sizes, TimesIsMonotone
  <2>3. t + 1 < Day(t + 1) * DayLength /\ Day(t + 1) * DayLength \in Nat /\ (Day(t) - 1) * DayLength <= t
    BY <1>1
  <2>4. (Day(t) - 1) * DayLength \in Int
    BY <1>1, Sizes
  <2> QED
    BY <2>2, <2>3, <2>4
<1> QED
  BY <1>1, <1>2, Sizes DEF DailyCooldown

-----------------------------------------------------------------------------
(* The inductive invariant of a cascade.                                    *)

CallFields ==
  {"pc", "at", "start", "dead", "tried", "badKeys", "hints", "real", "sent", "began", "put", "result",
   "transient", "dailyQuota", "hint"}

\* An attempt that is behind: the model is retired, the key is refused, or the pair was met.
Covered(c, i) ==
  \/ ModelAt(i) \in c.dead
  \/ PairAt(c, i)[2] \in c.badKeys
  \/ \E a \in c.tried : a.pair = PairAt(c, i)

\* The pair's quota was used up on a day whose cooldown reaches t.
SpentFor(pair, t) == spentOn[pair] > 0 /\ t <= spentOn[pair] * DayLength + Buffer

PutOK(put) ==
  /\ put.name \in Names /\ put.ttl \in Nat \ {0} /\ put.daily \in BOOLEAN
  /\ put.daily => put.name \in Pairs /\ SpentFor(put.name, now + put.ttl)

\* A cooldown for the day that ends within h, put or about to be.
HintOK(c, h) ==
  \/ \E p \in Pairs : \E r \in ToSet(recorded[p]) : r.daily /\ r.exp <= now + h
  \/ c.pc \in {"put", "write"} /\ c.put.daily /\ c.put.ttl <= h

UnderWay(c) ==
  /\ c.at \in 0 .. Total /\ c.start \in 0 .. KeyCount - 1 /\ (c.pc = "sent" => c.at # Total)
  /\ \A i \in 0 .. c.at - 1 : Covered(c, i)
  /\ c.dead \subseteq Models /\ (c.pc \in {"look", "sent"} => c.dead # Models)
  /\ c.badKeys # {} => \E a \in c.tried : ~a.daily
  /\ c.began \in Nat /\ c.began <= now
  /\ c.hints \subseteq Nat
  /\ \A a \in c.tried : a.daily => a.pair \in Pairs /\ SpentFor(a.pair, c.began + 1)
  /\ c.pc \in {"put", "write"} => PutOK(c.put)
  /\ kvFailures = 0 /\ (\A a \in c.tried : a.daily) =>
       (c.tried # {} => c.hints # {}) /\ \A h \in c.hints : HintOK(c, h)

ExhaustedOK(c) ==
  c.result = "exhausted" =>
    /\ c.tried # {}
    /\ \A p \in Pairs : p[1] \notin c.dead /\ p[2] \notin c.badKeys => \E a \in c.tried : a.pair = p

ParkedOK(c) ==
  c.dailyQuota =>
    /\ c.began \in Nat /\ c.hint \in Nat
    /\ \A p \in Pairs : p[1] \notin c.dead => SpentFor(p, c.began + 1)
    /\ kvFailures > 0 \/ \E p \in Pairs : \E r \in ToSet(recorded[p]) : r.daily /\ r.exp <= now + c.hint

CallOK(c) ==
  /\ DOMAIN c = CallFields /\ c.pc \in {"look", "sent", "put", "write", "done"}
  /\ c.pc # "done" => UnderWay(c) /\ c.result = "none" /\ c.dailyQuota = FALSE
  /\ ExhaustedOK(c) /\ ParkedOK(c)

SpentInv ==
  /\ now \in Nat /\ kvFailures \in Nat
  /\ spentOn \in [Pairs -> Nat] /\ \A p \in Pairs : spentOn[p] <= Day(now)
  /\ nextKey \in [Lanes -> 0 .. KeyCount - 1]
  /\ \A n \in Names : \A r \in ToSet(recorded[n]) :
       /\ r.exp \in Nat /\ r.daily \in BOOLEAN
       /\ r.daily => n \in Pairs /\ SpentFor(n, r.exp)

CascadeInv == MapInv /\ SpentInv /\ DOMAIN call = Lanes /\ \A l \in Lanes : CallOK(call[l])

\* What a step does to what the other calls rely on.
Grows ==
  /\ now' \in {now, now + 1} /\ (now' # now => \A l \in Lanes : call[l].pc \in {"sent", "done"})
  /\ spentOn' \in [Pairs -> Nat] /\ \A p \in Pairs : spentOn[p] <= spentOn'[p]
  /\ \A n \in Names : ToSet(recorded[n]) \subseteq ToSet(recorded'[n])
  /\ kvFailures' \in Nat /\ kvFailures <= kvFailures'

LEMMA PairsAreNames == Pairs \subseteq Names /\ \A m \in Models : DeadName(m) \in Names
  BY Sizes DEF Pairs, Names, DeadName

LEMMA StillSpent ==
  ASSUME SpentInv, Grows, NEW p \in Pairs, NEW t \in Int, SpentFor(p, t)
  PROVE  SpentFor(p, t)'
<1>1. spentOn[p] \in Nat /\ spentOn'[p] \in Nat /\ spentOn[p] <= spentOn'[p]
  BY DEF SpentInv, Grows
<1>2. spentOn[p] * DayLength <= spentOn'[p] * DayLength
  BY <1>1, Sizes, TimesIsMonotone
<1>3. spentOn[p] * DayLength \in Nat /\ spentOn'[p] * DayLength \in Nat
  BY <1>1, Sizes
<1> QED
  BY <1>1, <1>2, <1>3, Sizes DEF SpentFor

LEMMA HintStays ==
  ASSUME SpentInv, Grows, NEW h \in Nat, NEW p \in Pairs, NEW r \in ToSet(recorded[p]), r.daily, r.exp <= now + h
  PROVE  r \in ToSet(recorded'[p]) /\ r.exp <= now' + h
  BY PairsAreNames DEF SpentInv, Grows

\* A call as it is after the step.
LEMMA Becomes ==
  ASSUME NEW l \in Lanes, NEW c, call'[l] = c, CallOK(c)'
  PROVE  CallOK(call[l])'
<1>1. ASSUME UnderWay(c)' PROVE UnderWay(call[l])'
  <2>1. call'[l].pc = c.pc /\ call'[l].put = c.put
    OBVIOUS
  <2>2. ASSUME NEW h, HintOK(c, h)' PROVE HintOK(call[l], h)'
    BY <2>1, <2>2 DEF HintOK
  <2>3. ASSUME PutOK(c.put)' PROVE PutOK(call[l].put)'
    BY <2>1, <2>3 DEF PutOK, SpentFor
  <2>4. \A i : Covered(c, i)' => Covered(call[l], i)'
    BY DEF Covered
  <2> QED
    BY <1>1, <2>2, <2>3, <2>4 DEF UnderWay
<1>2. ExhaustedOK(c)' => ExhaustedOK(call[l])'
  BY DEF ExhaustedOK
<1>3. ParkedOK(c)' => ParkedOK(call[l])'
  BY DEF ParkedOK
<1> QED
  BY <1>1, <1>2, <1>3 DEF CallOK

LEMMA StillUnderWay ==
  ASSUME SpentInv, Grows, NEW c, UnderWay(c), now' = now \/ c.pc = "sent"
  PROVE  UnderWay(c)'
<1>1. c.began \in Nat /\ c.began <= now' /\ now \in Nat /\ now' \in Nat
  BY DEF UnderWay, SpentInv, Grows
<1>2. ASSUME NEW a \in c.tried, a.daily PROVE a.pair \in Pairs /\ SpentFor(a.pair, c.began + 1)'
  <2>1. PICK t : t = c.began + 1
    OBVIOUS
  <2>2. a.pair \in Pairs /\ t \in Int /\ SpentFor(a.pair, t)
    BY <1>1, <1>2, <2>1 DEF UnderWay
  <2>3. SpentFor(a.pair, t)'
    BY <2>2, StillSpent
  <2> QED
    BY <2>1, <2>2, <2>3 DEF SpentFor
<1>3. ASSUME c.pc \in {"put", "write"} PROVE PutOK(c.put)'
  <2>1. PutOK(c.put) /\ now' = now
    BY <1>3 DEF UnderWay, Grows
  <2>2. ASSUME c.put.daily PROVE SpentFor(c.put.name, now + c.put.ttl)'
    <3>1. PICK t : t = now + c.put.ttl
      OBVIOUS
    <3>2. c.put.name \in Pairs /\ t \in Int /\ SpentFor(c.put.name, t)
      BY <1>1, <2>1, <2>2, <3>1 DEF PutOK
    <3>3. SpentFor(c.put.name, t)'
      BY <3>2, StillSpent
    <3> QED
      BY <2>1, <3>1, <3>3 DEF SpentFor
  <2> QED
    BY <2>1, <2>2 DEF PutOK
<1>4. ASSUME kvFailures' = 0, \A a \in c.tried : a.daily
      PROVE  (c.tried # {} => c.hints # {}) /\ \A h \in c.hints : HintOK(c, h)'
  <2>1. kvFailures = 0
    BY <1>4 DEF Grows, SpentInv
  <2>2. (c.tried # {} => c.hints # {}) /\ c.hints \subseteq Nat /\ \A h \in c.hints : HintOK(c, h)
    BY <1>4, <2>1 DEF UnderWay
  <2>3. ASSUME NEW h \in c.hints PROVE HintOK(c, h)'
    BY <2>2, HintStays DEF HintOK, Grows
  <2> QED
    BY <2>2, <2>3
<1> QED
  BY <1>1, <1>2, <1>3, <1>4 DEF UnderWay, Covered

\* A call that does not take part.
LEMMA OtherCall ==
  ASSUME CascadeInv, Grows, NEW l \in Lanes, call'[l] = call[l]
  PROVE  CallOK(call[l])'
<1>1. PICK c : c = call[l]
  OBVIOUS
<1>2. CallOK(c) /\ SpentInv /\ (now' = now \/ c.pc \in {"sent", "done"})
  BY <1>1 DEF CascadeInv, Grows
<1>3. c.pc # "done" => UnderWay(c)'
  BY <1>2, StillUnderWay DEF CallOK
<1>4. ParkedOK(c)'
  <2> SUFFICES ASSUME c.dailyQuota
               PROVE  /\ c.began \in Nat /\ c.hint \in Nat
                      /\ \A p \in Pairs : p[1] \notin c.dead => SpentFor(p, c.began + 1)'
                      /\ \/ kvFailures' > 0
                         \/ \E p \in Pairs : \E r \in ToSet(recorded'[p]) : r.daily /\ r.exp <= now' + c.hint
    BY DEF ParkedOK, SpentFor
  <2>1. ParkedOK(c)
    BY <1>2 DEF CallOK
  <2>2. ASSUME NEW p \in Pairs, p[1] \notin c.dead PROVE SpentFor(p, c.began + 1)'
    <3>1. PICK t : t = c.began + 1
      OBVIOUS
    <3>2. t \in Int /\ SpentFor(p, t)
      BY <2>1, <2>2, <3>1 DEF ParkedOK
    <3>3. SpentFor(p, t)'
      BY <1>2, <3>2, StillSpent
    <3> QED
      BY <3>1, <3>3 DEF SpentFor
  <2>3. \/ kvFailures' > 0
        \/ \E p \in Pairs : \E r \in ToSet(recorded'[p]) : r.daily /\ r.exp <= now' + c.hint
    <3>1. CASE kvFailures > 0
      BY <1>2, <3>1 DEF Grows, SpentInv
    <3>2. CASE \E p \in Pairs : \E r \in ToSet(recorded[p]) : r.daily /\ r.exp <= now + c.hint
      BY <1>2, <2>1, <3>2, HintStays DEF ParkedOK
    <3> QED
      BY <2>1, <3>1, <3>2 DEF ParkedOK
  <2> QED
    BY <2>1, <2>2, <2>3 DEF ParkedOK
<1>5. CallOK(c)'
  BY <1>2, <1>3, <1>4 DEF CallOK, ExhaustedOK
<1> QED
  BY <1>1, <1>5, Becomes
\* Steps that leave the quotas and the history alone.
LEMMA SameSpent ==
  ASSUME CascadeInv, UNCHANGED <<now, spentOn, recorded>>, nextKey' \in [Lanes -> 0 .. KeyCount - 1],
         kvFailures' \in Nat, kvFailures <= kvFailures'
  PROVE  Grows /\ SpentInv'
<1>1. Grows
  BY DEF CascadeInv, SpentInv, Grows
<1>2. SpentInv'
  BY DEF CascadeInv, SpentInv, SpentFor
<1> QED
  BY <1>1, <1>2

\* A call that is over, for no cascade's sake.
LEMMA EndedCall ==
  ASSUME NEW l \in Lanes, NEW c, call'[l] = c, DOMAIN c = CallFields, c.pc = "done", c.result # "exhausted", c.dailyQuota = FALSE
  PROVE  CallOK(call[l])'
  BY DEF CallOK, ExhaustedOK, ParkedOK

LEMMA CallRecords ==
  /\ DOMAIN NewCall = CallFields /\ NewCall.pc = "look" /\ NewCall.at = 0 /\ NewCall.tried = {} /\ NewCall.badKeys = {}
  /\ NewCall.hints = {} /\ NewCall.result = "none" /\ NewCall.dailyQuota = FALSE
  /\ DOMAIN Ended = CallFields /\ Ended.pc = "done" /\ Ended.result = "none" /\ Ended.dailyQuota = FALSE
  BY DEF NewCall, Ended, CallFields

LEMMA ReadFacts ==
  ASSUME CascadeInv, NEW l \in Lanes, NEW read \in Reads(l), AfterRead(l, read)
  PROVE  /\ kvFailures' \in Nat /\ kvFailures <= kvFailures'
         /\ WasPut(read.seen, recorded)
<1>1. kvFailures \in Nat
  BY DEF CascadeInv, SpentInv
<1>2. read.failed \in {0, 1}
  BY DEF Reads
<1>3. WasPut(NoEntries, recorded)
  BY DEF NoEntries, WasPut
<1>4. WasPut(read.seen, recorded)
  BY <1>3, LoadedWasPut, FirstLane DEF Reads, CascadeInv, MapInv
<1> QED
  BY <1>1, <1>2, <1>4 DEF AfterRead

LEMMA SetCall ==
  ASSUME CascadeInv, NEW l \in Lanes, NEW c, Set(l, c)
  PROVE  DOMAIN call' = Lanes /\ call'[l] = c /\ \A k \in Lanes : k # l => call'[k] = call[k]
  BY DEF CascadeInv, Set

\* What a step of lane l has to establish.
StepOf(l) ==
  /\ Grows /\ SpentInv' /\ DOMAIN call' = Lanes
  /\ CallOK(call[l])' /\ \A k \in Lanes : k # l => call'[k] = call[k]

LEMMA BeginStep ==
  ASSUME CascadeInv, NEW l \in Lanes, Begin(l)
  PROVE  StepOf(l)
<1> DEFINE i == InvocationOf(l)
<1>0. nextKey \in [Lanes -> 0 .. KeyCount - 1] /\ now \in Nat /\ kvFailures \in Nat /\ i \in Lanes
  BY FirstLane DEF CascadeInv, SpentInv
<1>1. CASE End(l, "overBudget") /\ UNCHANGED <<nextKey, kvFailures>>
  <2> DEFINE c == [Ended EXCEPT !.result = "overBudget"]
  <2>1. Grows /\ SpentInv'
    <3>1. UNCHANGED <<now, spentOn, recorded>>
      BY DEF Begin
    <3>2. nextKey' = nextKey /\ kvFailures' = kvFailures
      BY <1>1
    <3> QED
      BY <1>0, <3>1, <3>2, SameSpent
  <2>2. DOMAIN c = CallFields /\ c.pc = "done" /\ c.result # "exhausted" /\ c.dailyQuota = FALSE
    BY CallRecords DEF CallFields
  <2>3. Set(l, c)
    BY <1>1 DEF End
  <2> HIDE DEF c
  <2> QED
    BY <2>1, <2>2, <2>3, SetCall, EndedCall DEF StepOf
<1>2. CASE ~(End(l, "overBudget") /\ UNCHANGED <<nextKey, kvFailures>>)
  <2>1. PICK read \in Reads(l) :
          /\ Set(l, [NewCall EXCEPT !.start = nextKey[i], !.began = now, !.dead = KnownDead(read.seen)])
          /\ AfterRead(l, read)
    BY <1>2 DEF Begin
  <2>2. nextKey' = [nextKey EXCEPT ![i] = (@ + 1) % KeyCount] /\ UNCHANGED <<now, spentOn, recorded>>
    BY <1>2 DEF Begin
  <2>3. nextKey' \in [Lanes -> 0 .. KeyCount - 1]
    <3>1. nextKey[i] + 1 \in Nat
      BY <1>0
    <3>2. (nextKey[i] + 1) % KeyCount \in 0 .. KeyCount - 1
      BY <3>1, Sizes, DivMod
    <3> QED
      BY <1>0, <2>2, <3>2
  <2>4. Grows /\ SpentInv'
    BY <2>1, <2>2, <2>3, ReadFacts, SameSpent
  <2> DEFINE c == [NewCall EXCEPT !.start = nextKey[i], !.began = now, !.dead = KnownDead(read.seen)]
  <2>5. /\ DOMAIN c = CallFields /\ c.pc = "look" /\ c.at = 0 /\ c.tried = {} /\ c.badKeys = {} /\ c.hints = {}
        /\ c.result = "none" /\ c.dailyQuota = FALSE
        /\ c.start = nextKey[i] /\ c.began = now /\ c.dead = KnownDead(read.seen)
    BY CallRecords DEF CallFields
  <2>6. KnownDead(read.seen) # Models /\ KnownDead(read.seen) \subseteq Models
    <3>1. 1 \in Models
      BY Sizes DEF Models
    <3>2. {m \in Models : IsAlive(read.seen[DeadName(m)])} \subseteq Models
      OBVIOUS
    <3> QED
      BY <3>1, <3>2 DEF KnownDead
  <2>7. Set(l, c)
    BY <2>1
  <2> HIDE DEF c
  <2>8. DOMAIN call' = Lanes /\ call'[l] = c /\ \A k \in Lanes : k # l => call'[k] = call[k]
    BY <2>7, SetCall
  <2>9. UnderWay(call[l])'
    BY <1>0, <2>2, <2>5, <2>6, <2>8, Sizes DEF UnderWay
  <2>10. CallOK(call[l])'
    BY <2>5, <2>8, <2>9 DEF CallOK, ExhaustedOK, ParkedOK
  <2> QED
    BY <2>4, <2>8, <2>10 DEF StepOf
<1> QED
  BY <1>1, <1>2

\* Every attempt is behind, so every pair was met.
LEMMA AllCovered ==
  ASSUME NEW c, UnderWay(c), c.pc = "look", Position(c) = Total
  PROVE  /\ c.tried # {}
         /\ \A p \in Pairs : p[1] \notin c.dead /\ p[2] \notin c.badKeys => \E a \in c.tried : a.pair = p
<1>1. c.at \in 0 .. Total /\ c.start \in 0 .. KeyCount - 1
  BY DEF UnderWay
<1>2. \A i \in 0 .. Total - 1 : Covered(c, i)
  BY <1>1, PositionFacts DEF UnderWay, Covered
<1>3. ASSUME NEW p \in Pairs, p[1] \notin c.dead, p[2] \notin c.badKeys
      PROVE  \E a \in c.tried : a.pair = p
  <2>1. PICK i \in 0 .. Total - 1 : ModelAt(i) = p[1] /\ PairAt(c, i) = p
    BY <1>1, PairIsAttempt
  <2> QED
    BY <1>2, <1>3, <2>1 DEF Covered
<1>4. c.tried # {}
  <2>1. c.dead # Models /\ c.dead \subseteq Models
    BY DEF UnderWay
  <2>2. CASE c.badKeys # {}
    BY <2>2 DEF UnderWay
  <2>3. CASE c.badKeys = {} /\ \E m \in Models : m \notin c.dead
    <3>1. PICK m \in Models : m \notin c.dead
      BY <2>3
    <3>2. <<m, 0>> \in Pairs
      BY Sizes DEF Pairs
    <3> QED
      BY <1>3, <2>3, <3>1, <3>2
  <2> QED
    BY <2>1, <2>2, <2>3
<1> QED
  BY <1>3, <1>4


LEMMA RetryAfterFacts ==
  ASSUME NEW hints, hints \subseteq Nat
  PROVE  RetryAfter(hints) \in Nat /\ (hints # {} => \E h \in hints : h <= RetryAfter(hints))
<1>1. CASE hints = {}
  BY <1>1 DEF RetryAfter, DefaultCooldown
<1>2. CASE hints # {}
  <2>1. PICK h \in hints : h = Min(hints)
    BY <1>2, LeastNatural
  <2>2. RetryAfter(hints) = Max({1, h})
    BY <1>2, <2>1 DEF RetryAfter, DefaultCooldown
  <2>3. Max({1, h}) \in {1, h} /\ Max({1, h}) >= h
    <3>1. h \in Int /\ 1 \in Int
      OBVIOUS
    <3> QED
      BY <3>1, GreaterOfTwo, Zenon
  <2> QED
    BY <2>2, <2>3
<1> QED
  BY <1>1, <1>2

\* A cascade that ends, and what it says of the day.
LEMMA ExhaustedCall ==
  ASSUME CascadeInv, NEW l \in Lanes, call[l].pc = "look", Position(call[l]) = Total, EndExhausted(l, call[l]),
         UNCHANGED <<now, spentOn, recorded, kvFailures>>
  PROVE  CallOK(call[l])'
<1> DEFINE c == call[l]
           transient == c.real # "hard" /\ c.tried # {}
           daily == transient /\ AllDaily(c)
           hint == IF transient THEN RetryAfter(c.hints) ELSE 0
           new == [c EXCEPT !.pc = "done", !.result = "exhausted", !.transient = transient, !.hint = hint,
                            !.dailyQuota = daily]
<1>1. UnderWay(c) /\ DOMAIN c = CallFields /\ c.pc = "look"
  BY DEF CascadeInv, CallOK
<1>2. Set(l, new)
  BY DEF EndExhausted
<1>3. /\ c.tried # {}
      /\ \A p \in Pairs : p[1] \notin c.dead /\ p[2] \notin c.badKeys => \E a \in c.tried : a.pair = p
  BY <1>1, AllCovered
<1> HIDE DEF transient, hint
<1>4. /\ DOMAIN new = CallFields /\ new.pc = "done" /\ new.result = "exhausted" /\ new.dailyQuota = daily
      /\ new.hint = hint /\ new.tried = c.tried /\ new.dead = c.dead /\ new.badKeys = c.badKeys /\ new.began = c.began
  <2> HIDE DEF daily, c
  <2> QED
    BY <1>1 DEF CallFields
<1>5. call'[l] = new
  <2> HIDE DEF new, c
  <2> QED
    BY <1>2, SetCall
<1> HIDE DEF new
<1>6. ExhaustedOK(call[l])'
  BY <1>3, <1>4, <1>5 DEF ExhaustedOK
<1>7. ASSUME daily
      PROVE  /\ c.began \in Nat /\ hint \in Nat
             /\ \A p \in Pairs : p[1] \notin c.dead => SpentFor(p, c.began + 1)
             /\ kvFailures > 0 \/ \E p \in Pairs : \E r \in ToSet(recorded[p]) : r.daily /\ r.exp <= now + hint
  <2>1. (\A a \in c.tried : a.daily) /\ c.badKeys = {}
    BY <1>1, <1>7 DEF AllDaily, UnderWay
  <2>2. \A p \in Pairs : p[1] \notin c.dead => SpentFor(p, c.began + 1)
    BY <1>1, <1>3, <2>1 DEF UnderWay
  <2>3. hint = RetryAfter(c.hints)
    BY <1>7 DEF hint
  <2>4. hint \in Nat /\ (c.hints # {} => \E h \in c.hints : h <= hint)
    <3>1. c.hints \subseteq Nat
      BY <1>1 DEF UnderWay
    <3> QED
      BY <2>3, <3>1, RetryAfterFacts
  <2>5. ASSUME kvFailures = 0
        PROVE  \E p \in Pairs : \E r \in ToSet(recorded[p]) : r.daily /\ r.exp <= now + hint
    <3>1. c.hints # {} /\ c.hints \subseteq Nat /\ \A h \in c.hints : HintOK(c, h)
      BY <1>1, <1>3, <2>1, <2>5 DEF UnderWay
    <3>2. PICK h \in c.hints : h <= hint
      BY <2>4, <3>1
    <3>3. PICK p \in Pairs : \E r \in ToSet(recorded[p]) : r.daily /\ r.exp <= now + h
      BY <1>1, <3>1 DEF HintOK
    <3>4. PICK r \in ToSet(recorded[p]) : r.daily /\ r.exp <= now + h
      BY <3>3
    <3>5. r.exp \in Nat /\ now \in Nat /\ h \in Nat
      BY PairsAreNames, <3>1 DEF CascadeInv, SpentInv
    <3>6. r.exp <= now + hint
      BY <2>4, <3>2, <3>4, <3>5
    <3> QED
      BY <3>4, <3>6
  <2>6. kvFailures \in Nat
    BY DEF CascadeInv, SpentInv
  <2> QED
    BY <1>1, <2>2, <2>4, <2>5, <2>6 DEF UnderWay
<1>8. ParkedOK(call[l])'
  <2> HIDE DEF daily, c
  <2> QED
    BY <1>4, <1>5, <1>7 DEF ParkedOK, SpentFor
<1> QED
  BY <1>4, <1>5, <1>6, <1>8 DEF CallOK

-----------------------------------------------------------------------------
(* Look.                                                                    *)

LEMMA OnTheWay ==
  ASSUME NEW c, DOMAIN c = CallFields, c.pc \in {"look", "sent", "put", "write"}, UnderWay(c)', c.result = "none",
         c.dailyQuota = FALSE
  PROVE  CallOK(c)'
  BY DEF CallOK, ExhaustedOK, ParkedOK

\* A call that met one more pair.
Moves(c, new, attempt, hint) ==
  /\ new.tried = c.tried \cup {attempt} /\ new.start = c.start /\ new.began = c.began
  /\ new.pc \in {"look", "put"} /\ (new.pc = "put" => PutOK(new.put))
  /\ c.dead \subseteq new.dead /\ new.dead \subseteq Models /\ (new.pc = "look" => new.dead # Models)
  /\ new.at \in c.at .. Total /\ \A i \in c.at .. new.at - 1 : Covered(new, i)
  /\ c.badKeys \subseteq new.badKeys /\ (attempt.daily => new.badKeys = c.badKeys)
  /\ attempt.daily => attempt.pair \in Pairs /\ SpentFor(attempt.pair, c.began + 1)
  /\ hint \in Nat /\ (new.hints = c.hints \cup {hint} \/ (new.hints = c.hints /\ ~attempt.daily))
  /\ attempt.daily => HintOK(new, hint)

LEMMA MovesOn ==
  ASSUME NEW c, UnderWay(c)', c.pc \in {"look", "sent"}, NEW new, NEW attempt, NEW hint, Moves(c, new, attempt, hint)'
  PROVE  UnderWay(new)'
<1>1. c.at \in 0 .. Total /\ new.at \in 0 .. Total
  BY DEF UnderWay, Moves
<1>2. \A i \in 0 .. new.at - 1 : Covered(new, i)
  <2> SUFFICES ASSUME NEW i \in 0 .. new.at - 1 PROVE Covered(new, i)
    OBVIOUS
  <2>1. CASE i \in 0 .. c.at - 1
    BY <2>1 DEF UnderWay, Covered, PairAt, Moves
  <2>2. CASE i \in c.at .. new.at - 1
    BY <2>2 DEF Moves
  <2> QED
    BY <1>1, <2>1, <2>2
<1>3. new.badKeys # {} => \E a \in new.tried : ~a.daily
  BY DEF UnderWay, Moves
<1>4. new.hints \subseteq Nat
  BY DEF UnderWay, Moves
<1>5. \A a \in new.tried : a.daily => a.pair \in Pairs /\ SpentFor(a.pair, new.began + 1)'
  <2>1. \A a \in c.tried : a.daily => a.pair \in Pairs /\ SpentFor(a.pair, c.began + 1)'
    BY DEF UnderWay
  <2> QED
    BY <2>1 DEF Moves
<1>6. ASSUME kvFailures' = 0, \A a \in new.tried : a.daily
      PROVE  (new.tried # {} => new.hints # {}) /\ \A h \in new.hints : HintOK(new, h)'
  <2>1. attempt.daily /\ \A a \in c.tried : a.daily
    BY <1>6 DEF Moves
  <2>2. \A h \in c.hints : HintOK(c, h)'
    BY <1>6, <2>1 DEF UnderWay
  <2>3. \A h \in c.hints : HintOK(new, h)'
    BY <2>2 DEF HintOK, Moves
  <2> QED
    BY <2>1, <2>3 DEF Moves
<1>7. c.began \in Nat /\ c.began <= now'
  BY DEF UnderWay
<1>8. new.start \in 0 .. KeyCount - 1
  BY DEF UnderWay, Moves
<1> QED
  BY <1>1, <1>2, <1>3, <1>4, <1>5, <1>6, <1>7, <1>8 DEF UnderWay, Moves

\* A pair that is cooling is met, and passed.
LEMMA MetCooling ==
  ASSUME CascadeInv, Grows, UNCHANGED <<now, spentOn, recorded>>,
         NEW c, UnderWay(c), UnderWay(c)', DOMAIN c = CallFields, c.pc = "look", c.result = "none", c.dailyQuota = FALSE,
         NEW i, i = Position(c), i # Total,
         NEW seen, WasPut(seen, recorded), NEW entry, entry = seen[PairAt(c, i)], IsAlive(entry),
         NEW new, new = [Tried(c, PairAt(c, i), entry.daily) EXCEPT !.at = i + 1,
                                                              !.hints = @ \cup {Max({MinTtl, entry.exp - now})}]
  PROVE  CallOK(new)'
<1>0. PICK pair, ttl, attempt :
        /\ pair = PairAt(c, i) /\ ttl = Max({MinTtl, entry.exp - now})
        /\ attempt = [pair |-> pair, daily |-> entry.daily]
  OBVIOUS
<1>1. c.at \in 0 .. Total /\ c.start \in 0 .. KeyCount - 1 /\ c.began \in Nat /\ c.began <= now /\ now \in Nat
  BY DEF UnderWay, CascadeInv, SpentInv
<1>2. i \in c.at .. Total - 1 /\ \A j \in c.at .. Total : j < i => ModelAt(j) \in c.dead
  <2>1. i \in c.at .. Total /\ \A j \in c.at .. Total : j < i => ModelAt(j) \in c.dead
    BY <1>1, PositionFacts
  <2> QED
    BY <1>1, <2>1, Sizes
<1>3. i \in 0 .. Total - 1
  BY <1>1, <1>2
<1>4. pair \in Pairs
  BY <1>0, <1>1, <1>3, AttemptIsPair
<1>5. entry \in ToSet(recorded[pair]) /\ entry.exp > now
  BY <1>1, <1>0, <1>4, PairsAreNames DEF IsAlive, WasPut, NoEntry
<1>6. entry.exp \in Nat /\ entry.daily \in BOOLEAN /\ (entry.daily => SpentFor(pair, entry.exp))
  BY <1>4, <1>5, PairsAreNames DEF CascadeInv, SpentInv
<1>7. ttl \in Nat /\ entry.exp <= now + ttl
  <2>1. PICK left \in Int : left = entry.exp - now
    BY <1>1, <1>6
  <2>2. 1 \in Int
    OBVIOUS
  <2>3. Max({1, left}) \in {1, left} /\ Max({1, left}) >= left
    BY <2>1, <2>2, GreaterOfTwo, Zenon
  <2>4. ttl = Max({1, left})
    BY <1>0, <2>1 DEF MinTtl
  <2> QED
    BY <1>1, <1>5, <1>6, <2>1, <2>3, <2>4
<1>8. /\ DOMAIN new = CallFields /\ new.pc = "look" /\ new.at = i + 1 /\ new.start = c.start /\ new.dead = c.dead
      /\ new.tried = c.tried \cup {attempt} /\ new.badKeys = c.badKeys /\ new.hints = c.hints \cup {ttl}
      /\ new.began = c.began /\ new.result = "none" /\ new.dailyQuota = FALSE
  <2>1. new = [[c EXCEPT !.tried = @ \cup {attempt}] EXCEPT !.at = i + 1, !.hints = @ \cup {ttl}]
    BY <1>0 DEF Tried
  <2> QED
    BY <2>1 DEF CallFields
<1>9. attempt.pair = pair /\ attempt.daily = entry.daily
  BY <1>0
<1>10. attempt.daily => SpentFor(attempt.pair, c.began + 1)'
  <2> SUFFICES ASSUME entry.daily PROVE SpentFor(pair, c.began + 1)'
    BY <1>9 DEF SpentFor
  <2>1. SpentFor(pair, entry.exp) /\ c.began + 1 <= entry.exp
    BY <1>1, <1>5, <1>6
  <2>2. spentOn[pair] * DayLength + Buffer \in Int
    BY <1>4, Sizes DEF CascadeInv, SpentInv
  <2> QED
    BY <1>1, <1>6, <2>1, <2>2 DEF SpentFor
<1>11. attempt.daily => HintOK(new, ttl)'
  <2> SUFFICES ASSUME entry.daily
               PROVE  \E p \in Pairs : \E r \in ToSet(recorded'[p]) : r.daily /\ r.exp <= now' + ttl
    <3>1. attempt.daily <=> entry.daily
      BY <1>6, <1>9
    <3> QED
      BY <3>1 DEF HintOK
  <2>1. entry \in ToSet(recorded'[pair]) /\ entry.exp <= now' + ttl
    BY <1>5, <1>7
  <2> QED
    BY <1>4, <2>1
<1>12. new.at \in c.at .. Total /\ \A j \in c.at .. new.at - 1 : Covered(new, j)
  <2>1. PairAt(new, i) = pair
    BY <1>0, <1>8 DEF PairAt
  <2>2. Covered(new, i)
    BY <1>8, <1>9, <2>1 DEF Covered
  <2>3. \A j \in c.at .. Total : j < i => Covered(new, j)
    BY <1>2, <1>8 DEF Covered
  <2>4. c.at \in Nat /\ i \in Nat /\ c.at <= i /\ i + 1 <= Total /\ Total \in Nat
    BY <1>1, <1>2, Sizes
  <2> QED
    BY <1>8, <2>2, <2>3, <2>4
<1>13. c.dead \subseteq Models /\ c.dead # Models
  BY DEF UnderWay
<1>14. UnderWay(new)'
  <2>1. /\ new.tried = c.tried \cup {attempt} /\ new.start = c.start /\ new.began = c.began
        /\ new.pc \in {"look", "put"} /\ (new.pc = "put" => PutOK(new.put)')
        /\ c.dead \subseteq new.dead /\ new.dead \subseteq Models /\ (new.pc = "look" => new.dead # Models)
        /\ c.badKeys \subseteq new.badKeys /\ (attempt.daily => new.badKeys = c.badKeys)
    BY <1>8, <1>13
  <2>2. attempt.daily => attempt.pair \in Pairs /\ SpentFor(attempt.pair, c.began + 1)'
    BY <1>4, <1>9, <1>10
  <2>3. ttl \in Nat /\ (new.hints = c.hints \cup {ttl} \/ (new.hints = c.hints /\ ~attempt.daily))
    BY <1>7, <1>8
  <2> QED
    <3>1. Moves(c, new, attempt, ttl)'
      BY <1>11, <1>12, <2>1, <2>2, <2>3 DEF Moves
    <3> QED
      BY <3>1, MovesOn
<1> QED
  BY <1>8, <1>14, OnTheWay

LEMMA SentOut ==
  ASSUME NEW c, UnderWay(c), UnderWay(c)', DOMAIN c = CallFields, c.pc = "look", c.result = "none", c.dailyQuota = FALSE,
         NEW i, i = Position(c), i # Total,
         NEW new, new = [c EXCEPT !.pc = "sent", !.at = i, !.sent = @ + 1]
  PROVE  CallOK(new)'
<1>1. c.at \in 0 .. Total
  BY DEF UnderWay
<1>2. i \in c.at .. Total - 1 /\ \A j \in c.at .. Total : j < i => ModelAt(j) \in c.dead
  <2>1. i \in c.at .. Total /\ \A j \in c.at .. Total : j < i => ModelAt(j) \in c.dead
    BY <1>1, PositionFacts
  <2> QED
    BY <1>1, <2>1, Sizes
<1>3. /\ DOMAIN new = CallFields /\ new.pc = "sent" /\ new.at = i /\ new.start = c.start /\ new.dead = c.dead
      /\ new.tried = c.tried /\ new.badKeys = c.badKeys /\ new.hints = c.hints
      /\ new.began = c.began /\ new.result = "none" /\ new.dailyQuota = FALSE
  BY DEF CallFields
<1>4. \A j \in 0 .. new.at - 1 : Covered(new, j)
  <2>1. c.at \in Nat /\ i \in Nat /\ c.at <= i /\ i + 1 <= Total /\ Total \in Nat
    BY <1>1, <1>2, Sizes
  <2>2. \A j \in c.at .. Total : j < i => Covered(new, j)
    BY <1>2, <1>3 DEF Covered
  <2>3. \A j \in 0 .. c.at - 1 : Covered(new, j)
    BY <1>3 DEF UnderWay, Covered, PairAt
  <2> QED
    BY <1>3, <2>1, <2>2, <2>3
<1>5. \A h : HintOK(c, h)' => HintOK(new, h)'
  BY DEF HintOK
<1>6. new.at \in 0 .. Total /\ new.at # Total
  BY <1>1, <1>2, <1>3, Sizes
<1>7. UnderWay(new)'
  BY <1>3, <1>4, <1>5, <1>6 DEF UnderWay
<1> QED
  BY <1>3, <1>7, OnTheWay

LEMMA LookStep ==
  ASSUME CascadeInv, NEW l \in Lanes, Look(l)
  PROVE  StepOf(l)
<1>1. PICK c : c = call[l]
  OBVIOUS
<1>2. /\ c.pc = "look" /\ UnderWay(c) /\ DOMAIN c = CallFields /\ c.result = "none" /\ c.dailyQuota = FALSE
  BY <1>1 DEF Look, CascadeInv, CallOK
<1>3. UNCHANGED <<now, spentOn, recorded, nextKey>>
  BY DEF Look
<1>4. kvFailures \in Nat /\ nextKey' \in [Lanes -> 0 .. KeyCount - 1] /\ now' = now
  BY <1>3 DEF CascadeInv, SpentInv
<1>5. PICK i : i = Position(c)
  OBVIOUS
<1>6. ASSUME kvFailures' \in Nat, kvFailures <= kvFailures'
      PROVE  Grows /\ SpentInv' /\ UnderWay(c)'
  <2>1. Grows /\ SpentInv'
    BY <1>3, <1>4, <1>6, SameSpent
  <2> QED
    BY <1>2, <1>4, <2>1, StillUnderWay DEF CascadeInv
<1>7. ASSUME NEW new, Set(l, new), kvFailures' \in Nat, kvFailures <= kvFailures', CallOK(new)'
      PROVE  StepOf(l)
  BY <1>6, <1>7, SetCall, Becomes DEF StepOf
<1>8. ASSUME NEW result, End(l, result), result # "exhausted", kvFailures' \in Nat, kvFailures <= kvFailures'
      PROVE  StepOf(l)
  <2>1. PICK new : new = [Ended EXCEPT !.result = result]
    OBVIOUS
  <2>2. DOMAIN new = CallFields /\ new.pc = "done" /\ new.result = result /\ new.dailyQuota = FALSE
    BY <2>1, CallRecords DEF CallFields
  <2>3. Set(l, new)
    BY <1>8, <2>1 DEF End
  <2> QED
    BY <1>6, <1>8, <2>2, <2>3, SetCall, EndedCall DEF StepOf
<1>9. ASSUME NEW result, EndTransient(l, c, result), result # "exhausted", kvFailures' = kvFailures
      PROVE  StepOf(l)
  <2>1. PICK new : new = [Ended EXCEPT !.result = result, !.transient = TRUE, !.hint = RetryAfter(c.hints)]
    OBVIOUS
  <2>2. DOMAIN new = CallFields /\ new.pc = "done" /\ new.result = result /\ new.dailyQuota = FALSE
    BY <2>1, CallRecords DEF CallFields
  <2>3. Set(l, new)
    BY <1>9, <2>1 DEF EndTransient
  <2>4. Grows /\ SpentInv'
    BY <1>4, <1>6, <1>9
  <2> QED
    BY <1>9, <2>2, <2>3, <2>4, SetCall, EndedCall DEF StepOf
<1>10. CASE i = Total
  <2>1. EndExhausted(l, call[l]) /\ kvFailures' = kvFailures
    BY <1>1, <1>5, <1>10 DEF Look
  <2>2. CallOK(call[l])'
    BY <1>1, <1>2, <1>3, <1>5, <1>10, <2>1, ExhaustedCall
  <2>3. DOMAIN call' = Lanes /\ \A k \in Lanes : k # l => call'[k] = call[k]
    BY <2>1, SetCall DEF EndExhausted
  <2> QED
    BY <1>4, <1>6, <2>1, <2>2, <2>3 DEF StepOf
<1>11. CASE i # Total /\ (EndTransient(l, c, "outOfTime") \/ EndTransient(l, c, "capped")) /\ kvFailures' = kvFailures
  BY <1>9, <1>11
<1>12. ASSUME i # Total, NEW read \in Reads(l), AfterRead(l, read),
              LET entry == read.seen[PairAt(c, i)] IN
              IF IsAlive(entry)
              THEN Set(l, [Tried(c, PairAt(c, i), entry.daily) EXCEPT
                             !.at = i + 1, !.hints = @ \cup {Max({MinTtl, entry.exp - now})}])
              ELSE Set(l, [c EXCEPT !.pc = "sent", !.at = i, !.sent = @ + 1]) \/ End(l, "paused")
       PROVE  StepOf(l)
  <2>1. kvFailures' \in Nat /\ kvFailures <= kvFailures' /\ WasPut(read.seen, recorded)
    BY <1>12, ReadFacts
  <2>2. Grows /\ UnderWay(c)'
    BY <1>6, <2>1
  <2>3. PICK entry : entry = read.seen[PairAt(c, i)]
    OBVIOUS
  <2>4. CASE IsAlive(entry)
    <3>1. PICK new : new = [Tried(c, PairAt(c, i), entry.daily) EXCEPT
                              !.at = i + 1, !.hints = @ \cup {Max({MinTtl, entry.exp - now})}]
      OBVIOUS
    <3>2. Set(l, new)
      BY <1>12, <2>3, <2>4, <3>1
    <3>3. CallOK(new)'
      BY <1>2, <1>3, <1>5, <1>12, <2>1, <2>2, <2>3, <2>4, <3>1, MetCooling
    <3> QED
      BY <1>7, <2>1, <3>2, <3>3
  <2>5. CASE Set(l, [c EXCEPT !.pc = "sent", !.at = i, !.sent = @ + 1])
    <3>1. PICK new : new = [c EXCEPT !.pc = "sent", !.at = i, !.sent = @ + 1]
      OBVIOUS
    <3>2. CallOK(new)'
      BY <1>2, <1>5, <1>12, <2>2, <3>1, SentOut
    <3> QED
      BY <1>7, <2>1, <2>5, <3>1, <3>2
  <2>6. CASE End(l, "paused")
    BY <1>8, <2>1, <2>6
  <2> QED
    BY <1>12, <2>3, <2>4, <2>5, <2>6
<1> QED
  BY <1>1, <1>5, <1>10, <1>11, <1>12 DEF Look

-----------------------------------------------------------------------------
(* Answer.                                                                  *)

LEMMA QuotaStep ==
  ASSUME CascadeInv, UNCHANGED <<now, recorded, nextKey, kvFailures>>, NEW p \in Pairs,
         spentOn' \in {spentOn, [spentOn EXCEPT ![p] = Day(now)]}
  PROVE  Grows /\ SpentInv'
<1>1. SpentInv /\ Day(now) \in Nat
  BY DayFacts DEF CascadeInv, SpentInv
<1>2. Grows /\ \A q \in Pairs : spentOn'[q] <= Day(now)
  BY <1>1 DEF Grows, SpentInv
<1>3. ASSUME NEW n \in Names, NEW r \in ToSet(recorded'[n])
      PROVE  r.exp \in Nat /\ r.daily \in BOOLEAN /\ (r.daily => n \in Pairs /\ SpentFor(n, r.exp)')
  <2>1. PICK t : t = r.exp
    OBVIOUS
  <2>2. t \in Nat /\ r.daily \in BOOLEAN /\ (r.daily => n \in Pairs /\ SpentFor(n, t))
    BY <1>1, <1>3, <2>1 DEF SpentInv
  <2>3. r.daily => SpentFor(n, t)'
    BY <1>1, <1>2, <2>2, StillSpent
  <2> QED
    BY <2>1, <2>2, <2>3 DEF SpentFor
<1> QED
  BY <1>1, <1>2, <1>3 DEF SpentInv, Grows, SpentFor, Day

\* The pair is cooling: for the day, when its quota was used up, or for a while.
LEMMA CoolStep ==
  ASSUME NEW c, UnderWay(c)', DOMAIN c = CallFields, c.pc = "sent", c.result = "none", c.dailyQuota = FALSE,
         now \in Nat, now' = now, spentOn' \in [Pairs -> Nat],
         NEW pair, pair = PairAt(c, c.at), NEW ttl \in Nat \ {0}, NEW isDaily \in BOOLEAN,
         isDaily => spentOn'[pair] > 0 /\ now + ttl = spentOn'[pair] * DayLength + Buffer,
         NEW new, new = Cool(c, pair, ttl, isDaily)
  PROVE  CallOK(new)'
<1>1. PICK attempt, put, life :
        /\ attempt = [pair |-> pair, daily |-> isDaily] /\ life = Max({MinTtl, ttl})
        /\ put = [name |-> pair, ttl |-> life, daily |-> isDaily]
  OBVIOUS
<1>2. c.at \in 0 .. Total - 1 /\ c.start \in 0 .. KeyCount - 1 /\ c.began \in Nat /\ c.began <= now
  BY Sizes DEF UnderWay
<1>3. pair \in Pairs /\ pair \in Names
  BY <1>2, AttemptIsPair, PairsAreNames
<1>4. life = ttl
  <2>1. ttl \in Int /\ 1 \in Int
    OBVIOUS
  <2>2. Max({1, ttl}) \in {1, ttl} /\ Max({1, ttl}) >= 1 /\ Max({1, ttl}) >= ttl
    BY <2>1, GreaterOfTwo, Zenon
  <2>3. life = Max({1, ttl})
    BY <1>1 DEF MinTtl
  <2> QED
    BY <2>2, <2>3
<1>5. /\ DOMAIN new = CallFields /\ new.pc = "put" /\ new.at = c.at + 1 /\ new.start = c.start /\ new.dead = c.dead
      /\ new.tried = c.tried \cup {attempt} /\ new.badKeys = c.badKeys /\ new.hints = c.hints \cup {ttl}
      /\ new.began = c.began /\ new.result = "none" /\ new.dailyQuota = FALSE /\ new.put = put
  <2>1. new = [[c EXCEPT !.tried = @ \cup {attempt}] EXCEPT
                 !.pc = "put", !.at = @ + 1, !.real = "soft", !.hints = @ \cup {ttl}, !.put = put]
    BY <1>1 DEF Cool, Tried
  <2> QED
    BY <2>1 DEF CallFields
<1>6. /\ attempt.pair = pair /\ attempt.daily = isDaily
      /\ put.name = pair /\ put.ttl = ttl /\ put.daily = isDaily
  BY <1>1, <1>4
<1>7. isDaily => SpentFor(pair, now + ttl)' /\ SpentFor(pair, c.began + 1)'
  BY <1>2, <1>3 DEF SpentFor
<1>8. PutOK(new.put)'
  BY <1>3, <1>5, <1>6, <1>7 DEF PutOK, SpentFor
<1>9. isDaily => HintOK(new, ttl)'
  BY <1>5, <1>6 DEF HintOK
<1>10. new.at \in c.at .. Total /\ \A j \in c.at .. new.at - 1 : Covered(new, j)
  <2>1. Covered(new, c.at)
    BY <1>5, <1>6 DEF Covered, PairAt
  <2> QED
    BY <1>2, <1>5, <2>1, Sizes
<1>11. c.dead \subseteq Models
  BY DEF UnderWay
<1>12. Moves(c, new, attempt, ttl)'
  BY <1>3, <1>5, <1>6, <1>7, <1>8, <1>9, <1>10, <1>11 DEF Moves
<1>13. UnderWay(new)'
  BY <1>12, MovesOn
<1> QED
  BY <1>5, <1>13, OnTheWay

\* A blip, a refused key, a retired model.
HardAnswers(c, pair, m) ==
  {[Tried(c, pair, FALSE) EXCEPT !.pc = "look", !.at = @ + 1, !.real = "soft", !.hints = @ \cup {DefaultCooldown}],
   [Tried(c, pair, FALSE) EXCEPT !.pc = "look", !.at = NextKeyAt(@), !.real = "hard", !.badKeys = @ \cup {pair[2]}],
   [Tried(c, pair, FALSE) EXCEPT !.pc = "put", !.at = @ + 1, !.real = "hard", !.dead = @ \cup {m},
                                 !.put = [name |-> DeadName(m), ttl |-> DeadFor, daily |-> FALSE]]}

LEMMA HardStep ==
  ASSUME NEW c, UnderWay(c)', DOMAIN c = CallFields, c.pc = "sent", c.result = "none", c.dailyQuota = FALSE,
         NEW pair, pair = PairAt(c, c.at), NEW m, m = ModelAt(c.at),
         NEW new \in HardAnswers(c, pair, m)
  PROVE  CallOK(new)'
<1>1. PICK attempt, put :
        attempt = [pair |-> pair, daily |-> FALSE] /\ put = [name |-> DeadName(m), ttl |-> DeadFor, daily |-> FALSE]
  OBVIOUS
<1>2. c.at \in 0 .. Total - 1 /\ c.start \in 0 .. KeyCount - 1 /\ c.dead \subseteq Models /\ c.dead # Models
  BY Sizes DEF UnderWay
<1>3. m \in Models /\ c.at < NextKeyAt(c.at) /\ NextKeyAt(c.at) \in 0 .. Total
  BY <1>2, AttemptIsPair
<1>4. PICK next : next = [c EXCEPT !.tried = @ \cup {attempt}]
  OBVIOUS
<1>5. /\ DOMAIN next = CallFields /\ next.pc = c.pc /\ next.at = c.at /\ next.start = c.start /\ next.dead = c.dead
      /\ next.tried = c.tried \cup {attempt} /\ next.badKeys = c.badKeys /\ next.hints = c.hints
      /\ next.began = c.began /\ next.result = "none" /\ next.dailyQuota = FALSE
  BY <1>4 DEF CallFields
<1>6. next = Tried(c, pair, FALSE)
  BY <1>1, <1>4 DEF Tried
<1>7. /\ DOMAIN new = CallFields /\ new.start = c.start /\ new.tried = c.tried \cup {attempt}
      /\ new.began = c.began /\ new.result = "none" /\ new.dailyQuota = FALSE
      /\ \/ /\ new.pc = "look" /\ new.at = c.at + 1 /\ new.dead = c.dead /\ new.badKeys = c.badKeys
            /\ new.hints = c.hints \cup {1}
         \/ /\ new.pc = "look" /\ new.at = NextKeyAt(c.at) /\ new.dead = c.dead /\ new.badKeys = c.badKeys \cup {pair[2]}
            /\ new.hints = c.hints
         \/ /\ new.pc = "put" /\ new.at = c.at + 1 /\ new.dead = c.dead \cup {m} /\ new.badKeys = c.badKeys
            /\ new.hints = c.hints /\ new.put = put
  <2>1. CASE new = [next EXCEPT !.pc = "look", !.at = @ + 1, !.real = "soft", !.hints = @ \cup {1}]
    BY <1>5, <2>1 DEF CallFields
  <2>2. CASE new = [next EXCEPT !.pc = "look", !.at = NextKeyAt(@), !.real = "hard", !.badKeys = @ \cup {pair[2]}]
    BY <1>5, <2>2 DEF CallFields
  <2>3. CASE new = [next EXCEPT !.pc = "put", !.at = @ + 1, !.real = "hard", !.dead = @ \cup {m}, !.put = put]
    BY <1>5, <2>3 DEF CallFields
  <2> QED
    BY <1>1, <1>6, <2>1, <2>2, <2>3 DEF DefaultCooldown, HardAnswers
<1>8. ~attempt.daily /\ attempt.pair = pair
  BY <1>1
<1>9. new.pc = "put" => PutOK(new.put)'
  <2>1. put.name \in Names /\ put.ttl \in Nat \ {0} /\ put.daily = FALSE
    BY <1>1, <1>3, PairsAreNames, CascadeAssumption
  <2> QED
    BY <1>7, <2>1 DEF PutOK
<1>10. new.at \in c.at .. Total /\ \A j \in c.at .. new.at - 1 : Covered(new, j)
  <2>1. Covered(new, c.at)
    BY <1>7, <1>8 DEF Covered, PairAt
  <2>2. CASE new.at = c.at + 1
    BY <1>2, <2>1, <2>2, Sizes
  <2>3. CASE new.at = NextKeyAt(c.at) /\ new.badKeys = c.badKeys \cup {pair[2]}
    <3>1. ASSUME NEW j \in c.at .. new.at - 1 PROVE Covered(new, j)
      <4>1. j \in Nat /\ c.at <= j /\ j < NextKeyAt(c.at)
        BY <1>2, <1>3, <2>3, Sizes
      <4>2. PairAt(c, j)[2] = PairAt(c, c.at)[2]
        BY <1>2, <4>1, SameKey
      <4>3. PairAt(new, j) = PairAt(c, j)
        BY <1>7 DEF PairAt
      <4> QED
        BY <2>3, <4>2, <4>3 DEF Covered
    <3> QED
      BY <1>2, <1>3, <2>3, <3>1, Sizes
  <2> QED
    BY <1>7, <2>2, <2>3
<1>11. Moves(c, new, attempt, 1)'
  BY <1>2, <1>3, <1>7, <1>8, <1>9, <1>10 DEF Moves
<1>12. UnderWay(new)'
  BY <1>11, MovesOn
<1> QED
  BY <1>7, <1>12, OnTheWay

LEMMA AnswerStep ==
  ASSUME CascadeInv, NEW l \in Lanes, Answer(l)
  PROVE  StepOf(l)
<1>1. PICK c, pair, m : c = call[l] /\ pair = PairAt(c, c.at) /\ m = ModelAt(c.at)
  OBVIOUS
<1>2. c.pc = "sent" /\ UnderWay(c) /\ DOMAIN c = CallFields /\ c.result = "none" /\ c.dailyQuota = FALSE
  BY <1>1 DEF Answer, CascadeInv, CallOK
<1>3. c.at \in 0 .. Total - 1 /\ c.start \in 0 .. KeyCount - 1
  BY <1>2, Sizes DEF UnderWay
<1>4. pair \in Pairs /\ m \in Models
  BY <1>1, <1>3, AttemptIsPair
<1>5. UNCHANGED <<now, recorded, nextKey, kvFailures>> /\ now \in Nat
  BY DEF Answer, CascadeInv, SpentInv
<1>6. ASSUME spentOn' \in {spentOn, [spentOn EXCEPT ![pair] = Day(now)]}
      PROVE  Grows /\ SpentInv' /\ UnderWay(c)' /\ spentOn' \in [Pairs -> Nat]
  <2>1. Grows /\ SpentInv'
    BY <1>4, <1>5, <1>6, QuotaStep
  <2> QED
    BY <1>2, <1>5, <2>1, StillUnderWay DEF CascadeInv, SpentInv
<1>7. ASSUME NEW new, Set(l, new), spentOn' \in {spentOn, [spentOn EXCEPT ![pair] = Day(now)]}, CallOK(new)'
      PROVE  StepOf(l)
  BY <1>6, <1>7, SetCall, Becomes DEF StepOf
<1>8. CASE (\E result \in {"ok", "unusable", "refused"} : End(l, result)) /\ UNCHANGED spentOn
  <2>1. PICK result \in {"ok", "unusable", "refused"} : End(l, result)
    BY <1>8
  <2>2. PICK new : new = [Ended EXCEPT !.result = result]
    OBVIOUS
  <2>3. DOMAIN new = CallFields /\ new.pc = "done" /\ new.result # "exhausted" /\ new.dailyQuota = FALSE
    BY <2>2, CallRecords DEF CallFields
  <2>4. Set(l, new)
    BY <2>1, <2>2 DEF End
  <2>5. Grows /\ SpentInv'
    BY <1>6, <1>8
  <2> QED
    BY <2>3, <2>4, <2>5, SetCall, EndedCall DEF StepOf
<1>9. CASE Set(l, Cool(c, pair, DailyCooldown(now), TRUE)) /\ spentOn' = [spentOn EXCEPT ![pair] = Day(now)]
  <2>1. PICK ttl, new : ttl = DailyCooldown(now) /\ new = Cool(c, pair, ttl, TRUE)
    OBVIOUS
  <2>2. ttl \in Nat \ {0} /\ Day(now) > 0 /\ now + ttl = Day(now) * DayLength + Buffer
    BY <1>5, <2>1, DayFacts
  <2>3. spentOn'[pair] = Day(now)
    BY <1>4, <1>9 DEF CascadeInv, SpentInv
  <2>4. CallOK(new)'
    BY <1>1, <1>2, <1>5, <1>6, <1>9, <2>1, <2>2, <2>3, CoolStep
  <2> QED
    BY <1>7, <1>9, <2>1, <2>4
<1>10. CASE (\E ttl \in Delays \cup {DefaultCooldown} : Set(l, Cool(c, pair, ttl, FALSE))) /\ UNCHANGED spentOn
  <2>1. PICK ttl \in Delays \cup {DefaultCooldown} : Set(l, Cool(c, pair, ttl, FALSE))
    BY <1>10
  <2>2. PICK new : new = Cool(c, pair, ttl, FALSE)
    OBVIOUS
  <2>3. ttl \in Nat \ {0}
    BY CascadeAssumption DEF DefaultCooldown
  <2>4. CallOK(new)'
    BY <1>1, <1>2, <1>5, <1>6, <1>10, <2>2, <2>3, CoolStep
  <2> QED
    BY <1>7, <1>10, <2>1, <2>2, <2>4
<1>11. ASSUME NEW new \in HardAnswers(c, pair, m), Set(l, new), UNCHANGED spentOn
       PROVE  StepOf(l)
  <2>1. CallOK(new)'
    <3>1. UnderWay(c)'
      BY <1>6, <1>11
    <3> QED
      BY <1>1, <1>2, <1>11, <3>1, HardStep
  <2> QED
    BY <1>7, <1>11, <2>1
<1> QED
  BY <1>1, <1>8, <1>9, <1>10, <1>11 DEF Answer, HardAnswers

-----------------------------------------------------------------------------
(* The puts.                                                                *)

\* A put that is over, whether it was written or given up.
LEMMA PutIsOver ==
  ASSUME CascadeInv, Grows, SpentInv', NEW l \in Lanes, NEW c, c = call[l], c.pc \in {"put", "write"}, now' = now, AfterPut(l),
         kvFailures' = 0 => \E r \in ToSet(recorded'[c.put.name]) : r.exp <= now' + c.put.ttl /\ (c.put.daily => r.daily)
  PROVE  StepOf(l)
<1>1. UnderWay(c) /\ DOMAIN c = CallFields /\ c.result = "none" /\ c.dailyQuota = FALSE
  BY DEF CascadeInv, CallOK
<1>2. UnderWay(c)'
  BY <1>1, StillUnderWay DEF CascadeInv
<1>3. PICK next : next = [c EXCEPT !.pc = "look", !.put = NoPut]
  OBVIOUS
<1>4. /\ DOMAIN next = CallFields /\ next.pc = "look" /\ next.at = c.at /\ next.start = c.start /\ next.dead = c.dead
      /\ next.tried = c.tried /\ next.badKeys = c.badKeys /\ next.hints = c.hints
      /\ next.began = c.began /\ next.result = "none" /\ next.dailyQuota = FALSE
  BY <1>1, <1>3 DEF CallFields
<1>5. CASE c.dead = Models
  <2>1. PICK new : new = [Ended EXCEPT !.result = "refused"]
    OBVIOUS
  <2>2. DOMAIN new = CallFields /\ new.pc = "done" /\ new.result # "exhausted" /\ new.dailyQuota = FALSE
    BY <2>1, CallRecords DEF CallFields
  <2>3. Set(l, new)
    BY <1>3, <1>4, <1>5, <2>1 DEF AfterPut, End
  <2> QED
    BY <2>2, <2>3, SetCall, EndedCall DEF StepOf
<1>6. CASE c.dead # Models
  <2>1. Set(l, next)
    BY <1>3, <1>4, <1>6 DEF AfterPut
  <2>2. \A i \in 0 .. next.at - 1 : Covered(next, i)
    BY <1>2, <1>4 DEF UnderWay, Covered, PairAt
  <2>3. ASSUME kvFailures' = 0, NEW h \in c.hints, HintOK(c, h)' PROVE HintOK(next, h)'
    <3>1. CASE \E p \in Pairs : \E r \in ToSet(recorded'[p]) : r.daily /\ r.exp <= now' + h
      BY <3>1 DEF HintOK
    <3>2. CASE c.put.daily /\ c.put.ttl <= h
      <4>1. c.put.name \in Pairs /\ c.put.ttl \in Nat /\ h \in Nat /\ now' \in Nat
        BY <1>2, <3>2, PairsAreNames DEF UnderWay, PutOK, SpentInv
      <4>2. PICK r \in ToSet(recorded'[c.put.name]) : r.exp <= now' + c.put.ttl /\ r.daily
        BY <2>3, <3>2
      <4>3. r.exp \in Nat
        BY <4>1, PairsAreNames DEF SpentInv
      <4>4. r.exp <= now' + h
        BY <3>2, <4>1, <4>2, <4>3
      <4> QED
        BY <4>1, <4>2, <4>4 DEF HintOK
    <3> QED
      BY <2>3, <3>1, <3>2 DEF HintOK
  <2>4. UnderWay(next)'
    BY <1>2, <1>4, <1>6, <2>2, <2>3 DEF UnderWay
  <2>5. CallOK(next)'
    BY <1>4, <2>4, OnTheWay
  <2> QED
    BY <2>1, <2>5, SetCall, Becomes DEF StepOf
<1> QED
  BY <1>5, <1>6

\* For a put that is stored, and for one that is only entered in the invocation's copy.
LEMMA EnterStep ==
  ASSUME CascadeInv, NEW l \in Lanes, Enter(l), kvFailures' \in {kvFailures, kvFailures + 1}
  PROVE  StepOf(l)
<1>1. PICK c, entry : c = call[l] /\ entry = [daily |-> c.put.daily, exp |-> now + c.put.ttl]
  OBVIOUS
<1>2. c.pc \in {"put", "write"} /\ UnderWay(c)
  BY <1>1 DEF Enter, CascadeInv, CallOK
<1>3. /\ PutOK(c.put) /\ c.put.ttl \in Nat \ {0} /\ c.put.name \in Names /\ c.put.daily \in BOOLEAN
      /\ entry.exp = now + c.put.ttl /\ entry.daily = c.put.daily
  BY <1>1, <1>2 DEF UnderWay, PutOK
<1>4. /\ UNCHANGED <<now, spentOn, nextKey>>
      /\ recorded' = [recorded EXCEPT ![c.put.name] = Append(@, entry)]
      /\ AfterPut(l)
  BY <1>1 DEF Enter, WithPut
<1>5. SpentInv /\ now \in Nat
  BY DEF CascadeInv, SpentInv
<1>6. \A n \in Names : ToSet(recorded'[n]) = IF n = c.put.name THEN ToSet(recorded[n]) \cup {entry} ELSE ToSet(recorded[n])
  BY <1>3, <1>4, HistoryGrows DEF CascadeInv, MapInv
<1>7. Grows
  <2>1. \A n \in Names : ToSet(recorded[n]) \subseteq ToSet(recorded'[n])
    BY <1>6
  <2>2. \A p \in Pairs : spentOn[p] \in Nat /\ spentOn'[p] = spentOn[p]
    BY <1>4, <1>5 DEF SpentInv
  <2>3. now' = now /\ kvFailures' \in Nat /\ kvFailures \in Nat /\ spentOn' \in [Pairs -> Nat]
    BY <1>4, <1>5 DEF SpentInv
  <2>4. kvFailures <= kvFailures' /\ \A p \in Pairs : spentOn[p] <= spentOn'[p]
    BY <2>2, <2>3
  <2> QED
    BY <2>1, <2>3, <2>4 DEF Grows
<1>8. entry.exp \in Nat /\ entry.daily \in BOOLEAN /\ (entry.daily => c.put.name \in Pairs /\ SpentFor(c.put.name, entry.exp))
  <2>1. c.put.daily => c.put.name \in Pairs /\ SpentFor(c.put.name, now + c.put.ttl)
    BY <1>3 DEF PutOK
  <2> QED
    BY <1>3, <1>5, <2>1
<1>9. SpentInv'
  <2>1. ASSUME NEW n \in Names, NEW r \in ToSet(recorded'[n])
        PROVE  r.exp \in Nat /\ r.daily \in BOOLEAN /\ (r.daily => n \in Pairs /\ SpentFor(n, r.exp))
    <3>1. CASE r \in ToSet(recorded[n])
      BY <1>5, <3>1 DEF SpentInv
    <3>2. CASE n = c.put.name /\ r = entry
      BY <1>8, <3>2
    <3> QED
      BY <1>6, <2>1, <3>1, <3>2
  <2>2. \A n \in Names : \A r \in ToSet(recorded'[n]) : r.daily => n \in Pairs /\ SpentFor(n, r.exp)'
    BY <1>4, <2>1 DEF SpentFor
  <2> QED
    BY <1>4, <1>5, <2>1, <2>2 DEF SpentInv, Day
<1>10. \E r \in ToSet(recorded'[c.put.name]) : r.exp <= now' + c.put.ttl /\ (c.put.daily => r.daily)
  <2>1. entry \in ToSet(recorded'[c.put.name]) /\ entry.exp <= now' + c.put.ttl /\ (c.put.daily => entry.daily)
    <3>1. entry \in ToSet(recorded'[c.put.name])
      BY <1>3, <1>6
    <3>2. c.put.daily => entry.daily
      BY <1>3
    <3> QED
      BY <1>3, <1>4, <1>5, <3>1, <3>2
  <2> QED
    BY <2>1
<1>11. now' = now
  BY <1>4
<1> QED
  BY <1>1, <1>2, <1>4, <1>7, <1>9, <1>10, <1>11, PutIsOver

LEMMA WrittenStep ==
  ASSUME CascadeInv, NEW l \in Lanes, Write(l)
  PROVE  StepOf(l)
  BY EnterStep DEF Write

LEMMA RereadFailsStep ==
  ASSUME CascadeInv, NEW l \in Lanes, RereadFails(l), kvFailures' = kvFailures + 1
  PROVE  StepOf(l)
<1>1. PICK c : c = call[l]
  OBVIOUS
<1>2. c.pc \in {"put", "write"} /\ UNCHANGED <<now, spentOn, recorded, nextKey>> /\ kvFailures' = kvFailures + 1 /\ AfterPut(l)
  BY <1>1 DEF RereadFails
<1>3. kvFailures \in Nat /\ nextKey \in [Lanes -> 0 .. KeyCount - 1]
  BY DEF CascadeInv, SpentInv
<1>4. Grows /\ SpentInv'
  BY <1>2, <1>3, SameSpent
<1>5. kvFailures' # 0 /\ now' = now
  BY <1>2, <1>3
<1> QED
  BY <1>1, <1>2, <1>4, <1>5, PutIsOver

LEMMA PutFailsStep ==
  ASSUME CascadeInv, NEW l \in Lanes, PutFails(l)
  PROVE  StepOf(l)
  BY EnterStep, RereadFailsStep DEF PutFails

LEMMA RereadStep ==
  ASSUME CascadeInv, NEW l \in Lanes, Reread(l)
  PROVE  StepOf(l)
<1>1. PICK c : c = call[l]
  OBVIOUS
<1>2. PICK new : new = [c EXCEPT !.pc = "write"]
  OBVIOUS
<1>3. /\ c.pc = "put" /\ Set(l, new) /\ UNCHANGED <<now, spentOn, recorded, nextKey, kvFailures>>
      /\ UnderWay(c) /\ DOMAIN c = CallFields /\ c.result = "none" /\ c.dailyQuota = FALSE
  BY <1>1, <1>2 DEF Reread, CascadeInv, CallOK
<1>4. kvFailures' \in Nat /\ kvFailures <= kvFailures' /\ nextKey' \in [Lanes -> 0 .. KeyCount - 1] /\ now' = now
  BY <1>3 DEF CascadeInv, SpentInv
<1>5. Grows /\ SpentInv'
  BY <1>3, <1>4, SameSpent
<1>6. UnderWay(c)'
  BY <1>3, <1>4, <1>5, StillUnderWay DEF CascadeInv
<1>7. /\ DOMAIN new = CallFields /\ new.pc = "write" /\ new.at = c.at /\ new.start = c.start /\ new.dead = c.dead
      /\ new.tried = c.tried /\ new.badKeys = c.badKeys /\ new.hints = c.hints /\ new.put = c.put
      /\ new.began = c.began /\ new.result = "none" /\ new.dailyQuota = FALSE
  BY <1>2, <1>3 DEF CallFields
<1>8. \A i \in 0 .. new.at - 1 : Covered(new, i)
  BY <1>6, <1>7 DEF UnderWay, Covered, PairAt
<1>9. \A h : HintOK(c, h)' => HintOK(new, h)'
  BY <1>7 DEF HintOK
<1>10. PutOK(new.put)'
  BY <1>3, <1>6, <1>7 DEF UnderWay, PutOK, SpentFor
<1>11. UnderWay(new)'
  BY <1>6, <1>7, <1>8, <1>9, <1>10 DEF UnderWay
<1>12. CallOK(new)'
  BY <1>7, <1>11, OnTheWay
<1> QED
  BY <1>3, <1>5, <1>12, SetCall, Becomes DEF StepOf

-----------------------------------------------------------------------------
(* Every step.                                                              *)

LEMMA AnyStep ==
  ASSUME CascadeInv, NEW l \in Lanes, StepOf(l), MapInv'
  PROVE  CascadeInv'
<1>1. \A k \in Lanes : CallOK(call[k])'
  <2> SUFFICES ASSUME NEW k \in Lanes PROVE CallOK(call[k])'
    OBVIOUS
  <2>1. CASE k = l
    BY <2>1 DEF StepOf
  <2>2. CASE k # l
    BY <2>2, OtherCall DEF StepOf
  <2> QED
    BY <2>1, <2>2
<1> QED
  BY <1>1 DEF CascadeInv, StepOf

LEMMA NewInvocationStep ==
  ASSUME CascadeInv, NEW l \in Lanes, NewInvocation(l), MapInv'
  PROVE  CascadeInv'
<1>1. /\ UNCHANGED <<now, spentOn, recorded, kvFailures>>
      /\ nextKey' \in {nextKey, [nextKey EXCEPT ![InvocationOf(l)] = 0]}
      /\ call' = [other \in Lanes |-> IF InvocationOf(other) = InvocationOf(l) THEN Ended ELSE call[other]]
  BY DEF NewInvocation
<1>2. nextKey' \in [Lanes -> 0 .. KeyCount - 1] /\ kvFailures' \in Nat /\ kvFailures <= kvFailures'
  BY <1>1, Sizes DEF CascadeInv, SpentInv
<1>3. Grows /\ SpentInv'
  BY <1>1, <1>2, SameSpent
<1>4. ASSUME NEW k \in Lanes PROVE CallOK(call[k])'
  <2>1. CASE call'[k] = call[k]
    BY <1>3, <2>1, OtherCall
  <2>2. CASE call'[k] = Ended
    <3>1. PICK c : c = Ended
      OBVIOUS
    <3> QED
      BY <2>2, <3>1, CallRecords, EndedCall
  <2> QED
    BY <1>1, <2>1, <2>2
<1> QED
  BY <1>1, <1>3, <1>4 DEF CascadeInv

LEMMA TickStep ==
  ASSUME CascadeInv, Tick, MapInv'
  PROVE  CascadeInv'
<1>1. now' = now + 1 /\ UNCHANGED <<spentOn, recorded, kvFailures, nextKey, call>> /\ SpentInv
  BY DEF Tick, CascadeInv
<1>2. Grows
  BY <1>1 DEF Grows, SpentInv, Tick
<1>3. \A p \in Pairs : spentOn'[p] <= Day(now)'
  <2>1. Day(now) \in Nat /\ Day(now + 1) \in Nat /\ Day(now) <= Day(now + 1)
    <3>1. now \in Nat /\ now + 1 \in Nat
      BY <1>1 DEF SpentInv
    <3> QED
      BY <3>1, DayFacts
  <2>2. Day(now)' = Day(now + 1)
    BY <1>1 DEF Day
  <2> QED
    BY <1>1, <2>1, <2>2 DEF SpentInv
<1>4. SpentInv'
  BY <1>1, <1>3 DEF SpentInv, SpentFor
<1>5. \A k \in Lanes : CallOK(call[k])'
  BY <1>1, <1>2, OtherCall
<1> QED
  BY <1>1, <1>4, <1>5 DEF CascadeInv

LEMMA CascadeInvStep == CascadeInv /\ [Next]_vars => CascadeInv'
<1> SUFFICES ASSUME CascadeInv, [Next]_vars PROVE CascadeInv'
  OBVIOUS
<1>1. MapInv'
  BY MapStep DEF CascadeInv
<1>2. CASE UNCHANGED vars
  <2>1. SpentInv' /\ UNCHANGED call /\ Grows
    BY <1>2 DEF vars, CascadeInv, SpentInv, SpentFor, Day, Grows
  <2>2. \A k \in Lanes : CallOK(call[k])'
    BY <2>1, OtherCall
  <2> QED
    BY <1>1, <2>1, <2>2 DEF CascadeInv
<1>3. CASE Tick
  BY <1>1, <1>3, TickStep
<1>4. ASSUME NEW l \in Lanes, Begin(l) \/ Look(l) \/ Answer(l) \/ Reread(l) \/ Write(l) \/ PutFails(l)
      PROVE  CascadeInv'
  <2>1. StepOf(l)
    BY <1>4, BeginStep, LookStep, AnswerStep, RereadStep, WrittenStep, PutFailsStep
  <2> QED
    BY <1>1, <2>1, AnyStep
<1>5. ASSUME NEW l \in Lanes, NewInvocation(l)
      PROVE  CascadeInv'
  BY <1>1, <1>5, NewInvocationStep
<1> QED
  BY <1>2, <1>3, <1>4, <1>5 DEF Next

LEMMA CascadeInvInit == Init => CascadeInv
<1> SUFFICES ASSUME Init PROVE CascadeInv
  OBVIOUS
<1>1. MapInv
  BY DEF Init, MapInv, WasPut, NoEntries, NotLoaded, IsHistory, ToSet
<1>2. SpentInv
  <2>1. now = 0 /\ spentOn = [p \in Pairs |-> 0] /\ nextKey = [l \in Lanes |-> 0] /\ kvFailures = 0
        /\ recorded = [n \in Names |-> <<>>]
    BY DEF Init
  <2>2. Day(0) \in Nat
    BY DayFacts
  <2>3. \A n \in Names : ToSet(recorded[n]) = {}
    BY <2>1 DEF ToSet
  <2> QED
    BY <2>1, <2>2, <2>3, Sizes DEF SpentInv
<1>3. \A l \in Lanes : CallOK(call[l])
  <2>1. PICK c : c = Ended
    OBVIOUS
  <2>2. CallOK(c)
    BY <2>1, CallRecords DEF CallOK, ExhaustedOK, ParkedOK
  <2> QED
    BY <2>1, <2>2 DEF Init
<1> QED
  BY <1>1, <1>2, <1>3 DEF CascadeInv, Init

LEMMA CascadeInvariance == Spec => []CascadeInv
  BY CascadeInvInit, CascadeInvStep, PTL DEF Spec

\* A cascade that gave up met all there was to meet (client.js: two nested loops that `break` and
\* `continue` over keys that were refused and models that were retired meanwhile).
THEOREM ExhaustionHolds == Spec => []ExhaustionIsComplete
<1>1. CascadeInv => ExhaustionIsComplete
  BY DEF CascadeInv, CallOK, ExhaustedOK, ExhaustionIsComplete
<1> QED
  BY <1>1, CascadeInvariance, PTL

\* A backtest is parked for the day only when the day's quota is gone, and not past the
\* first cooldown (client.js: cascadeExhaustedError and its dailyQuota).
THEOREM ParkingHolds == Spec => []ParkingIsJustified
<1>1. CascadeInv => ParkingIsJustified
  <2> SUFFICES ASSUME CascadeInv, NEW l \in Lanes, call[l].dailyQuota
               PROVE  /\ \A p \in Pairs : p[1] \notin call[l].dead =>
                            spentOn[p] > 0 /\ call[l].began < spentOn[p] * DayLength + Buffer
                      /\ \/ kvFailures > 0
                         \/ \E p \in Pairs : \E r \in ToSet(recorded[p]) : r.daily /\ r.exp <= now + call[l].hint
    BY DEF ParkingIsJustified
  <2>1. ParkedOK(call[l])
    BY DEF CascadeInv, CallOK
  <2>2. ASSUME NEW p \in Pairs, p[1] \notin call[l].dead
        PROVE  spentOn[p] > 0 /\ call[l].began < spentOn[p] * DayLength + Buffer
    <3>1. SpentFor(p, call[l].began + 1) /\ call[l].began \in Nat
      BY <2>1, <2>2 DEF ParkedOK
    <3>2. spentOn[p] * DayLength + Buffer \in Int
      BY Sizes DEF CascadeInv, SpentInv
    <3> QED
      BY <3>1, <3>2 DEF SpentFor
  <2> QED
    BY <2>1, <2>2 DEF ParkedOK
<1> QED
  BY <1>1, CascadeInvariance, PTL

-----------------------------------------------------------------------------
(* A backtest's copy of the map.                                            *)

LastPut(n) == Last(recorded[n])
Cools(n) == recorded[n] # <<>> /\ IsAlive(LastPut(n))

\* The only writer's copy and the value in KV have the cooldowns that run.
LastInv ==
  exclusive /\ kvFailures = 0 =>
    /\ stored.until \in Int
    /\ \A l \in Lanes :
      LET c == cache[InvocationOf(l)] IN
      /\ DOMAIN c = {"at", "entries"}
      /\ call[l].pc # "done" => c.at >= 0
      /\ \A n \in Names : Cools(n) =>
           /\ stored.entries[n] = LastPut(n) /\ LastPut(n).exp <= stored.until
           /\ c.at >= 0 => c.entries[n] = LastPut(n)

LEMMA OneInvocation ==
  ASSUME exclusive, NEW k \in Lanes, NEW l \in Lanes
  PROVE  InvocationOf(k) = InvocationOf(l)
  BY DEF InvocationOf

LEMMA LastOfLonger ==
  ASSUME NEW puts, IsHistory(puts), NEW entry
  PROVE  Append(puts, entry) # <<>> /\ Last(Append(puts, entry)) = entry
<1>1. puts \in Seq(ToSet(puts) \cup {entry})
  <2>1. Len(puts) \in Nat /\ puts \in [1 .. Len(puts) -> ToSet(puts)]
    BY DEF IsHistory
  <2> QED
    BY <2>1 DEF IsHistory
<1>2. Len(Append(puts, entry)) = Len(puts) + 1 /\ Append(puts, entry)[Len(puts) + 1] = entry /\ Len(puts) \in Nat
  BY <1>1
<1> QED
  BY <1>2 DEF Last

LEMMA EntriesHaveEnds ==
  ASSUME CascadeInv, NEW entries, WasPut(entries, recorded), NEW n \in Names
  PROVE  entries[n].exp \in Nat
  BY DEF CascadeInv, SpentInv, WasPut, NoEntry

LEMMA NamesAreFinite == IsFiniteSet(Names)
<1>1. IsFiniteSet(1 .. ModelCount) /\ IsFiniteSet(0 .. KeyCount)
  BY Sizes, FS_Interval
<1> QED
  BY <1>1, FS_Product DEF Names, Models

\* The value lives until its last entry ends.
LEMMA UntilTheLast ==
  ASSUME now \in Nat, NEW entries, \A n \in Names : entries[n].exp \in Nat
  PROVE  Persisted(entries).until \in Int /\ \A n \in Names : entries[n].exp <= Persisted(entries).until
<1> DEFINE f == [n \in Names |-> entries[n].exp - now]
           lives == {entries[n].exp - now : n \in Names}
           all == {MinTtl} \cup lives
<1>1. IsFiniteSet(lives)
  <2>1. f \in Surjection(Names, lives)
    BY DEF Surjection
  <2> HIDE DEF f, lives
  <2> QED
    BY <2>1, NamesAreFinite, FS_Surjection
<1>2. IsFiniteSet(all)
  <2> HIDE DEF lives
  <2> QED
    BY <1>1, FS_Union, FS_Singleton
<1>3. all \subseteq Int /\ all # {}
  BY DEF MinTtl
<1>4. Max(all) \in Int /\ \A y \in all : Max(all) >= y
  <2> HIDE DEF all
  <2> QED
    BY <1>2, <1>3, GreatestOfFinite
<1>5. Persisted(entries).until = now + Max(all)
  BY DEF Persisted
<1>6. \A n \in Names : entries[n].exp - now \in all
  OBVIOUS
<1> HIDE DEF all
<1> QED
  BY <1>4, <1>5, <1>6

\* What a backtest reads has the cooldowns that run.
LEMMA ReadKeeps ==
  ASSUME CascadeInv, LastInv, exclusive, NEW l \in Lanes, NEW read \in Reads(l), AfterRead(l, read), kvFailures' = 0
  PROVE  /\ kvFailures = 0 /\ read.seen = read.cache.entries /\ read.cache.at >= 0
         /\ DOMAIN read.cache = {"at", "entries"}
         /\ \A n \in Names : Cools(n) => read.seen[n] = LastPut(n)
<1> DEFINE c == cache[InvocationOf(l)]
<1>1. kvFailures \in Nat /\ now \in Nat
  BY DEF CascadeInv, SpentInv
<1>2. read.failed \in {0, 1} /\ kvFailures' = kvFailures + read.failed
  BY DEF Reads, AfterRead
<1>3. kvFailures = 0 /\ read.failed = 0
  BY <1>1, <1>2
<1>4. CASE IsFresh(c) /\ read = [seen |-> c.entries, cache |-> c, failed |-> 0]
  BY <1>3, <1>4 DEF LastInv, IsFresh
<1>5. CASE read = [seen |-> Loaded.entries, cache |-> Loaded, failed |-> 0]
  <2>1. ASSUME NEW n \in Names, Cools(n) PROVE Loaded.entries[n] = LastPut(n)
    <3>1. stored.entries[n] = LastPut(n) /\ LastPut(n).exp <= stored.until /\ now < LastPut(n).exp
      BY <1>3, <2>1 DEF LastInv, Cools, IsAlive
    <3>2. LastPut(n).exp \in Nat
      BY <3>1, EntriesHaveEnds DEF CascadeInv, MapInv
    <3>3. now < stored.until
      BY <1>1, <1>3, <3>1, <3>2 DEF LastInv
    <3> QED
      BY <1>1, <3>1, <3>2, <3>3 DEF Loaded, Alive, IsAlive
  <2>2. Loaded.at >= 0 /\ DOMAIN Loaded = {"at", "entries"}
    BY <1>1 DEF Loaded
  <2> QED
    BY <1>3, <1>5, <2>1, <2>2
<1> QED
  BY <1>3, <1>4, <1>5 DEF Reads

\* Other steps than a write, when the copy stays as it is, or what is stored is read.
LEMMA CopyStays ==
  ASSUME CascadeInv, LastInv, UNCHANGED <<exclusive, stored, recorded>>, now' \in {now, now + 1}, kvFailures' \in Nat,
         kvFailures <= kvFailures',
         exclusive /\ kvFailures' = 0 =>
           \A l \in Lanes :
             /\ DOMAIN cache'[InvocationOf(l)] = {"at", "entries"}
             /\ call'[l].pc # "done" => cache'[InvocationOf(l)].at >= 0
             /\ cache'[InvocationOf(l)].at >= 0 =>
                  \A n \in Names : Cools(n) => cache'[InvocationOf(l)].entries[n] = LastPut(n)
  PROVE  LastInv'
<1> SUFFICES ASSUME exclusive, kvFailures' = 0
             PROVE  /\ stored.until \in Int
                    /\ \A l \in Lanes :
                         LET c == cache'[InvocationOf(l)] IN
                         /\ DOMAIN c = {"at", "entries"}
                         /\ call'[l].pc # "done" => c.at >= 0
                         /\ \A n \in Names : recorded[n] # <<>> /\ LastPut(n).exp > now' =>
                              /\ stored.entries[n] = LastPut(n) /\ LastPut(n).exp <= stored.until
                              /\ c.at >= 0 => c.entries[n] = LastPut(n)
  BY DEF LastInv, Cools, IsAlive, LastPut, InvocationOf
<1>1. kvFailures = 0 /\ now \in Nat
  BY DEF CascadeInv, SpentInv
<1>2. stored.until \in Int
  BY <1>1 DEF LastInv
<1>3. ASSUME NEW l \in Lanes, NEW n \in Names, recorded[n] # <<>>, LastPut(n).exp > now'
      PROVE  Cools(n)
  <2>1. CASE now' = now
    BY <1>3, <2>1 DEF Cools, IsAlive
  <2>2. CASE now' = now + 1
    <3>1. LastPut(n) \in ToSet(recorded[n])
      <4>1. recorded[n] \in Seq(ToSet(recorded[n]))
        BY DEF CascadeInv, MapInv, IsHistory
      <4>2. Len(recorded[n]) \in 1 .. Len(recorded[n])
        BY <1>3, <4>1
      <4> QED
        BY <4>1, <4>2 DEF LastPut, Last, ToSet
    <3>2. LastPut(n).exp \in Nat
      BY <3>1 DEF CascadeInv, SpentInv
    <3> QED
      BY <1>1, <1>3, <2>2, <3>2 DEF Cools, IsAlive
  <2> QED
    BY <2>1, <2>2
<1> QED
  BY <1>1, <1>2, <1>3 DEF LastInv

LEMMA ReadCopy ==
  ASSUME CascadeInv, LastInv, NEW l \in Lanes, NEW read \in Reads(l), AfterRead(l, read),
         UNCHANGED <<now, exclusive, stored, recorded>>
  PROVE  LastInv'
<1>1. kvFailures' \in Nat /\ kvFailures <= kvFailures'
  BY ReadFacts
<1>2. ASSUME exclusive, kvFailures' = 0, NEW k \in Lanes
      PROVE  cache'[InvocationOf(k)] = read.cache
  <2>1. InvocationOf(k) = InvocationOf(l) /\ InvocationOf(l) \in Lanes
    BY <1>2, OneInvocation, FirstLane
  <2> QED
    BY <2>1 DEF AfterRead, CascadeInv, MapInv
<1>3. ASSUME exclusive, kvFailures' = 0
      PROVE  /\ read.cache.at >= 0 /\ DOMAIN read.cache = {"at", "entries"}
             /\ \A n \in Names : Cools(n) => read.cache.entries[n] = LastPut(n)
  BY <1>3, ReadKeeps
<1> QED
  BY <1>1, <1>2, <1>3, CopyStays

LEMMA WriteKeeps ==
  ASSUME CascadeInv, LastInv, NEW l \in Lanes, Write(l)
  PROVE  LastInv'
<1> SUFFICES ASSUME exclusive, kvFailures = 0 PROVE LastInv'
  BY DEF Write, Enter, LastInv
<1>1. PICK c, i, entry, base, new :
        /\ c = call[l] /\ i = InvocationOf(l) /\ entry = [daily |-> c.put.daily, exp |-> now + c.put.ttl]
        /\ base = IF cache[i].at >= 0 THEN cache[i] ELSE Loaded
        /\ new = WithEntry(base.entries, c.put.name, entry)
  OBVIOUS
<1>2. /\ c.pc = "put" /\ cache' = [cache EXCEPT ![i] = [base EXCEPT !.entries = Alive(new)]]
      /\ stored' = Persisted(new)
      /\ recorded' = [recorded EXCEPT ![c.put.name] = Append(@, entry)]
      /\ UNCHANGED <<now, exclusive, kvFailures>>
  BY <1>1 DEF Write, Enter, WithPut
<1>3. c.put.name \in Names /\ c.put.ttl \in Nat /\ now \in Nat /\ entry.exp \in Nat /\ i \in Lanes
  <2>1. PutOK(c.put)
    BY <1>1, <1>2 DEF CascadeInv, CallOK, UnderWay
  <2>2. now \in Nat /\ i \in Lanes
    BY <1>1, FirstLane DEF CascadeInv, SpentInv
  <2> QED
    BY <1>1, <2>1, <2>2 DEF PutOK
<1>4. base = cache[i] /\ base.at >= 0
  BY <1>1, <1>2 DEF LastInv
<1>5. WasPut(base.entries, recorded) /\ \A n \in Names : base.entries[n].exp \in Nat
  BY <1>3, <1>4, EntriesHaveEnds DEF CascadeInv, MapInv
<1>6. \A n \in Names : new[n] = IF n = c.put.name THEN entry ELSE base.entries[n]
  BY <1>1, <1>5 DEF WithEntry, WasPut
<1>7. /\ \A n \in Names : new[n].exp \in Nat
      /\ Persisted(new).until \in Int /\ \A n \in Names : new[n].exp <= Persisted(new).until
  <2>1. \A n \in Names : new[n].exp \in Nat
    BY <1>3, <1>5, <1>6
  <2> QED
    BY <1>3, <2>1, UntilTheLast
<1>8. ASSUME NEW n \in Names, recorded'[n] # <<>>, Last(recorded'[n]).exp > now
      PROVE  new[n] = Last(recorded'[n]) /\ Alive(new)[n] = Last(recorded'[n]) /\ Last(recorded'[n]).exp <= Persisted(new).until
  <2>1. new[n] = Last(recorded'[n])
    <3>1. CASE n = c.put.name
      BY <1>2, <1>3, <1>6, <3>1, LastOfLonger DEF CascadeInv, MapInv
    <3>2. CASE n # c.put.name
      <4>1. recorded'[n] = recorded[n]
        BY <1>2, <3>2 DEF CascadeInv, MapInv
      <4>2. Cools(n)
        BY <1>8, <4>1 DEF Cools, IsAlive, LastPut
      <4> QED
        BY <1>1, <1>4, <1>6, <3>2, <4>1, <4>2 DEF LastInv, LastPut
    <3> QED
      BY <3>1, <3>2
  <2> QED
    BY <1>7, <1>8, <2>1 DEF Alive, IsAlive
<1>9. /\ stored'.until \in Int /\ stored'.entries = Alive(new) /\ stored'.until = Persisted(new).until
      /\ cache'[i].at = base.at /\ cache'[i].entries = Alive(new)
      /\ DOMAIN cache'[i] = {"at", "entries"}
  <2>1. stored'.entries = Alive(new) /\ stored'.until = Persisted(new).until
    BY <1>2 DEF Persisted
  <2>2. cache'[i] = [base EXCEPT !.entries = Alive(new)]
    BY <1>2, <1>3 DEF CascadeInv, MapInv
  <2>3. DOMAIN base = {"at", "entries"}
    BY <1>1, <1>4 DEF LastInv
  <2> QED
    BY <1>7, <2>1, <2>2, <2>3
<1>10. \A k \in Lanes : InvocationOf(k)' = i
  BY <1>1, <1>2 DEF InvocationOf
<1> QED
  BY <1>2, <1>4, <1>8, <1>9, <1>10 DEF LastInv, Cools, IsAlive, LastPut

LEMMA LastInvStep == CascadeInv /\ LastInv /\ [Next]_vars => LastInv'
<1> SUFFICES ASSUME CascadeInv, LastInv, [Next]_vars PROVE LastInv'
  OBVIOUS
<1>0. now \in Nat /\ kvFailures \in Nat /\ DOMAIN cache = Lanes /\ DOMAIN call = Lanes
  BY DEF CascadeInv, SpentInv, MapInv
<1>1. CASE UNCHANGED <<exclusive, stored, recorded, cache, kvFailures>> /\ now' \in {now, now + 1}
           /\ \A l \in Lanes : call[l].pc = "done" => call'[l].pc = "done"
  BY <1>0, <1>1, CopyStays DEF LastInv
<1>2. ASSUME NEW l \in Lanes, Begin(l)
      PROVE  LastInv'
  <2>1. CASE \E read \in Reads(l) : AfterRead(l, read)
    BY <1>2, <2>1, ReadCopy DEF Begin
  <2>2. CASE End(l, "overBudget") /\ UNCHANGED <<cache, kvFailures>>
    <3>1. UNCHANGED <<exclusive, stored, recorded, now>>
      BY <1>2 DEF Begin
    <3>2. \A k \in Lanes : call[k].pc = "done" => call'[k].pc = "done"
      BY <1>0, <2>2, CallRecords DEF End, Set
    <3> QED
      BY <1>1, <2>2, <3>1, <3>2
  <2> QED
    BY <1>2, <2>1, <2>2 DEF Begin
<1>3. ASSUME NEW l \in Lanes, Look(l)
      PROVE  LastInv'
  <2>1. UNCHANGED <<now, exclusive, stored, recorded>> /\ call[l].pc = "look"
    BY <1>3 DEF Look
  <2>2. CASE \E read \in Reads(l) : AfterRead(l, read)
    BY <2>1, <2>2, ReadCopy
  <2>3. CASE UNCHANGED <<cache, kvFailures>>
    <3>1. \A k \in Lanes : call[k].pc = "done" => call'[k].pc = "done"
      BY <1>3, <2>1, LookStep DEF StepOf
    <3> QED
      BY <1>1, <2>1, <2>3, <3>1
  <2> QED
    BY <1>3, <2>2, <2>3 DEF Look
<1>4. ASSUME NEW l \in Lanes, Answer(l)
      PROVE  LastInv'
  <2>1. UNCHANGED <<now, exclusive, stored, recorded, cache, kvFailures>> /\ call[l].pc = "sent"
    BY <1>4 DEF Answer
  <2>2. \A k \in Lanes : call[k].pc = "done" => call'[k].pc = "done"
    BY <1>4, <2>1, AnswerStep DEF StepOf
  <2> QED
    BY <1>1, <2>1, <2>2
<1>5. ASSUME NEW l \in Lanes, Reread(l)
      PROVE  LastInv'
  BY <1>5 DEF Reread, LastInv
<1>6. ASSUME NEW l \in Lanes, PutFails(l)
      PROVE  LastInv'
  <2>1. kvFailures' # 0
    BY <1>0, <1>6 DEF PutFails
  <2> QED
    BY <2>1 DEF LastInv
<1>7. ASSUME NEW l \in Lanes, NewInvocation(l)
      PROVE  LastInv'
  <2>1. /\ UNCHANGED <<now, exclusive, stored, recorded, kvFailures>>
        /\ cache' = [cache EXCEPT ![InvocationOf(l)] = NotLoaded]
        /\ call' = [other \in Lanes |-> IF InvocationOf(other) = InvocationOf(l) THEN Ended ELSE call[other]]
    BY <1>7 DEF NewInvocation
  <2>2. ASSUME exclusive, NEW k \in Lanes
        PROVE  cache'[InvocationOf(k)] = NotLoaded /\ call'[k].pc = "done"
    BY <1>0, <2>1, <2>2, OneInvocation, FirstLane, CallRecords
  <2>3. ~(NotLoaded.at >= 0) /\ DOMAIN NotLoaded = {"at", "entries"}
    BY DEF NotLoaded
  <2> QED
    BY <1>0, <2>1, <2>2, <2>3, CopyStays
<1>8. CASE Tick
  BY <1>1, <1>8 DEF Tick
<1>9. CASE UNCHANGED vars
  BY <1>1, <1>9 DEF vars
<1> QED
  BY <1>2, <1>3, <1>4, <1>5, <1>6, <1>7, <1>8, <1>9, WriteKeeps DEF Next

\* Two calls of a backtest at once, and its parts one after the other, lose no cooldown
\* (cooldown_map_kv.js: one writer, one shared copy).
THEOREM CooldownsAreRespected == Spec => RespectsCooldown
<1> DEFINE Respects ==
             \A l \in Lanes :
               exclusive /\ kvFailures = 0 /\ call[l].pc = "look" /\ call'[l].pc = "sent" =>
                 LET put == recorded[PairAt(call'[l], call'[l].at)] IN put # <<>> => Last(put).exp <= now
<1>1. Init => LastInv
  <2> SUFFICES ASSUME Init PROVE LastInv
    OBVIOUS
  <2>1. /\ stored = [entries |-> NoEntries, until |-> 0] /\ cache = [l \in Lanes |-> NotLoaded]
        /\ call = [l \in Lanes |-> Ended] /\ recorded = [n \in Names |-> <<>>]
    BY DEF Init
  <2> QED
    BY <2>1, CallRecords, FirstLane DEF LastInv, NotLoaded, Cools
<1>2. CascadeInv /\ LastInv /\ [Next]_vars => [Respects]_vars
  <2> SUFFICES ASSUME CascadeInv, LastInv, Next, NEW l \in Lanes, exclusive, kvFailures = 0, call[l].pc = "look",
                      call'[l].pc = "sent", NEW put, put = recorded[PairAt(call'[l], call'[l].at)], put # <<>>
               PROVE  Last(put).exp <= now
    OBVIOUS
  <2>1. Look(l)
    <3>1. ASSUME NEW k \in Lanes, Begin(k) \/ Answer(k) \/ Reread(k) \/ Write(k) \/ PutFails(k)
          PROVE  k # l /\ call'[l] = call[l]
      <4>1. StepOf(k) /\ call[k].pc # "look"
        BY <3>1, BeginStep, AnswerStep, RereadStep, WrittenStep, PutFailsStep
           DEF Begin, Answer, Reread, Write, Enter, PutFails, RereadFails
      <4> QED
        BY <4>1 DEF StepOf
    <3>2. ASSUME NEW k \in Lanes, Look(k), k # l
          PROVE  call'[l] = call[l]
      BY <3>2, LookStep DEF StepOf
    <3>3. ASSUME NEW k \in Lanes, NewInvocation(k)
          PROVE  call'[l] \in {Ended, call[l]}
      BY <3>3 DEF NewInvocation
    <3>4. Ended.pc = "done"
      BY CallRecords
    <3> QED
      BY <3>1, <3>2, <3>3, <3>4 DEF Next, Tick
  <2>2. PICK c, i, pair : c = call[l] /\ i = Position(c) /\ pair = PairAt(c, i)
    OBVIOUS
  <2>3. UnderWay(c) /\ DOMAIN c = CallFields /\ c.pc = "look"
    BY <2>2 DEF CascadeInv, CallOK
  <2>4. i # Total /\ ~EndTransient(l, c, "outOfTime") /\ ~EndTransient(l, c, "capped") /\ ~End(l, "paused")
    <3>1. ASSUME NEW new, Set(l, new), DOMAIN new = CallFields, new.pc # "sent" PROVE FALSE
      BY <3>1, SetCall
    <3>2. \A result : [Ended EXCEPT !.result = result].pc = "done" /\ DOMAIN [Ended EXCEPT !.result = result] = CallFields
      BY CallRecords DEF CallFields
    <3>3. ASSUME NEW result, NEW hint
          PROVE  LET new == [Ended EXCEPT !.result = result, !.transient = TRUE, !.hint = hint] IN
                 new.pc = "done" /\ DOMAIN new = CallFields
      BY CallRecords DEF CallFields
    <3>4. ASSUME EndExhausted(l, c) PROVE FALSE
      <4>1. PICK transient, hint, daily :
              Set(l, [c EXCEPT !.pc = "done", !.result = "exhausted", !.transient = transient, !.hint = hint,
                               !.dailyQuota = daily])
        BY <3>4 DEF EndExhausted
      <4>2. PICK new : new = [c EXCEPT !.pc = "done", !.result = "exhausted", !.transient = transient, !.hint = hint,
                                       !.dailyQuota = daily]
        OBVIOUS
      <4>3. DOMAIN new = CallFields /\ new.pc = "done"
        BY <2>3, <4>2 DEF CallFields
      <4> QED
        BY <3>1, <4>1, <4>2, <4>3
    <3>5. i = Total => EndExhausted(l, c)
      BY <2>1, <2>2 DEF Look
    <3> QED
      BY <3>1, <3>2, <3>3, <3>4, <3>5 DEF End, EndTransient
  <2>5. PICK read \in Reads(l) :
          \/ /\ IsAlive(read.seen[pair])
             /\ Set(l, [Tried(c, pair, read.seen[pair].daily) EXCEPT
                          !.at = i + 1, !.hints = @ \cup {Max({MinTtl, read.seen[pair].exp - now})}])
          \/ /\ ~IsAlive(read.seen[pair])
             /\ Set(l, [c EXCEPT !.pc = "sent", !.at = i, !.sent = @ + 1])
    BY <2>1, <2>2, <2>4 DEF Look
  <2>6. ~IsAlive(read.seen[pair]) /\ Set(l, [c EXCEPT !.pc = "sent", !.at = i, !.sent = @ + 1])
    <3>1. ASSUME NEW at, NEW hints, NEW isDaily,
                 Set(l, [Tried(c, pair, isDaily) EXCEPT !.at = at, !.hints = hints])
          PROVE  FALSE
      <4>1. PICK new : new = [Tried(c, pair, isDaily) EXCEPT !.at = at, !.hints = hints]
        OBVIOUS
      <4>2. new.pc = "look"
        BY <2>3, <4>1 DEF Tried, CallFields
      <4> QED
        BY <3>1, <4>1, <4>2, SetCall
    <3> QED
      BY <2>5, <3>1
  <2>7. pair \in Pairs /\ pair = PairAt(call'[l], call'[l].at)
    <3>1. PICK new : new = [c EXCEPT !.pc = "sent", !.at = i, !.sent = @ + 1]
      OBVIOUS
    <3>2. new.at = i /\ new.start = c.start
      BY <2>3, <3>1 DEF CallFields
    <3>3. call'[l] = new
      BY <2>6, <3>1, SetCall
    <3>4. PairAt(new, i) = pair
      BY <2>2, <3>2 DEF PairAt
    <3>5. i \in 0 .. Total - 1 /\ c.start \in 0 .. KeyCount - 1
      <4>1. c.at \in 0 .. Total
        BY <2>3 DEF UnderWay
      <4>2. i \in c.at .. Total
        BY <2>2, <4>1, PositionFacts
      <4> QED
        BY <2>3, <2>4, <4>1, <4>2, Sizes DEF UnderWay
    <3> QED
      BY <2>2, <3>2, <3>3, <3>4, <3>5, AttemptIsPair
  <2>8. read.seen = cache[InvocationOf(l)].entries
    <3>1. IsFresh(cache[InvocationOf(l)])
      BY DEF LastInv, IsFresh
    <3> QED
      BY <3>1 DEF Reads
  <2>9. put = recorded[pair] /\ pair \in Names
    BY <2>7, PairsAreNames
  <2>10. Cools(pair) => read.seen[pair] = LastPut(pair)
    BY <2>5, <2>8, <2>9 DEF LastInv
  <2>11. Last(put).exp \in Nat /\ now \in Nat
    <3>1. put \in Seq(ToSet(put)) /\ now \in Nat
      BY <2>9 DEF CascadeInv, SpentInv, MapInv, IsHistory
    <3>2. Last(put) \in ToSet(put)
      <4>1. Len(put) \in 1 .. Len(put)
        BY <3>1
      <4> QED
        BY <3>1, <4>1 DEF Last, ToSet
    <3> QED
      BY <2>9, <3>1, <3>2 DEF CascadeInv, SpentInv
  <2> QED
    BY <2>6, <2>9, <2>10, <2>11 DEF Cools, LastPut, IsAlive
<1>3. CascadeInv /\ LastInv /\ [Next]_vars => LastInv'
  BY LastInvStep
<1> HIDE DEF Respects
<1>4. Spec => [][Respects]_vars
  BY <1>1, <1>2, <1>3, CascadeInvariance, PTL DEF Spec
<1> QED
  BY <1>4 DEF RespectsCooldown, Respects
=============================================================================

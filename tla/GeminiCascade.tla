--------------------------- MODULE GeminiCascade ---------------------------
(***************************************************************************)
(* One structured call of an agent: the cascade over models and keys       *)
(* (llm/gemini/client.js), the cooldowns it respects and records           *)
(* (shared/cooldown.js), kept for all Workers in one KV value that is read *)
(* and written back as a whole (shared/cooldown_map_kv.js), and what the   *)
(* caller sees of it (agents/utils/structured.js).                         *)
(*                                                                         *)
(* A backtest part is one invocation with two calls at a time (bull and    *)
(* bear), the only writer of its KV namespace; live messages are           *)
(* invocations that share theirs.  Time is in minutes, the shortest life   *)
(* KV gives a value; it passes while a request is out, not during a KV     *)
(* operation.  Models are numbered in the order they are tried, keys from  *)
(* 0; name <<m, KeyCount>> stands for "dead-<model m>".                    *)
(***************************************************************************)
EXTENDS Integers, FiniteSets, FiniteSetsExt, Sequences, SequencesExt

CONSTANTS
  ModelCount, KeyCount,
  Lanes,          \* calls that may be under way at the same time
  MaxCascade,     \* MAX_CASCADE_MS
  MaxAttempts,    \* MAX_ATTEMPTS_UNDER_BUDGET
  Refresh,        \* the age at which a live Worker reads the map again
  DeadFor,        \* DEAD_MODEL_COOLDOWN_SECONDS
  DayLength, Buffer,  \* quotas are reset at the multiples of DayLength
  Delays,         \* "retry in ..." of a 429
  MaxLlmCalls,    \* BACKTEST_MAX_LLM_CALLS
  MaxCalls, MaxRequests, MaxTime, MaxKvFailures   \* bounds: calls, requests, time, failing KV operations

ASSUME CascadeAssumption ==
  /\ {ModelCount, KeyCount, MaxCascade, MaxAttempts, Refresh, DeadFor, DayLength, MaxLlmCalls} \subseteq Nat \ {0}
  /\ Delays \subseteq Nat \ {0} /\ {Buffer, MaxCalls, MaxRequests, MaxTime, MaxKvFailures} \subseteq Nat
  /\ Lanes \subseteq Nat /\ \E first \in Lanes : \A other \in Lanes : first <= other

Models == 1 .. ModelCount
Pairs == Models \X (0 .. KeyCount - 1)
Names == Models \X (0 .. KeyCount)
DeadName(m) == <<m, KeyCount>>
MinTtl == 1
DefaultCooldown == 1

VARIABLES
  now,
  exclusive,  \* a backtest (one invocation, both lanes) or live messages (one each)
  spentOn,    \* per pair, the last day on which its daily quota was used up
  stored,     \* the KV value: its entries, and the time at which it expires
  cache,      \* per invocation, its copy of the map
  nextKey,    \* nextKeyStartIndex of the isolate
  llmUsed,    \* the run's llmBudget
  call,       \* per lane
  calls,      \* how many calls began
  requests,   \* how many requests were sent
  recorded,   \* history: per name, the cooldowns that were entered in a copy of the map, in their order
  kvFailures

vars == <<now, exclusive, spentOn, stored, cache, nextKey, llmUsed, call, calls, requests, recorded, kvFailures>>

-----------------------------------------------------------------------------
(* The map of cooldowns.  An entry has the time it expires.                 *)

NoEntry == [daily |-> FALSE, exp |-> 0]
NoEntries == [n \in Names |-> NoEntry]
IsAlive(entry) == entry.exp > now
Alive(entries) == [n \in Names |-> IF IsAlive(entries[n]) THEN entries[n] ELSE NoEntry]
Persisted_ShortTtl(entries) == [entries |-> Alive(entries), until |-> now + MinTtl]
\* persist: the value lives as long as its longest entry.
Persisted(entries) ==
  [entries |-> Alive(entries), until |-> now + Max({MinTtl} \cup {entries[n].exp - now : n \in Names})]
Loaded == [at |-> now, entries |-> IF now < stored.until THEN Alive(stored.entries) ELSE NoEntries]
NotLoaded == [at |-> -1, entries |-> NoEntries]
InvocationOf(l) == IF exclusive THEN CHOOSE first \in Lanes : \A other \in Lanes : first <= other ELSE l
IsFresh(c) == c.at >= 0 /\ (exclusive \/ now - c.at < Refresh)

\* getCooldown in lane l: FailsOpen when KV does.
Reads(l) ==
  LET c == cache[InvocationOf(l)] IN
  IF IsFresh(c) THEN {[seen |-> c.entries, cache |-> c, failed |-> 0]}
  ELSE {[seen |-> Loaded.entries, cache |-> Loaded, failed |-> 0]}
       \cup (IF kvFailures < MaxKvFailures THEN {[seen |-> NoEntries, cache |-> c, failed |-> 1]} ELSE {})
AfterRead(l, read) ==
  cache' = [cache EXCEPT ![InvocationOf(l)] = read.cache] /\ kvFailures' = kvFailures + read.failed

-----------------------------------------------------------------------------
(* The cascade: from a key that rotates, every model on a key before the    *)
(* next key.  at numbers these attempts; Total is past the last.            *)

Total == ModelCount * KeyCount
ModelAt(i) == (i % ModelCount) + 1
PairAt(c, i) == <<ModelAt(i), (c.start + (i \div ModelCount)) % KeyCount>>
\* Models known to be retired are passed over.
Position(c) == Min({i \in c.at .. Total : i = Total \/ ModelAt(i) \notin c.dead})
NextKeyAt(i) == ((i \div ModelCount) + 1) * ModelCount

NoPut == [name |-> <<0, 0>>, ttl |-> 0, daily |-> FALSE]
NewCall ==
  [pc |-> "look", at |-> 0, start |-> 0, dead |-> {}, tried |-> {}, badKeys |-> {}, hints |-> {}, real |-> "none",
   sent |-> 0, began |-> 0, put |-> NoPut, result |-> "none", transient |-> FALSE, dailyQuota |-> FALSE, hint |-> 0]

Ended == [NewCall EXCEPT !.pc = "done"]
Set(l, c) == call' = [call EXCEPT ![l] = c]
End(l, result) == Set(l, [Ended EXCEPT !.result = result])
\* No error without something to wait for: the soonest cooldown met, one minute at least.
RetryAfter(hints) == IF hints = {} THEN DefaultCooldown ELSE Max({DefaultCooldown, Min(hints)})
EndTransient(l, c, result) ==
  Set(l, [Ended EXCEPT !.result = result, !.transient = TRUE, !.hint = RetryAfter(c.hints)])
\* cascadeExhaustedError stands for the last error a request had, or for the cooldowns.
AllDaily_Any(c) == \E a \in c.tried : a.daily
AllDaily(c) == c.tried # {} /\ \A a \in c.tried : a.daily
EndExhausted(l, c) ==
  LET transient == c.real # "hard" /\ c.tried # {} IN
  Set(l, [c EXCEPT !.pc = "done", !.result = "exhausted", !.transient = transient,
                   !.hint = IF transient THEN RetryAfter(c.hints) ELSE 0,
                   !.dailyQuota = transient /\ AllDaily(c)])
Tried(c, pair, isDaily) == [c EXCEPT !.tried = @ \cup {[pair |-> pair, daily |-> isDaily]}]

-----------------------------------------------------------------------------

\* chargeLlmCall, then the models an earlier call found retired; if that is all of them
\* the marks are ignored.
KnownDead_AllTrusted(seen) == {m \in Models : IsAlive(seen[DeadName(m)])}
KnownDead(seen) ==
  LET marked == {m \in Models : IsAlive(seen[DeadName(m)])} IN IF marked = Models THEN {} ELSE marked
Begin(l) ==
  /\ call[l].pc = "done" /\ calls < MaxCalls
  /\ IF exclusive /\ llmUsed >= MaxLlmCalls
     THEN End(l, "overBudget") /\ UNCHANGED <<cache, nextKey, llmUsed, calls, kvFailures>>
     ELSE LET i == InvocationOf(l) IN
          /\ \E read \in Reads(l) :
               /\ Set(l, [NewCall EXCEPT !.start = nextKey[i], !.began = now, !.dead = KnownDead(read.seen)])
               /\ AfterRead(l, read)
          /\ nextKey' = [nextKey EXCEPT ![i] = (@ + 1) % KeyCount]
          /\ llmUsed' = llmUsed + (IF exclusive THEN 1 ELSE 0)
          /\ calls' = calls + 1
  /\ UNCHANGED <<now, exclusive, spentOn, stored, requests, recorded>>

\* Time is up, the attempts of a backtest call are, or a pair is cooling; otherwise a
\* request is sent, unless the invocation's budget refuses it (the part then pauses).
Look(l) ==
  LET c == call[l]
      i == Position(c)
      pair == PairAt(c, i)
  IN
  /\ c.pc = "look"
  /\ IF i = Total THEN EndExhausted(l, c) /\ UNCHANGED <<cache, requests, kvFailures>>
     ELSE IF now - c.began >= MaxCascade THEN EndTransient(l, c, "outOfTime") /\ UNCHANGED <<cache, requests, kvFailures>>
     ELSE IF exclusive /\ c.sent >= MaxAttempts THEN EndTransient(l, c, "capped") /\ UNCHANGED <<cache, requests, kvFailures>>
     ELSE \E read \in Reads(l) :
            /\ AfterRead(l, read)
            /\ LET entry == read.seen[pair] IN
               IF IsAlive(entry)
               THEN /\ Set(l, [Tried(c, pair, entry.daily) EXCEPT !.at = i + 1, !.hints = @ \cup {Max({MinTtl, entry.exp - now})}])
                    /\ UNCHANGED requests
               ELSE \/ /\ requests < MaxRequests
                       /\ Set(l, [c EXCEPT !.pc = "sent", !.at = i, !.sent = @ + 1])
                       /\ requests' = requests + 1
                    \/ exclusive /\ End(l, "paused") /\ UNCHANGED requests
  /\ UNCHANGED <<now, exclusive, spentOn, stored, nextKey, llmUsed, calls, recorded>>

Day(t) == (t \div DayLength) + 1
DailyCooldown(t) == Day(t) * DayLength - t + Buffer
Cool(c, pair, ttl, isDaily) ==
  [Tried(c, pair, isDaily) EXCEPT !.pc = "put", !.at = @ + 1, !.real = "soft", !.hints = @ \cup {ttl},
                                  !.put = [name |-> pair, ttl |-> Max({MinTtl, ttl}), daily |-> isDaily]]

\* What the vendor may answer.  A pair whose quota is used up says so, or is taken for one
\* that is only asked too often (classifyRateLimit).
Answer(l) ==
  LET c == call[l]
      pair == PairAt(c, c.at)
      m == ModelAt(c.at)
      isSpent == spentOn[pair] = Day(now)
  IN
  /\ c.pc = "sent"
  /\ \/ /\ ~isSpent
        /\ \E result \in {"ok", "unusable", "refused"} : End(l, result)
        /\ UNCHANGED spentOn
     \/ /\ Set(l, Cool(c, pair, DailyCooldown(now), TRUE))
        /\ spentOn' = [spentOn EXCEPT ![pair] = Day(now)]
     \/ \E ttl \in Delays \cup {DefaultCooldown} : Set(l, Cool(c, pair, ttl, FALSE)) /\ UNCHANGED spentOn
     \/ \* A blip (5xx, not 503) is not remembered.
        /\ Set(l, [Tried(c, pair, FALSE) EXCEPT !.pc = "look", !.at = @ + 1, !.real = "soft", !.hints = @ \cup {DefaultCooldown}])
        /\ UNCHANGED spentOn
     \/ \* 401, 403: the rest of the key's models would fail alike.
        /\ Set(l, [Tried(c, pair, FALSE) EXCEPT !.pc = "look", !.at = NextKeyAt(@), !.real = "hard", !.badKeys = @ \cup {pair[2]}])
        /\ UNCHANGED spentOn
     \/ \* 404: the model is passed over from here on.
        /\ Set(l, [Tried(c, pair, FALSE) EXCEPT !.pc = "put", !.at = @ + 1, !.real = "hard", !.dead = @ \cup {m},
                                                !.put = [name |-> DeadName(m), ttl |-> DeadFor, daily |-> FALSE]])
        /\ UNCHANGED spentOn
  /\ UNCHANGED <<now, exclusive, stored, cache, nextKey, llmUsed, calls, requests, recorded, kvFailures>>

AfterPut(l) ==
  LET c == [call[l] EXCEPT !.pc = "look", !.put = NoPut] IN
  IF c.dead = Models THEN End(l, "refused") ELSE Set(l, c)

\* A live put first reads the map again.
Reread(l) ==
  /\ ~exclusive /\ call[l].pc = "put"
  /\ cache' = [cache EXCEPT ![InvocationOf(l)] = Loaded]
  /\ Set(l, [call[l] EXCEPT !.pc = "write"])
  /\ UNCHANGED <<now, exclusive, spentOn, stored, nextKey, llmUsed, calls, requests, recorded, kvFailures>>

\* The whole map is written back, with what was put.
WithEntry_AllRenewed(entries, name, entry) ==
  [n \in Names |-> IF n = name \/ IsAlive(entries[n]) THEN entry ELSE NoEntry]
WithEntry(entries, name, entry) == [entries EXCEPT ![name] = entry]
WithPut(l) ==
  LET put == call[l].put
      i == InvocationOf(l)
      base == IF cache[i].at >= 0 THEN cache[i] ELSE Loaded
      entry == [daily |-> put.daily, exp |-> now + put.ttl]
  IN  [base |-> base, entry |-> entry, entries |-> WithEntry(base.entries, put.name, entry)]
\* Before the map is stored, the invocation's own copy has the entry.
Enter(l) ==
  /\ call[l].pc = (IF exclusive THEN "put" ELSE "write")
  /\ cache' = [cache EXCEPT ![InvocationOf(l)] = [WithPut(l).base EXCEPT !.entries = Alive(WithPut(l).entries)]]
  /\ recorded' = [recorded EXCEPT ![call[l].put.name] = Append(@, WithPut(l).entry)]
  /\ AfterPut(l)
  /\ UNCHANGED <<now, exclusive, spentOn, nextKey, llmUsed, calls, requests>>
Write(l) ==
  /\ Enter(l)
  /\ stored' = Persisted(WithPut(l).entries)
  /\ UNCHANGED kvFailures

\* A put that fails is given up: kv.get does, with nothing entered, or kv.put, and a later
\* put of the invocation may still store what this one entered.
RereadFails(l) ==
  /\ call[l].pc = "put" /\ (exclusive => cache[InvocationOf(l)].at < 0)
  /\ AfterPut(l)
  /\ UNCHANGED <<now, exclusive, spentOn, cache, nextKey, llmUsed, calls, requests, recorded>>
PutFails(l) ==
  /\ kvFailures < MaxKvFailures /\ kvFailures' = kvFailures + 1
  /\ RereadFails(l) \/ Enter(l)
  /\ UNCHANGED stored

\* The next part, or message: a new copy of the map and a new counter, and a new rotation
\* when the isolate is new too.
NewInvocation(l) ==
  /\ \A other \in Lanes : InvocationOf(other) = InvocationOf(l) => call[other].pc = "done"
  /\ cache[InvocationOf(l)].at >= 0
  /\ cache' = [cache EXCEPT ![InvocationOf(l)] = NotLoaded]
  /\ llmUsed' = 0
  /\ nextKey' \in {nextKey, [nextKey EXCEPT ![InvocationOf(l)] = 0]}
  /\ call' = [other \in Lanes |-> IF InvocationOf(other) = InvocationOf(l) THEN Ended ELSE call[other]]
  /\ UNCHANGED <<now, exclusive, spentOn, stored, calls, requests, recorded, kvFailures>>

Tick ==
  /\ now < MaxTime /\ \A l \in Lanes : call[l].pc \in {"sent", "done"}
  /\ now' = now + 1
  /\ UNCHANGED <<exclusive, spentOn, stored, cache, nextKey, llmUsed, call, calls, requests, recorded, kvFailures>>

Init ==
  /\ now = 0 /\ exclusive \in BOOLEAN
  /\ spentOn = [p \in Pairs |-> 0]
  /\ stored = [entries |-> NoEntries, until |-> 0] /\ cache = [l \in Lanes |-> NotLoaded]
  /\ nextKey = [l \in Lanes |-> 0] /\ llmUsed = 0
  /\ call = [l \in Lanes |-> Ended] /\ calls = 0 /\ requests = 0
  /\ recorded = [n \in Names |-> <<>>] /\ kvFailures = 0

Next == Tick \/ \E l \in Lanes : Begin(l) \/ Look(l) \/ Answer(l) \/ Reread(l) \/ Write(l) \/ PutFails(l) \/ NewInvocation(l)

Spec == Init /\ [][Next]_vars

-----------------------------------------------------------------------------
(* Properties.                                                              *)

\* A cascade that ends exhausted met every key with every model that is not retired, a
\* key that was refused (401, 403) excepted, wherever the rotation began; and no call
\* fails for retired models alone without having asked one.
ExhaustionIsComplete ==
  \A l \in Lanes :
    LET c == call[l] IN
    c.result = "exhausted" =>
      /\ c.tried # {}
      /\ \A p \in Pairs : p[1] \notin c.dead /\ p[2] \notin c.badKeys => \E a \in c.tried : a.pair = p

\* An error that tells a backtest to park for the day tells the truth: the quota of every
\* pair that could be asked was used up that day, and the time it names reaches the end of
\* one of the cooldowns, so that the run is not resumed in vain.
ParkingIsJustified ==
  \A l \in Lanes :
    LET c == call[l] IN
    c.dailyQuota =>
      /\ \A p \in Pairs : p[1] \notin c.dead => spentOn[p] > 0 /\ c.began < spentOn[p] * DayLength + Buffer
      /\ kvFailures > 0 \/ \E p \in Pairs : \E r \in ToSet(recorded[p]) : r.daily /\ r.exp <= now + c.hint

\* Writers that race may lose a cooldown, but never make one up or prolong one.
NoInventedCooldown ==
  \A n \in Names :
    /\ IsAlive(stored.entries[n]) => stored.entries[n] \in ToSet(recorded[n])
    /\ \A l \in Lanes : IsAlive(cache[l].entries[n]) => cache[l].entries[n] \in ToSet(recorded[n])

\* A backtest, the only writer, asks no pair while the cooldown that it put last for it has
\* not run out: none is lost between two calls that run at the same time, or between two parts.
RespectsCooldown ==
  [][\A l \in Lanes :
       exclusive /\ kvFailures = 0 /\ call[l].pc = "look" /\ call'[l].pc = "sent" =>
         LET put == recorded[PairAt(call'[l], call'[l].at)] IN put # <<>> => Last(put).exp <= now]_vars
=============================================================================

-------------------------- MODULE NewsInputs_proofs --------------------------
(***************************************************************************)
(* For any watchlist, articles, feeds, batches and number of invocations,  *)
(* with the backfill writing the same rows: a filing is analysed at most   *)
(* once, none is forgotten, and a backfill that reports its range complete *)
(* has stored it.                                                          *)
(*                                                                         *)
(* What makes the first two so is that a filing is fresh to one invocation *)
(* only, the one whose transaction filed it, and that it stays with that   *)
(* invocation until it is sent or given up: FreshIsOwned and FreshIsUnsent. *)
(* The last rests on what each part claims when it hands over (PartOK): the *)
(* windows before its own are stored unless a refusal or a cut was counted. *)
(* That claim only grows truer, so a part may be delivered any number of times. *)
(***************************************************************************)
EXTENDS NewsInputs, SequenceTheorems, FiniteSetTheorems, WellFoundedInduction, TLAPS

Entries == [id : Articles, tickers : SUBSET Tickers]
Switches == [ingestion : BOOLEAN, analysis : BOOLEAN, off : SUBSET Tickers]
InvocationType ==
  [pc : {"idle", "next", "save", "send"}, msgs : Seq(Tickers \cup {"feeds"}), batch : Nat, flags : Switches,
   off : SUBSET (Tickers \cup {"unread"}), list : SUBSET Entries, fresh : SUBSET Pair]

LiveTypeOK ==
  /\ analyze \in [Pair -> Nat] /\ switches \in Switches
  /\ inv \in [Invocations -> InvocationType] /\ batches \in Nat

\* An invocation that works has a message; between two messages it holds nothing; every
\* article of a ticker's job is one that is to be filed under that ticker.
WellFormed(i) ==
  /\ i.pc # "idle" => i.msgs # <<>>
  /\ i.pc \in {"idle", "next"} => i.fresh = {}
  /\ i.pc = "save" /\ Head(i.msgs) # "feeds" => \A e \in i.list : Head(i.msgs) \in e.tickers

FiledIsStored == \A p \in filed : p[1] \in articles
FiledIsTyped == \A p \in filed : p \in Pair \/ IsGivenUp(p)
SentIsFiled == \A p \in Pair : analyze[p] # 0 => p \in filed
FreshIsUnsent == \A w \in Invocations : \A p \in inv[w].fresh : p \in filed /\ analyze[p] = 0
FreshIsOwned == \A v, w \in Invocations : v # w => inv[v].fresh \cap inv[w].fresh = {}

\* What the history has of a filing that is fresh to an invocation: it made it, with this
\* batch and these flags, by a feed or by a query for the ticker itself.
IsNoteOf(f, p, i) ==
  /\ f.pair = p /\ f.by = Head(i.msgs) /\ f.batch = i.batch /\ f.analysis = i.flags.analysis
  /\ Head(i.msgs) = "feeds" \/ p[2] = Head(i.msgs)
FreshIsNoted == \A w \in Invocations : \A p \in inv[w].fresh : \E f \in history.filings : IsNoteOf(f, p, inv[w])
IsOffNoted(off) == off = Unread \/ off \subseteq history.off
SwitchesAreNoted == switches.off \subseteq history.off /\ \A w \in Invocations : IsOffNoted(inv[w].off)
IsHistory(h) == h = [filings |-> h.filings, broken |-> h.broken, refused |-> h.refused, off |-> h.off]
HistoryInv == IsHistory(history) /\ FreshIsNoted /\ SwitchesAreNoted

IngestInv ==
  /\ HistoryInv /\ LiveTypeOK /\ \A w \in Invocations : WellFormed(inv[w])
  /\ FiledIsStored /\ FiledIsTyped /\ SentIsFiled /\ FreshIsUnsent /\ FreshIsOwned
  /\ AnalyzedOnce /\ NothingStranded

-----------------------------------------------------------------------------
(* Steps of one invocation.                                                 *)

\* The history only grows, and what was given up stays so.
HistoryGrows ==
  /\ IsHistory(history') /\ history.filings \subseteq history'.filings /\ history.broken \subseteq history'.broken
  /\ history.refused \subseteq history'.refused /\ history.off \subseteq history'.off

LEMMA GivenUpStays ==
  ASSUME HistoryGrows, NEW p, IsGivenUp(p)
  PROVE  IsGivenUp(p)'
<1>1. PICK f \in history.filings : f.pair = p /\ (IsFiledOnly(f) \/ IsUnwanted(f) \/ IsBroken(f))
  BY DEF IsGivenUp
<1>2. f \in history'.filings /\ (IsUnwanted(f) => IsUnwanted(f)') /\ (IsBroken(f) => IsBroken(f)')
  BY <1>1 DEF HistoryGrows, IsUnwanted, IsBroken
<1>3. QED  BY <1>1, <1>2 DEF IsGivenUp, IsFiledOnly

LEMMA SameHistory == IngestInv /\ UNCHANGED history => HistoryGrows
  BY DEF IngestInv, HistoryInv, IsHistory, HistoryGrows

\* An invocation that goes on with its job, or lets go of all that it holds, keeps the notes.
IsSameJob(i, old) == i.msgs = old.msgs /\ i.batch = old.batch /\ i.flags = old.flags

\* A step that stores and sends nothing, and gives up what it lets go of.
LEMMA LetsGo ==
  ASSUME IngestInv, NEW w \in Invocations, NEW i \in InvocationType,
         inv' = [inv EXCEPT ![w] = i], WellFormed(i), i.fresh \subseteq inv[w].fresh,
         i.fresh = {} \/ IsSameJob(i, inv[w]), IsOffNoted(i.off),
         \A p \in inv[w].fresh : p \in i.fresh \/ IsGivenUp(p)',
         HistoryGrows, batches' \in Nat, UNCHANGED <<storeVars, analyze, switches>>
  PROVE  IngestInv'
<1> USE DEF storeVars
<1>1. /\ inv'[w] = i
      /\ \A v \in Invocations \ {w} : inv'[v] = inv[v]
  BY DEF IngestInv, LiveTypeOK
<1>2. LiveTypeOK' /\ \A v \in Invocations : WellFormed(inv'[v])
  BY <1>1 DEF IngestInv, LiveTypeOK
<1>3. \A p : IsGivenUp(p) => IsGivenUp(p)'
  BY GivenUpStays
<1>4. FiledIsStored' /\ FiledIsTyped' /\ SentIsFiled' /\ AnalyzedOnce'
  BY <1>3 DEF IngestInv, FiledIsStored, FiledIsTyped, SentIsFiled, AnalyzedOnce
<1>5. \A v \in Invocations : inv'[v].fresh \subseteq inv[v].fresh
  BY <1>1
<1>6. FreshIsUnsent' /\ FreshIsOwned'
  BY <1>5 DEF IngestInv, FreshIsUnsent, FreshIsOwned
<1>7. NothingStranded'
  BY <1>1, <1>3 DEF IngestInv, NothingStranded, IsSent, IsHeld
<1>8. FreshIsNoted'
  <2> SUFFICES ASSUME NEW v \in Invocations, NEW p \in inv'[v].fresh
               PROVE  \E f \in history'.filings : IsNoteOf(f, p, inv'[v])
    BY DEF FreshIsNoted
  <2>1. p \in inv[v].fresh
    BY <1>5
  <2>2. PICK f \in history.filings : IsNoteOf(f, p, inv[v])
    BY <2>1 DEF IngestInv, HistoryInv, FreshIsNoted
  <2>3. IsNoteOf(f, p, inv'[v])
    BY <1>1, <2>2 DEF IsNoteOf, IsSameJob
  <2>4. QED  BY <2>2, <2>3 DEF HistoryGrows
<1>9. SwitchesAreNoted'
  BY <1>1 DEF IngestInv, HistoryInv, SwitchesAreNoted, IsOffNoted, HistoryGrows
<1>10. QED  BY <1>2, <1>4, <1>6, <1>7, <1>8, <1>9 DEF IngestInv, HistoryInv, WellFormed, HistoryGrows

LEMMA LongTail ==
  ASSUME NEW S, NEW s \in Seq(S), s # <<>>, Len(s) # 1
  PROVE  Tail(s) \in Seq(S) /\ Tail(s) # <<>>
<1>1. Len(s) \in Nat /\ Len(s) # 0
  BY EmptySeq, LenProperties
<1>2. Tail(s) \in Seq(S) /\ Len(Tail(s)) = Len(s) - 1
  BY HeadTailProperties
<1>3. Len(Tail(s)) # 0
  BY <1>1, <1>2
<1>4. QED  BY <1>2, <1>3, EmptySeq

\* message.ack leaves a well-formed invocation, and one that holds nothing.
LEMMA AckedType ==
  ASSUME IngestInv, NEW w \in Invocations, inv[w].pc # "idle"
  PROVE  /\ Acked(w) \in InvocationType /\ WellFormed(Acked(w)) /\ Acked(w).fresh = {}
         /\ IsOffNoted(Acked(w).off)
<1>1. inv[w] \in InvocationType /\ inv[w].msgs # <<>>
  BY DEF IngestInv, LiveTypeOK, WellFormed
<1>2. Idle \in InvocationType /\ WellFormed(Idle) /\ Idle.fresh = {}
  BY DEF Idle, InvocationType, WellFormed, Switches, AllOn, Unread
<1>3. Len(inv[w].msgs) # 1 => Tail(inv[w].msgs) \in Seq(Tickers \cup {"feeds"}) /\ Tail(inv[w].msgs) # <<>>
  BY <1>1, LongTail DEF InvocationType
<1>4. IsOffNoted(inv[w].off) /\ IsOffNoted(Idle.off)
  BY DEF IngestInv, HistoryInv, SwitchesAreNoted, IsOffNoted, Idle
<1>5. QED  BY <1>1, <1>2, <1>3, <1>4 DEF Acked, InvocationType, WellFormed

LEMMA ReadsType ==
  ASSUME NEW value, NEW open, NEW read \in Reads(value, open)
  PROVE  read[1] \in {value, open}
BY DEF Reads

\* The tickers that a message finds switched off have been switched off.
LEMMA DisabledIsNoted ==
  ASSUME IngestInv, NEW w \in Invocations, NEW read \in Disabled(w)
  PROVE  read[1] \subseteq history.off /\ read[1] \in SUBSET (Tickers \cup {"unread"})
<1>1. CASE inv[w].off = Unread
  <2>1. read[1] \in {switches.off, {}}
    BY <1>1, ReadsType DEF Disabled
  <2>2. QED  BY <2>1 DEF IngestInv, HistoryInv, SwitchesAreNoted, LiveTypeOK, Switches
<1>2. CASE inv[w].off # Unread
  <2>1. read[1] = inv[w].off
    BY <1>2 DEF Disabled
  <2>2. QED  BY <1>2, <2>1 DEF IngestInv, HistoryInv, SwitchesAreNoted, IsOffNoted, LiveTypeOK, InvocationType
<1>3. QED  BY <1>1, <1>2

LEMMA DeliverStep == IngestInv /\ (\E w \in Invocations : Deliver(w)) => IngestInv'
<1> SUFFICES ASSUME IngestInv, NEW w \in Invocations, Deliver(w) PROVE IngestInv'
  OBVIOUS
<1>1. PICK msgs \in Batches, read \in Reads(switches, [switches EXCEPT !.ingestion = TRUE, !.analysis = TRUE]) :
        Set(w, [Idle EXCEPT !.pc = "next", !.msgs = msgs, !.batch = batches', !.flags = read[1]])
  BY DEF Deliver
<1> DEFINE i == [Idle EXCEPT !.pc = "next", !.msgs = msgs, !.batch = batches', !.flags = read[1]]
<1>2. read[1] \in Switches
  <2> DEFINE open == [switches EXCEPT !.ingestion = TRUE, !.analysis = TRUE]
  <2>1. switches \in Switches /\ open \in Switches
    BY DEF IngestInv, LiveTypeOK, Switches
  <2>2. read[1] \in {switches, open}
    BY <1>1, ReadsType
  <2>3. QED  BY <2>1, <2>2
<1>3. msgs \in Seq(Tickers \cup {"feeds"}) /\ msgs # <<>>
  BY LiveAssumption
<1>4. batches' \in Nat
  BY DEF Deliver, IngestInv, LiveTypeOK
<1>5. i \in InvocationType /\ WellFormed(i) /\ i.fresh = {} /\ IsOffNoted(i.off)
  BY <1>2, <1>3, <1>4 DEF Idle, InvocationType, WellFormed, Unread, IsOffNoted
<1>6. inv[w].fresh = {} /\ HistoryGrows
  BY SameHistory DEF Deliver, IngestInv, WellFormed
<1>7. inv' = [inv EXCEPT ![w] = i] /\ UNCHANGED <<storeVars, analyze, switches>>
  BY <1>1 DEF Set, Deliver
<1> HIDE DEF i
<1>8. QED  BY <1>4, <1>5, <1>6, <1>7, LetsGo

LEMMA SkipPausedStep == IngestInv /\ (\E w \in Invocations : SkipPaused(w)) => IngestInv'
<1> SUFFICES ASSUME IngestInv, NEW w \in Invocations, SkipPaused(w) PROVE IngestInv'
  OBVIOUS
<1>1. inv[w].pc = "next" /\ inv[w].fresh = {}
  BY DEF SkipPaused, IngestInv, WellFormed
<1>2. inv' = [inv EXCEPT ![w] = Acked(w)] /\ UNCHANGED <<storeVars, analyze, switches, history, batches>>
  BY DEF Set, SkipPaused
<1>3. QED  BY <1>1, <1>2, AckedType, SameHistory, LetsGo DEF IngestInv, LiveTypeOK

\* A job begins with nothing fresh; a ticker's articles are to be filed under that ticker.
LEMMA TakeTickerStep == IngestInv /\ (\E w \in Invocations : TakeTicker(w)) => IngestInv'
<1> SUFFICES ASSUME IngestInv, NEW w \in Invocations, TakeTicker(w) PROVE IngestInv'
  OBVIOUS
<1>1. inv[w].pc = "next" /\ inv[w].fresh = {} /\ inv[w] \in InvocationType /\ inv[w].msgs # <<>>
  BY DEF TakeTicker, IngestInv, LiveTypeOK, WellFormed
<1>2. PICK read \in Disabled(w) :
        \/ Set(w, IF Len(inv[w].msgs) = 1 THEN Idle ELSE [Acked(w) EXCEPT !.off = read[1]])
        \/ \E page \in SUBSET {a \in Recent : Job(w) \in ReturnedBy[a]} :
             Set(w, [inv[w] EXCEPT !.pc = "save", !.off = read[1], !.list = {Entry(a, {Job(w)}) : a \in page}])
  BY DEF TakeTicker
<1>3. read[1] \in SUBSET (Tickers \cup {"unread"}) /\ IsOffNoted(read[1])
  BY DisabledIsNoted DEF IsOffNoted
<1>0. HistoryGrows /\ batches' \in Nat /\ UNCHANGED <<storeVars, analyze, switches>>
  BY SameHistory DEF TakeTicker, IngestInv, LiveTypeOK
<1>4. CASE Set(w, IF Len(inv[w].msgs) = 1 THEN Idle ELSE [Acked(w) EXCEPT !.off = read[1]])
  <2> DEFINE i == IF Len(inv[w].msgs) = 1 THEN Idle ELSE [Acked(w) EXCEPT !.off = read[1]]
  <2>1. Acked(w) \in InvocationType /\ WellFormed(Acked(w)) /\ Acked(w).fresh = {} /\ IsOffNoted(Acked(w).off)
    BY <1>1, AckedType
  <2>2. i \in InvocationType /\ WellFormed(i) /\ i.fresh = {} /\ IsOffNoted(i.off)
    BY <1>3, <2>1 DEF Acked, InvocationType, WellFormed
  <2>3. inv' = [inv EXCEPT ![w] = i]
    BY <1>4 DEF Set
  <2> HIDE DEF i
  <2>4. QED  BY <1>0, <1>1, <2>2, <2>3, LetsGo
<1>5. ASSUME NEW page \in SUBSET {a \in Recent : Job(w) \in ReturnedBy[a]},
             Set(w, [inv[w] EXCEPT !.pc = "save", !.off = read[1], !.list = {Entry(a, {Job(w)}) : a \in page}])
      PROVE  IngestInv'
  <2> DEFINE list == {Entry(a, {Job(w)}) : a \in page}
             i == [inv[w] EXCEPT !.pc = "save", !.off = read[1], !.list = list]
  <2>1. list \in SUBSET Entries /\ \A e \in list : Job(w) \in e.tickers
    <3>1. Job(w) \in Tickers
      BY DEF TakeTicker
    <3>2. \A a \in page : a \in Articles /\ Mentions[a] \subseteq Tickers
      BY NewsAssumption, LiveAssumption
    <3>3. \A a \in page : Entry(a, {Job(w)}) \in Entries /\ Job(w) \in Entry(a, {Job(w)}).tickers
      BY <3>1, <3>2 DEF Entry, Entries
    <3>4. QED  BY <3>3
  <2>2. inv' = [inv EXCEPT ![w] = i]
    BY <1>5 DEF Set
  <2> HIDE DEF list
  <2>3. i \in InvocationType /\ WellFormed(i) /\ i.fresh = inv[w].fresh /\ IsOffNoted(i.off)
    BY <1>1, <1>3, <2>1 DEF InvocationType, WellFormed, Job
  <2> HIDE DEF i
  <2>4. QED  BY <1>0, <1>1, <2>2, <2>3, LetsGo
<1>6. QED  BY <1>2, <1>4, <1>5

LEMMA FetchFeedsStep == IngestInv /\ (\E w \in Invocations : FetchFeeds(w)) => IngestInv'
<1> SUFFICES ASSUME IngestInv, NEW w \in Invocations, FetchFeeds(w) PROVE IngestInv'
  OBVIOUS
<1>1. inv[w] \in InvocationType /\ WellFormed(inv[w])
  BY DEF IngestInv, LiveTypeOK
<1>2. PICK entries \in SUBSET Feeds : Set(w, [inv[w] EXCEPT !.pc = "save", !.list = entries])
  BY DEF FetchFeeds
<1> DEFINE i == [inv[w] EXCEPT !.pc = "save", !.list = entries]
<1>3. entries \in SUBSET Entries
  BY LiveAssumption DEF Entries
<1>4. i \in InvocationType /\ WellFormed(i) /\ i.fresh = inv[w].fresh /\ i.off = inv[w].off
  BY <1>1, <1>3 DEF InvocationType, WellFormed, FetchFeeds, Job
<1>5. inv[w].fresh = {} /\ IsOffNoted(i.off) /\ batches' \in Nat
  BY <1>4 DEF FetchFeeds, IngestInv, WellFormed, HistoryInv, SwitchesAreNoted, LiveTypeOK
<1>6. inv' = [inv EXCEPT ![w] = i] /\ UNCHANGED <<storeVars, analyze, switches, history>>
  BY <1>2 DEF Set, FetchFeeds
<1> HIDE DEF i
<1>7. QED  BY <1>4, <1>5, <1>6, LetsGo, SameHistory

\* What a broken job holds is given up.
LEMMA BreaksIsNoted ==
  ASSUME IngestInv, NEW w \in Invocations, Breaks(w)
  PROVE  HistoryGrows /\ \A p \in inv[w].fresh : IsGivenUp(p)'
<1>1. /\ history'.filings = history.filings /\ history'.broken = history.broken \cup {ThisJob(w)}
      /\ history'.refused = history.refused /\ history'.off = history.off /\ IsHistory(history')
  BY DEF IngestInv, HistoryInv, IsHistory, Breaks
<1>2. HistoryGrows
  BY <1>1 DEF HistoryGrows
<1>3. ASSUME NEW p \in inv[w].fresh PROVE IsGivenUp(p)'
  <2>1. PICK f \in history.filings : IsNoteOf(f, p, inv[w])
    BY DEF IngestInv, HistoryInv, FreshIsNoted
  <2>2. [by |-> f.by, batch |-> f.batch] = ThisJob(w) /\ f.pair = p
    BY <2>1 DEF IsNoteOf, ThisJob, Job
  <2>3. IsBroken(f)' /\ f \in history'.filings
    BY <1>1, <2>1, <2>2 DEF IsBroken
  <2>4. QED  BY <2>2, <2>3 DEF IsGivenUp
<1>4. QED  BY <1>2, <1>3

LEMMA JobFailsStep == IngestInv /\ (\E w \in Invocations : JobFails(w)) => IngestInv'
<1> SUFFICES ASSUME IngestInv, NEW w \in Invocations, JobFails(w) PROVE IngestInv'
  OBVIOUS
<1>1. /\ inv[w].pc = "save" /\ Breaks(w) /\ inv' = [inv EXCEPT ![w] = Acked(w)]
      /\ UNCHANGED <<storeVars, analyze, switches>> /\ batches' \in Nat
  BY DEF JobFails, Set, IngestInv, LiveTypeOK
<1>2. QED  BY <1>1, AckedType, BreaksIsNoted, LetsGo

LEMMA DieStep == IngestInv /\ (\E w \in Invocations : Die(w)) => IngestInv'
<1> SUFFICES ASSUME IngestInv, NEW w \in Invocations, Die(w) PROVE IngestInv'
  OBVIOUS
<1>1. Idle \in InvocationType /\ WellFormed(Idle) /\ Idle.fresh = {} /\ IsOffNoted(Idle.off)
  BY DEF Idle, InvocationType, WellFormed, Switches, AllOn, Unread, IsOffNoted
<1>2. Breaks(w) /\ inv' = [inv EXCEPT ![w] = Idle] /\ UNCHANGED <<storeVars, analyze, switches>> /\ batches' \in Nat
  BY DEF Die, Set, IngestInv, LiveTypeOK
<1>3. QED  BY <1>1, <1>2, BreaksIsNoted, LetsGo

LEMMA EnqueueStep == IngestInv /\ (\E w \in Invocations : Enqueue(w)) => IngestInv'
<1> SUFFICES ASSUME IngestInv, NEW w \in Invocations, Enqueue(w) PROVE IngestInv'
  OBVIOUS
<1>1. inv[w] \in InvocationType /\ WellFormed(inv[w]) /\ inv[w].pc = "save"
  BY DEF IngestInv, LiveTypeOK, Enqueue
<1>2. PICK read \in (IF Job(w) = "feeds" THEN Disabled(w) ELSE {<<inv[w].off, 0>>}) :
        LET dropped == IF ~inv[w].flags.analysis THEN inv[w].fresh
                       ELSE IF Job(w) = "feeds" THEN {p \in inv[w].fresh : p[2] \in read[1]} ELSE {}
        IN  Set(w, [inv[w] EXCEPT !.pc = "send", !.fresh = @ \ dropped, !.off = read[1]])
  BY DEF Enqueue
<1> DEFINE dropped == IF ~inv[w].flags.analysis THEN inv[w].fresh
                      ELSE IF Job(w) = "feeds" THEN {p \in inv[w].fresh : p[2] \in read[1]} ELSE {}
           i == [inv[w] EXCEPT !.pc = "send", !.fresh = @ \ dropped, !.off = read[1]]
<1>3. /\ read[1] \in SUBSET (Tickers \cup {"unread"}) /\ IsOffNoted(read[1])
      /\ Job(w) = "feeds" => read[1] \subseteq history.off
  <2>1. CASE Job(w) = "feeds"
    BY <2>1, DisabledIsNoted DEF IsOffNoted
  <2>2. CASE Job(w) # "feeds"
    BY <1>1, <2>2 DEF InvocationType, IngestInv, HistoryInv, SwitchesAreNoted
  <2>3. QED  BY <2>1, <2>2
<1>4. inv' = [inv EXCEPT ![w] = i] /\ UNCHANGED <<storeVars, analyze, switches, history>> /\ batches' \in Nat
  BY <1>2 DEF Set, Enqueue, IngestInv, LiveTypeOK
<1>5. \A p \in inv[w].fresh : p \in dropped => IsGivenUp(p)
  <2> SUFFICES ASSUME NEW p \in inv[w].fresh, p \in dropped PROVE IsGivenUp(p)
    OBVIOUS
  <2>1. PICK f \in history.filings : IsNoteOf(f, p, inv[w])
    BY DEF IngestInv, HistoryInv, FreshIsNoted
  <2>2. IsUnwanted(f) /\ f.pair = p
    BY <1>3, <2>1 DEF IsNoteOf, IsUnwanted, Job
  <2>3. QED  BY <2>2 DEF IsGivenUp
<1> HIDE DEF dropped
<1>6. /\ i \in InvocationType /\ WellFormed(i) /\ i.fresh = inv[w].fresh \ dropped
      /\ IsSameJob(i, inv[w]) /\ IsOffNoted(i.off)
  BY <1>1, <1>3 DEF InvocationType, WellFormed, IsSameJob
<1> HIDE DEF i
<1>7. HistoryGrows /\ \A p \in inv[w].fresh : p \in i.fresh \/ IsGivenUp(p)'
  BY <1>4, <1>5, <1>6, SameHistory, GivenUpStays
<1>8. QED  BY <1>4, <1>6, <1>7, LetsGo

LEMMA SendFailsStep == IngestInv /\ (\E w \in Invocations : SendFails(w)) => IngestInv'
<1> SUFFICES ASSUME IngestInv, NEW w \in Invocations, SendFails(w) PROVE IngestInv'
  OBVIOUS
<1>1. inv[w] \in InvocationType /\ WellFormed(inv[w]) /\ inv[w].pc = "send" /\ IsOffNoted(inv[w].off)
  BY DEF IngestInv, LiveTypeOK, SendFails, HistoryInv, SwitchesAreNoted
<1>2. PICK chunk \in Chunks(inv[w].fresh) :
        Set(w, AfterFailure(w, chunk)) /\ history' = [history EXCEPT !.refused = @ \cup chunk]
  BY DEF SendFails
<1> DEFINE i == [inv[w] EXCEPT !.fresh = @ \ chunk]
<1>3. /\ i \in InvocationType /\ WellFormed(i) /\ i.fresh = inv[w].fresh \ chunk
      /\ IsSameJob(i, inv[w]) /\ IsOffNoted(i.off)
  BY <1>1 DEF InvocationType, WellFormed, IsSameJob
<1>4. inv' = [inv EXCEPT ![w] = i] /\ UNCHANGED <<storeVars, analyze, switches>> /\ batches' \in Nat
  BY <1>2 DEF Set, AfterFailure, SendFails, IngestInv, LiveTypeOK
<1>5. /\ history'.filings = history.filings /\ history'.refused = history.refused \cup chunk
      /\ HistoryGrows
  BY <1>2 DEF IngestInv, HistoryInv, IsHistory, HistoryGrows
<1>6. ASSUME NEW p \in inv[w].fresh, p \in chunk PROVE IsGivenUp(p)'
  <2>1. PICK f \in history.filings : IsNoteOf(f, p, inv[w])
    BY DEF IngestInv, HistoryInv, FreshIsNoted
  <2>2. IsBroken(f)' /\ f.pair = p /\ f \in history'.filings
    BY <1>5, <1>6, <2>1 DEF IsNoteOf, IsBroken
  <2>3. QED  BY <2>2 DEF IsGivenUp
<1> HIDE DEF i
<1>7. QED  BY <1>3, <1>4, <1>5, <1>6, LetsGo

LEMMA AckStep == IngestInv /\ (\E w \in Invocations : Ack(w)) => IngestInv'
<1> SUFFICES ASSUME IngestInv, NEW w \in Invocations, Ack(w) PROVE IngestInv'
  OBVIOUS
<1>1. inv[w].pc = "send" /\ inv[w].fresh = {} /\ batches' \in Nat
  BY DEF Ack, IngestInv, LiveTypeOK
<1>2. inv' = [inv EXCEPT ![w] = Acked(w)] /\ UNCHANGED <<storeVars, analyze, switches, history>>
  BY DEF Set, Ack
<1>3. QED  BY <1>1, <1>2, AckedType, SameHistory, LetsGo

LEMMA SetSwitchesStep == IngestInv /\ SetSwitches => IngestInv'
<1> SUFFICES ASSUME IngestInv, SetSwitches PROVE IngestInv'
  OBVIOUS
<1>1. switches' \in Switches
  BY DEF SetSwitches, IngestInv, LiveTypeOK, Switches
<1>2. UNCHANGED <<articles, filed, analyze, inv, batches>> /\ history' = [history EXCEPT !.off = @ \cup switches'.off]
  BY DEF SetSwitches, storeVars
<1>3. HistoryGrows /\ history'.filings = history.filings /\ switches'.off \subseteq history'.off
  BY <1>2 DEF IngestInv, HistoryInv, IsHistory, HistoryGrows
<1>4. \A p : IsGivenUp(p) => IsGivenUp(p)'
  BY <1>3, GivenUpStays
<1>5. FiledIsTyped' /\ NothingStranded'
  BY <1>2, <1>4 DEF IngestInv, FiledIsTyped, NothingStranded, IsSent, IsHeld
<1>6. HistoryInv'
  BY <1>2, <1>3 DEF IngestInv, HistoryInv, HistoryGrows, FreshIsNoted, SwitchesAreNoted, IsOffNoted
<1>7. QED  BY <1>1, <1>2, <1>5, <1>6 DEF IngestInv, LiveTypeOK, FiledIsStored, SentIsFiled, FreshIsUnsent,
              FreshIsOwned, AnalyzedOnce

-----------------------------------------------------------------------------
(* The transaction and the send.                                            *)

\* What a chunk makes fresh are filings that this transaction made, and every filing that
\* it made is fresh or given up.
LEMMA FreshIsNew ==
  ASSUME IngestInv, NEW w \in Invocations, inv[w].pc = "save", NEW chunk \in SUBSET inv[w].list
  PROVE  /\ FreshOf(w, chunk) \subseteq NewFilings(chunk)
         /\ \A p \in NewFilings(chunk) : p \in FreshOf(w, chunk) \/ (Job(w) # "feeds" /\ p[2] # Job(w))
         /\ Filings(chunk) \subseteq Pair
         /\ \A p \in Filings(chunk) : p[1] \in {e.id : e \in chunk}
<1>1. chunk \subseteq Entries
  BY DEF IngestInv, LiveTypeOK, InvocationType
<1>2. \A p \in Filings(chunk) : \E e \in chunk : \E t \in e.tickers : p = <<e.id, t>>
  BY DEF Filings
<1>3. \A e \in chunk : \A t \in e.tickers : <<e.id, t>> \in Filings(chunk)
  BY DEF Filings
<1>4. Filings(chunk) \subseteq Pair /\ \A p \in Filings(chunk) : p[1] \in {e.id : e \in chunk}
  BY <1>1, <1>2 DEF Entries, Pair
<1>5. CASE Job(w) = "feeds"
  BY <1>4, <1>5 DEF FreshOf
<1>6. CASE Job(w) # "feeds"
  <2> DEFINE isFresh(e) == e.id \in InsertedIds(chunk) \/ <<e.id, Job(w)>> \notin filed
  <2>1. FreshOf(w, chunk) = {<<e.id, Job(w)>> : e \in {x \in chunk : isFresh(x)}}
    BY <1>6 DEF FreshOf
  <2>2. \A e \in chunk : isFresh(e) => <<e.id, Job(w)>> \notin filed
    BY DEF InsertedIds, IngestInv, FiledIsStored
  <2>3. \A e \in chunk : Job(w) \in e.tickers
    BY <1>6 DEF IngestInv, WellFormed, Job
  <2>4. FreshOf(w, chunk) \subseteq NewFilings(chunk)
    BY <1>3, <2>1, <2>2, <2>3 DEF NewFilings
  <2>5. ASSUME NEW p \in NewFilings(chunk), p[2] = Job(w) PROVE p \in FreshOf(w, chunk)
    <3>1. PICK e \in chunk : \E t \in e.tickers : p = <<e.id, t>>
      BY <1>2 DEF NewFilings
    <3>2. p = <<e.id, Job(w)>> /\ p \notin filed
      BY <2>5, <3>1 DEF NewFilings
    <3>3. QED  BY <2>1, <3>2
  <2>6. QED  BY <1>4, <1>6, <2>4, <2>5
<1>7. QED  BY <1>5, <1>6

LEMMA SaveChunkStep == IngestInv /\ (\E w \in Invocations : SaveChunk(w)) => IngestInv'
<1> SUFFICES ASSUME IngestInv, NEW w \in Invocations, SaveChunk(w) PROVE IngestInv'
  OBVIOUS
<1>1. PICK chunk \in Chunks(inv[w].list) :
        /\ Insert(chunk)
        /\ Set(w, [inv[w] EXCEPT !.list = @ \ chunk, !.fresh = @ \cup FreshOf(w, chunk)])
        /\ history' = [history EXCEPT !.filings = @ \cup FilingsOf(w, NewFilings(chunk))]
  BY DEF SaveChunk
<1>2. chunk \in SUBSET inv[w].list /\ inv[w].pc = "save" /\ inv[w] \in InvocationType /\ WellFormed(inv[w])
  BY DEF Chunks, SaveChunk, IngestInv, LiveTypeOK
<1> DEFINE new == FreshOf(w, chunk)
           i == [inv[w] EXCEPT !.list = @ \ chunk, !.fresh = @ \cup new]
           Note(p) == [pair |-> p, by |-> Job(w), batch |-> inv[w].batch, analysis |-> inv[w].flags.analysis]
<1>3. /\ new \subseteq NewFilings(chunk) /\ Filings(chunk) \subseteq Pair
      /\ \A p \in NewFilings(chunk) : p \in new \/ (Job(w) # "feeds" /\ p[2] # Job(w))
      /\ \A p \in Filings(chunk) : p[1] \in articles'
  BY <1>1, <1>2, FreshIsNew DEF Insert
<1>4. /\ articles \subseteq articles' /\ filed' = filed \cup Filings(chunk)
      /\ NewFilings(chunk) = Filings(chunk) \ filed
      /\ UNCHANGED <<analyze, switches, batches>>
  BY <1>1 DEF Insert, NewFilings, SaveChunk
<1>5. /\ HistoryGrows /\ history'.off = history.off
      /\ \A p \in NewFilings(chunk) : Note(p) \in history'.filings
  <2>1. /\ IsHistory(history') /\ history'.filings = history.filings \cup FilingsOf(w, NewFilings(chunk))
        /\ history'.broken = history.broken /\ history'.refused = history.refused /\ history'.off = history.off
    BY <1>1 DEF IngestInv, HistoryInv, IsHistory
  <2>2. \A p \in NewFilings(chunk) : Note(p) \in FilingsOf(w, NewFilings(chunk))
    BY DEF FilingsOf
  <2>3. QED  BY <2>1, <2>2 DEF HistoryGrows
<1>6. \A p \in new : Job(w) = "feeds" \/ p[2] = Job(w)
  <2>1. CASE Job(w) # "feeds"
    <3>1. \A p \in new : \E e \in chunk : p = <<e.id, Job(w)>>
      BY <2>1 DEF FreshOf
    <3>2. QED  BY <3>1
  <2>2. QED  BY <2>1
<1> HIDE DEF new
<1>7. i \in InvocationType /\ WellFormed(i) /\ i.fresh = inv[w].fresh \cup new /\ IsSameJob(i, inv[w])
      /\ i.off = inv[w].off
  BY <1>2, <1>3, <1>4 DEF InvocationType, WellFormed, IsSameJob
<1>8. inv'[w] = i /\ \A v \in Invocations \ {w} : inv'[v] = inv[v]
  BY <1>1 DEF Set, IngestInv, LiveTypeOK, new
<1>9. LiveTypeOK' /\ \A v \in Invocations : WellFormed(inv'[v])
  BY <1>1, <1>4, <1>7, <1>8 DEF Set, IngestInv, LiveTypeOK, new
<1> HIDE DEF i
<1>10. \A p : IsGivenUp(p) => IsGivenUp(p)'
  BY <1>5, GivenUpStays
<1>11. FiledIsStored' /\ FiledIsTyped' /\ SentIsFiled' /\ AnalyzedOnce'
  BY <1>3, <1>4, <1>10 DEF IngestInv, FiledIsStored, FiledIsTyped, SentIsFiled, AnalyzedOnce
<1>12. \A p \in new : p \in Pair /\ p \notin filed /\ p \in filed' /\ analyze'[p] = 0
  BY <1>3, <1>4 DEF IngestInv, SentIsFiled
<1>13. FreshIsUnsent' /\ FreshIsOwned'
  BY <1>4, <1>7, <1>8, <1>12 DEF IngestInv, FreshIsUnsent, FreshIsOwned
<1>14. \A p \in NewFilings(chunk) : p \in new \/ IsGivenUp(p)'
  <2> SUFFICES ASSUME NEW p \in NewFilings(chunk), p \notin new PROVE IsGivenUp(p)'
    OBVIOUS
  <2>1. Job(w) # "feeds" /\ p[2] # Job(w)
    BY <1>3
  <2>2. IsFiledOnly(Note(p)) /\ Note(p).pair = p /\ Note(p) \in history'.filings
    BY <1>5, <2>1 DEF IsFiledOnly
  <2>3. QED  BY <2>2 DEF IsGivenUp, IsFiledOnly
<1>15. NothingStranded'
  BY <1>4, <1>7, <1>8, <1>10, <1>14 DEF IngestInv, NothingStranded, IsSent, IsHeld
<1>16. FreshIsNoted'
  <2> SUFFICES ASSUME NEW v \in Invocations, NEW p \in inv'[v].fresh
               PROVE  \E f \in history'.filings : IsNoteOf(f, p, inv'[v])
    BY DEF FreshIsNoted
  <2>1. CASE p \in inv[v].fresh
    <3>1. PICK f \in history.filings : IsNoteOf(f, p, inv[v])
      BY <2>1 DEF IngestInv, HistoryInv, FreshIsNoted
    <3>2. IsNoteOf(f, p, inv'[v])
      BY <1>7, <1>8, <3>1 DEF IsNoteOf, IsSameJob
    <3>3. QED  BY <1>5, <3>1, <3>2 DEF HistoryGrows
  <2>2. CASE p \notin inv[v].fresh
    <3>1. v = w /\ p \in new
      BY <1>7, <1>8, <2>2
    <3>2. IsNoteOf(Note(p), p, inv'[v])
      BY <1>6, <1>7, <1>8, <3>1 DEF IsNoteOf, IsSameJob, Job
    <3>3. QED  BY <1>3, <1>5, <3>1, <3>2
  <2>3. QED  BY <2>1, <2>2
<1>17. HistoryInv'
  <2>1. \A v \in Invocations : inv'[v].off = inv[v].off
    BY <1>7, <1>8
  <2>2. QED  BY <1>4, <1>5, <1>16, <2>1 DEF IngestInv, HistoryInv, SwitchesAreNoted, IsOffNoted, HistoryGrows
<1>18. QED  BY <1>9, <1>11, <1>13, <1>15, <1>17 DEF IngestInv, WellFormed

LEMMA SendChunkStep == IngestInv /\ (\E w \in Invocations : SendChunk(w)) => IngestInv'
<1> SUFFICES ASSUME IngestInv, NEW w \in Invocations, SendChunk(w) PROVE IngestInv'
  OBVIOUS
<1>1. PICK chunk \in Chunks(inv[w].fresh) :
        /\ analyze' = [p \in Pair |-> analyze[p] + IF p \in chunk THEN 1 ELSE 0]
        /\ Set(w, [inv[w] EXCEPT !.fresh = @ \ chunk])
  BY DEF SendChunk
<1>2. inv[w] \in InvocationType /\ WellFormed(inv[w]) /\ inv[w].pc = "send"
  BY DEF IngestInv, LiveTypeOK, SendChunk
<1>3. UNCHANGED <<articles, filed, switches, history, batches>>
  BY DEF SendChunk, storeVars
<1>4. chunk \subseteq inv[w].fresh /\ chunk \subseteq Pair
  BY <1>2 DEF Chunks, InvocationType
<1>5. /\ \A p \in chunk : analyze'[p] = 1
      /\ \A p \in Pair \ chunk : analyze'[p] = analyze[p]
  BY <1>1, <1>4 DEF IngestInv, LiveTypeOK, FreshIsUnsent
<1> DEFINE i == [inv[w] EXCEPT !.fresh = @ \ chunk]
<1>6. /\ i \in InvocationType /\ WellFormed(i) /\ i.fresh = inv[w].fresh \ chunk
      /\ IsSameJob(i, inv[w]) /\ i.off = inv[w].off
  BY <1>2 DEF InvocationType, WellFormed, IsSameJob
<1>7. inv'[w] = i /\ \A v \in Invocations \ {w} : inv'[v] = inv[v]
  BY <1>1 DEF Set, IngestInv, LiveTypeOK
<1>8. LiveTypeOK' /\ \A v \in Invocations : WellFormed(inv'[v])
  <2>1. analyze' \in [Pair -> Nat]
    BY <1>1 DEF IngestInv, LiveTypeOK
  <2>2. inv' \in [Invocations -> InvocationType]
    BY <1>1, <1>6 DEF Set, IngestInv, LiveTypeOK
  <2>3. \A v \in Invocations : WellFormed(inv'[v])
    BY <1>6, <1>7 DEF IngestInv
  <2>4. QED  BY <1>3, <2>1, <2>2, <2>3 DEF IngestInv, LiveTypeOK
<1> HIDE DEF i
<1>9. FiledIsStored' /\ FiledIsTyped' /\ SentIsFiled'
  BY <1>3, <1>4, <1>5 DEF IngestInv, FiledIsStored, FiledIsTyped, SentIsFiled, FreshIsUnsent, IsGivenUp, IsUnwanted,
     IsBroken
<1>10. AnalyzedOnce'
  BY <1>5 DEF IngestInv, AnalyzedOnce
<1>11. \A v \in Invocations : inv'[v].fresh \subseteq inv[v].fresh \ chunk /\ inv[v].fresh \subseteq Pair
  BY <1>4, <1>6, <1>7 DEF IngestInv, FreshIsOwned, LiveTypeOK, InvocationType
<1>12. FreshIsUnsent' /\ FreshIsOwned'
  BY <1>3, <1>5, <1>11 DEF IngestInv, FreshIsUnsent, FreshIsOwned
<1>13. \A p : IsGivenUp(p) => IsGivenUp(p)'
  BY <1>3 DEF IsGivenUp, IsUnwanted, IsBroken
<1>14. NothingStranded'
  <2> SUFFICES ASSUME NEW p \in filed, ~IsGivenUp(p)
               PROVE  analyze'[p] > 0 \/ \E v \in Invocations : p \in inv'[v].fresh
    BY <1>3, <1>13 DEF NothingStranded, IsSent, IsHeld
  <2>1. p \in Pair
    BY DEF IngestInv, FiledIsTyped
  <2>2. CASE p \in chunk
    BY <1>5, <2>2
  <2>3. CASE p \notin chunk
    BY <1>5, <1>6, <1>7, <2>1, <2>3 DEF IngestInv, NothingStranded, IsSent, IsHeld
  <2>4. QED  BY <2>2, <2>3
<1>15. FreshIsNoted'
  <2> SUFFICES ASSUME NEW v \in Invocations, NEW p \in inv'[v].fresh
               PROVE  \E f \in history'.filings : IsNoteOf(f, p, inv'[v])
    BY DEF FreshIsNoted
  <2>1. PICK f \in history.filings : IsNoteOf(f, p, inv[v])
    BY <1>11 DEF IngestInv, HistoryInv, FreshIsNoted
  <2>2. IsNoteOf(f, p, inv'[v])
    BY <1>6, <1>7, <2>1 DEF IsNoteOf, IsSameJob
  <2>3. QED  BY <1>3, <2>1, <2>2
<1>16. SwitchesAreNoted'
  <2>1. \A v \in Invocations : inv'[v].off = inv[v].off
    BY <1>6, <1>7
  <2>2. QED  BY <1>3, <2>1 DEF IngestInv, HistoryInv, SwitchesAreNoted, IsOffNoted
<1>17. QED  BY <1>3, <1>8, <1>9, <1>10, <1>12, <1>14, <1>15, <1>16 DEF IngestInv, HistoryInv, IsHistory, WellFormed

-----------------------------------------------------------------------------
(* The backfill only adds rows, and what it files is nobody's to send.      *)

LEMMA BackfillAdds ==
  BackfillNext => /\ filed \subseteq filed' /\ articles \subseteq articles'
                  /\ \A p \in filed' \ filed : p[1] \in articles'
<1> SUFFICES ASSUME NEW b \in Runners,
                    \/ Take(b) \/ FetchWindow(b) \/ Filter(b) \/ InsertChunk(b) \/ WindowDone(b) \/ HandOver(b)
                    \/ Complete(b) \/ TooManyParts(b) \/ Fail(b) \/ AckPart(b) \/ DiePart(b)
             PROVE  /\ filed \subseteq filed' /\ articles \subseteq articles'
                    /\ \A p \in filed' \ filed : p[1] \in articles'
  BY DEF BackfillNext
<1>1. CASE InsertChunk(b)
  <2>1. Insert(bf[b].chosen)
    BY <1>1 DEF InsertChunk
  <2>2. QED  BY <2>1 DEF Insert, Filings
<1>2. CASE ~InsertChunk(b)
  <2>1. UNCHANGED storeVars
    BY <1>2 DEF Take, FetchWindow, Filter, WindowDone, HandOver, Complete, TooManyParts, Fail, AckPart, DiePart
  <2>2. QED  BY <2>1 DEF storeVars
<1>3. QED  BY <1>1, <1>2

LEMMA BackfillStep == IngestInv /\ Backfill => IngestInv'
<1> SUFFICES ASSUME IngestInv, Backfill PROVE IngestInv'
  OBVIOUS
<1> DEFINE Note(p) == [pair |-> p, by |-> "backfill", batch |-> 0, analysis |-> TRUE]
<1>1. /\ filed \subseteq filed' /\ articles \subseteq articles' /\ \A p \in filed' \ filed : p[1] \in articles'
      /\ history' = [history EXCEPT !.filings = @ \cup {Note(p) : p \in filed' \ filed}]
      /\ UNCHANGED <<analyze, switches, inv, batches>>
  BY BackfillAdds DEF Backfill
<1>2. HistoryGrows /\ history'.off = history.off /\ \A p \in filed' \ filed : Note(p) \in history'.filings
  BY <1>1 DEF IngestInv, HistoryInv, IsHistory, HistoryGrows
<1>3. \A p : IsGivenUp(p) => IsGivenUp(p)'
  BY <1>2, GivenUpStays
<1>4. ASSUME NEW p \in filed' \ filed PROVE IsGivenUp(p)'
  <2>1. IsFiledOnly(Note(p)) /\ Note(p).pair = p /\ Note(p) \in history'.filings
    BY <1>2 DEF IsFiledOnly
  <2>2. QED  BY <2>1 DEF IsGivenUp, IsFiledOnly
<1>5. FiledIsTyped' /\ NothingStranded'
  BY <1>1, <1>3, <1>4 DEF IngestInv, FiledIsTyped, NothingStranded, IsSent, IsHeld
<1>6. FreshIsNoted'
  BY <1>1, <1>2 DEF IngestInv, HistoryInv, FreshIsNoted, HistoryGrows
<1>7. SwitchesAreNoted'
  BY <1>1, <1>2 DEF IngestInv, HistoryInv, SwitchesAreNoted, IsOffNoted
<1>8. QED  BY <1>1, <1>2, <1>5, <1>6, <1>7 DEF IngestInv, HistoryInv, HistoryGrows, LiveTypeOK, FiledIsStored,
              SentIsFiled, FreshIsUnsent, FreshIsOwned, AnalyzedOnce

-----------------------------------------------------------------------------
(* The theorem.                                                             *)

LEMMA IngestInvInit == Init => IngestInv
<1> SUFFICES ASSUME Init PROVE IngestInv
  OBVIOUS
<1>1. Idle \in InvocationType /\ WellFormed(Idle) /\ Idle.fresh = {}
  BY DEF Idle, InvocationType, WellFormed, Switches, AllOn, Unread
<1>2. /\ articles = {} /\ filed = {} /\ analyze = [p \in Pair |-> 0] /\ switches = AllOn
      /\ inv = [w \in Invocations |-> Idle] /\ batches = 0
      /\ history = [filings |-> {}, broken |-> {}, refused |-> {}, off |-> {}]
  BY DEF Init, LiveInit
<1>3. HistoryInv
  BY <1>1, <1>2 DEF HistoryInv, IsHistory, FreshIsNoted, SwitchesAreNoted, IsOffNoted, AllOn, Idle
<1>4. QED  BY <1>1, <1>2, <1>3 DEF IngestInv, LiveTypeOK, Switches, AllOn, FiledIsStored, FiledIsTyped, SentIsFiled,
              FreshIsUnsent, FreshIsOwned, AnalyzedOnce, NothingStranded

LEMMA IngestInvStep == IngestInv /\ [Next]_vars => IngestInv'
<1>1. CASE Live
  BY <1>1, SetSwitchesStep, DeliverStep, SkipPausedStep, TakeTickerStep, FetchFeedsStep, SaveChunkStep, JobFailsStep,
     EnqueueStep, SendChunkStep, SendFailsStep, AckStep, DieStep DEF Live, LiveNext
<1>2. CASE Backfill
  BY <1>2, BackfillStep
<1>3. CASE UNCHANGED vars
  BY <1>3 DEF vars, storeVars, liveVars, IngestInv, LiveTypeOK, WellFormed, FiledIsStored, FiledIsTyped, SentIsFiled,
     FreshIsUnsent, FreshIsOwned, AnalyzedOnce, NothingStranded, IsSent, IsHeld, IsGivenUp, IsUnwanted, IsBroken,
     HistoryInv, IsHistory, FreshIsNoted, SwitchesAreNoted, IsOffNoted
<1>4. QED  BY <1>1, <1>2, <1>3 DEF Next

LEMMA IngestInvHolds == Spec => []IngestInv
  BY IngestInvInit, IngestInvStep, PTL DEF Spec

\* Whatever overlaps, is fetched again, comes from a feed and from a query, is delivered twice
\* or races with the backfill: the same article of the same ticker is analysed once.
THEOREM AnalyzedOnceHolds == Spec => []AnalyzedOnce
<1>1. IngestInv => AnalyzedOnce
  BY DEF IngestInv
<1>2. QED  BY <1>1, IngestInvHolds, PTL

\* Every filing that a feed makes, or a query for the ticker itself, is sent or with an
\* invocation that will send it, whoever stored the article first and whatever fails elsewhere;
\* unless the operator's switches were against it, the queue refused its own message, or its
\* own job was broken off.  The filings of the backfill, and those that a query makes for
\* other tickers, are left out: the code never sends them.
THEOREM NothingStrandedHolds == Spec => []NothingStranded
<1>1. IngestInv => NothingStranded
  BY DEF IngestInv
<1>2. QED  BY <1>1, IngestInvHolds, PTL

-----------------------------------------------------------------------------
(* How a span is halved: fetchSpan's recursion, its existence and what it   *)
(* covers.                                                                  *)

LEMMA LeastOf ==
  ASSUME NEW T, T \subseteq Nat, T # {}
  PROVE  \E x \in T : \A y \in T : x <= y
<1> DEFINE less == {ss \in Nat \X Nat : ss[1] < ss[2]}
<1>1. IsWellFoundedOn(less, Nat)
  BY NatLessThanWellFounded DEF OpToRel
<1>2. \E x \in T : \A y \in T : ~ (<<y, x>> \in less)
  <2> HIDE DEF less
  <2> QED  BY <1>1, WFMin
<1>3. PICK x \in T : \A y \in T : ~ (<<y, x>> \in less)
  BY <1>2
<1>4. ASSUME NEW y \in T, y < x PROVE FALSE
  BY <1>3, <1>4
<1>5. QED  BY <1>4

Spans == Days \X Days
Proper(span) == span \in Spans /\ span[1] <= span[2]
IsSplitUp(t, refusals, span) ==
  ~(span[1] = span[2] \/ ~LooksCapped(t, span) \/ <<t, span>> \in refusals)
Middle(span) == span[1] + ((span[2] - span[1]) \div 2)
Left(span) == <<span[1], Middle(span)>>
Right(span) == <<Middle(span) + 1, span[2]>>
HalvesBody(t, refusals, H, span) ==
  IF ~IsSplitUp(t, refusals, span) THEN {span} ELSE {span} \cup H[Left(span)] \cup H[Right(span)]
HalvesUnfold(t, refusals, H) == H = [span \in Spans |-> HalvesBody(t, refusals, H, span)]
\* The function that Asked defines.
HalvesOf(t, refusals) ==
  CHOOSE H : H =
    [span \in Days \X Days |->
       IF span[1] = span[2] \/ ~LooksCapped(t, span) \/ <<t, span>> \in refusals THEN {span}
       ELSE LET mid == span[1] + ((span[2] - span[1]) \div 2) IN
            {span} \cup H[<<span[1], mid>>] \cup H[<<mid + 1, span[2]>>]]

LEMMA AskedIsHalves ==
  \A t, window, refusals : Asked(t, window, refusals) = {<<t, s>> : s \in HalvesOf(t, refusals)[window]}
  BY DEF Asked, HalvesOf

LEMMA DaysAreNat == Days \subseteq Nat \ {0} /\ LastDay \in Days /\ (\A n \in Nat : n \in Days <=> 1 <= n /\ n <= LastDay)
  BY BackfillAssumption DEF Days

\* Only a span of several days is split, into two shorter ones that cover it.
LEMMA SplitsInTwo ==
  ASSUME NEW t, NEW refusals, NEW span \in Spans, IsSplitUp(t, refusals, span)
  PROVE  /\ Proper(span) /\ Proper(Left(span)) /\ Proper(Right(span))
         /\ Left(span)[2] - Left(span)[1] \in Nat /\ Left(span)[2] - Left(span)[1] < span[2] - span[1]
         /\ Right(span)[2] - Right(span)[1] \in Nat /\ Right(span)[2] - Right(span)[1] < span[2] - span[1]
         /\ Left(span)[1] = span[1] /\ Right(span)[2] = span[2]
         /\ Left(span)[2] <= span[2] /\ span[1] <= Right(span)[1]
         /\ \A d \in Nat : span[1] <= d /\ d <= span[2] =>
              (Left(span)[1] <= d /\ d <= Left(span)[2]) \/ (Right(span)[1] <= d /\ d <= Right(span)[2])
<1>1. PICK lo \in Days, hi \in Days : span = <<lo, hi>>
  BY DEF Spans
<1>2. lo \in Nat /\ hi \in Nat /\ 1 <= lo /\ hi <= LastDay /\ lo # hi /\ LastDay \in Nat
  BY <1>1, DaysAreNat, BackfillAssumption DEF IsSplitUp, Days
<1>3. lo < hi
  <2>1. SUFFICES ASSUME hi < lo PROVE FALSE
    BY <1>2
  <2>2. In(t, span) = {}
    <3>1. \A a \in Articles : DayOf[a] \notin span[1] .. span[2]
      BY <1>1, <1>2, <2>1
    <3>2. QED  BY <3>1 DEF In
  <2>3. Cardinality(In(t, span)) = 0
    BY <2>2, FS_EmptySet
  <2>4. QED  BY <2>3, BackfillAssumption DEF IsSplitUp, LooksCapped
<1>4. PICK mid \in Nat : mid = lo + ((hi - lo) \div 2)
  BY <1>2, <1>3
<1>5. lo <= mid /\ mid < hi
  BY <1>2, <1>3, <1>4
<1>6. Left(span) = <<lo, mid>> /\ Right(span) = <<mid + 1, hi>>
  BY <1>1, <1>4 DEF Left, Right, Middle
<1>7. mid \in Days /\ mid + 1 \in Days
  BY <1>2, <1>4, <1>5, DaysAreNat
<1>8. QED  BY <1>1, <1>2, <1>3, <1>4, <1>5, <1>6, <1>7 DEF Proper, Spans

\* The spans that halving reaches are a solution.
LEMMA HalvesExist ==
  ASSUME NEW t, NEW refusals
  PROVE  \E H : HalvesUnfold(t, refusals, H)
<1> DEFINE Closed(X) == \A s \in X : IsSplitUp(t, refusals, s) => Left(s) \in X /\ Right(s) \in X
           Reach(span) == {s \in Spans : \A X \in SUBSET Spans : Closed(X) /\ span \in X => s \in X}
           H == [span \in Spans |-> Reach(span)]
<1>1. \A s \in Spans : IsSplitUp(t, refusals, s) => Left(s) \in Spans /\ Right(s) \in Spans
  BY SplitsInTwo DEF Proper
<1>2. \A s \in Spans : s \in Reach(s)
  OBVIOUS
<1>3. \A s \in Spans : Closed(Reach(s))
  BY <1>1
<1>4. ASSUME NEW span \in Spans, ~IsSplitUp(t, refusals, span) PROVE Reach(span) = {span}
  <2>1. Closed({span}) /\ {span} \in SUBSET Spans
    BY <1>4
  <2>2. QED  BY <1>2, <2>1
<1>5. ASSUME NEW span \in Spans, IsSplitUp(t, refusals, span)
      PROVE  Reach(span) = {span} \cup Reach(Left(span)) \cup Reach(Right(span))
  <2> DEFINE Y == {span} \cup Reach(Left(span)) \cup Reach(Right(span))
  <2>1. Left(span) \in Spans /\ Right(span) \in Spans
    BY <1>1, <1>5
  <2>2. Left(span) \in Y /\ Right(span) \in Y /\ Y \in SUBSET Spans
    BY <1>2, <2>1
  <2>3. Closed(Y)
    <3>1. Closed(Reach(Left(span))) /\ Closed(Reach(Right(span)))
      BY <1>3, <2>1
    <3> HIDE DEF Reach
    <3>2. QED  BY <2>2, <3>1
  <2>4. Reach(span) \subseteq Y
    BY <2>2, <2>3
  <2>5. \A X \in SUBSET Spans : Closed(X) /\ span \in X => Left(span) \in X /\ Right(span) \in X
    BY <1>5
  <2>6. Reach(Left(span)) \subseteq Reach(span) /\ Reach(Right(span)) \subseteq Reach(span)
    BY <2>5
  <2>7. QED  BY <1>2, <2>4, <2>6
<1> HIDE DEF Reach
<1>6. \A span \in Spans : H[span] = HalvesBody(t, refusals, H, span)
  BY <1>1, <1>4, <1>5 DEF HalvesBody
<1>7. H = [span \in Spans |-> HalvesBody(t, refusals, H, span)]
  <2> DEFINE R == [span \in Spans |-> HalvesBody(t, refusals, H, span)]
  <2>1. \A span \in Spans : H[span] = R[span]
    BY <1>6
  <2>2. QED  BY <2>1
<1>8. QED  BY <1>7 DEF HalvesUnfold

LEMMA HalvesUnfolds ==
  ASSUME NEW t, NEW refusals, NEW span \in Spans
  PROVE  HalvesOf(t, refusals)[span] = HalvesBody(t, refusals, HalvesOf(t, refusals), span)
<1> DEFINE Solves(H) ==
       H = [x \in Days \X Days |->
              IF x[1] = x[2] \/ ~LooksCapped(t, x) \/ <<t, x>> \in refusals THEN {x}
              ELSE LET mid == x[1] + ((x[2] - x[1]) \div 2) IN
                   {x} \cup H[<<x[1], mid>>] \cup H[<<mid + 1, x[2]>>]]
<1>1. HalvesUnfold(t, refusals, HalvesOf(t, refusals))
  <2>1. \A H : HalvesUnfold(t, refusals, H) <=> Solves(H)
    BY DEF HalvesUnfold, HalvesBody, IsSplitUp, Left, Right, Middle, Spans
  <2>2. HalvesOf(t, refusals) = CHOOSE H : Solves(H)
    BY DEF HalvesOf
  <2> HIDE DEF Solves
  <2>3. \E H : Solves(H)
    BY <2>1, HalvesExist
  <2>4. Solves(HalvesOf(t, refusals))
    BY <2>2, <2>3
  <2>5. QED  BY <2>1, <2>4
<1>2. QED  BY <1>1 DEF HalvesUnfold

\* Halving stays in its span, and asks for every day of it in a span that it does not split.
HalvesCover(t, refusals, span) ==
  /\ span \in HalvesOf(t, refusals)[span]
  /\ \A s \in HalvesOf(t, refusals)[span] : Proper(s) /\ span[1] <= s[1] /\ s[2] <= span[2]
  /\ \A d \in Nat : span[1] <= d /\ d <= span[2] =>
       \E s \in HalvesOf(t, refusals)[span] : ~IsSplitUp(t, refusals, s) /\ s[1] <= d /\ d <= s[2]

LEMMA HalvesCoverSpan ==
  ASSUME NEW t, NEW refusals, NEW span, Proper(span)
  PROVE  HalvesCover(t, refusals, span)
<1> DEFINE Bad == {n \in Nat : \E s : Proper(s) /\ s[2] - s[1] = n /\ ~HalvesCover(t, refusals, s)}
<1>1. ASSUME Bad # {} PROVE FALSE
  <2>1. PICK n \in Bad : \A m \in Bad : n <= m
    <3> HIDE DEF Bad
    <3>1. Bad \subseteq Nat
      BY DEF Bad
    <3>2. QED  BY <1>1, <3>1, LeastOf
  <2>2. PICK s : Proper(s) /\ s[2] - s[1] = n /\ ~HalvesCover(t, refusals, s)
    BY <2>1
  <2>3. s \in Spans /\ HalvesOf(t, refusals)[s] = HalvesBody(t, refusals, HalvesOf(t, refusals), s)
    BY <2>2, HalvesUnfolds DEF Proper
  <2>4. s[1] \in Nat /\ s[2] \in Nat
    BY <2>3, DaysAreNat DEF Spans
  <2>5. CASE ~IsSplitUp(t, refusals, s)
    <3>1. HalvesOf(t, refusals)[s] = {s}
      BY <2>3, <2>5 DEF HalvesBody
    <3>2. QED  BY <2>2, <2>4, <2>5, <3>1 DEF HalvesCover
  <2>6. CASE IsSplitUp(t, refusals, s)
    <3>1. PICK l, r : l = Left(s) /\ r = Right(s)
      OBVIOUS
    <3>2. /\ Proper(l) /\ Proper(r)
          /\ l[2] - l[1] \in Nat /\ l[2] - l[1] < s[2] - s[1]
          /\ r[2] - r[1] \in Nat /\ r[2] - r[1] < s[2] - s[1]
          /\ l[1] = s[1] /\ r[2] = s[2] /\ l[2] <= s[2] /\ s[1] <= r[1]
          /\ \A d \in Nat : s[1] <= d /\ d <= s[2] => (l[1] <= d /\ d <= l[2]) \/ (r[1] <= d /\ d <= r[2])
      BY <2>3, <2>6, <3>1, SplitsInTwo
    <3>3. HalvesCover(t, refusals, l) /\ HalvesCover(t, refusals, r)
      <4>1. ASSUME NEW h, Proper(h), h[2] - h[1] \in Nat, h[2] - h[1] < s[2] - s[1], ~HalvesCover(t, refusals, h)
            PROVE  FALSE
        <5>1. h[2] - h[1] \in Bad
          BY <4>1
        <5>2. n <= h[2] - h[1] /\ n \in Nat
          BY <2>1, <5>1
        <5>3. QED  BY <2>2, <2>4, <4>1, <5>2
      <4>2. QED  BY <3>2, <4>1
    <3>4. HalvesOf(t, refusals)[s] = {s} \cup HalvesOf(t, refusals)[l] \cup HalvesOf(t, refusals)[r]
      BY <2>3, <2>6, <3>1 DEF HalvesBody
    <3>5. l[1] \in Nat /\ l[2] \in Nat /\ r[1] \in Nat /\ r[2] \in Nat
      BY <3>2, DaysAreNat DEF Proper, Spans
    <3>6. \A x \in HalvesOf(t, refusals)[s] : Proper(x) /\ s[1] <= x[1] /\ x[2] <= s[2]
      <4>1. \A x \in HalvesOf(t, refusals)[l] : Proper(x) /\ l[1] <= x[1] /\ x[2] <= l[2] /\ x[1] \in Nat /\ x[2] \in Nat
        BY <3>3, DaysAreNat DEF HalvesCover, Proper, Spans
      <4>2. \A x \in HalvesOf(t, refusals)[r] : Proper(x) /\ r[1] <= x[1] /\ x[2] <= r[2] /\ x[1] \in Nat /\ x[2] \in Nat
        BY <3>3, DaysAreNat DEF HalvesCover, Proper, Spans
      <4>3. QED  BY <2>2, <2>4, <3>2, <3>4, <3>5, <4>1, <4>2
    <3>7. \A d \in Nat : s[1] <= d /\ d <= s[2] =>
            \E x \in HalvesOf(t, refusals)[s] : ~IsSplitUp(t, refusals, x) /\ x[1] <= d /\ d <= x[2]
      BY <3>2, <3>3, <3>4 DEF HalvesCover
    <3>8. QED  BY <2>2, <3>4, <3>6, <3>7 DEF HalvesCover
  <2>7. QED  BY <2>5, <2>6
<1>2. span[2] - span[1] \in Nat
  <2>1. span[1] \in Nat /\ span[2] \in Nat /\ span[1] <= span[2]
    BY DaysAreNat DEF Proper, Spans
  <2>2. QED  BY <2>1
<1>3. QED  BY <1>1, <1>2


-----------------------------------------------------------------------------
(* The invariant of the backfill.  A chain of parts walks the windows that  *)
(* Starts names, whatever is delivered again; what a part claims of the     *)
(* windows before its own is true of the store.                             *)

Starts == {w \in Days : \E k \in Nat : w = 1 + k * WindowDays}
EndOf(w) == Min({w + WindowDays - 1, LastDay})
\* No request of the window gives less than all, when none is refused.
Clean(w) == \A t \in Selected : \A r \in Asked(t, <<w, EndOf(w)>>, {}) : ~IsTruncated(r)
AllClean == \A w \in Starts : Clean(w)

Stored(day, rows) == \A a \in Wanted : DayOf[a] < day => a \in rows
CleanBefore(day) == \A w \in Starts : w < day => Clean(w)

PartType == [from : Starts, part : Nat, inserted : Nat, errors : Nat, truncated : Nat]
RunnerType ==
  [pc : {"idle", "fetch", "save", "insert", "hand over", "complete", "ack"}, msg : PartType, win : Starts,
   list : SUBSET Entries, chosen : SUBSET Entries, inserted : Nat, asked : Nat, errors : Nat, truncated : Nat]
JobType ==
  [status : {"queued", "running", "complete", "failed"}, done : Int, inserted : Nat, errors : Nat, truncated : Nat]

\* What a part was told of the days before its own; the rows, the count of the rows that
\* the backfill brought and whether a request was refused are arguments.
PartOK(m, rows, count, hit) ==
  /\ m.inserted <= count
  /\ m.errors = 0 /\ m.truncated = 0 => Stored(m.from, rows)
  /\ ~hit /\ m.truncated = 0 => CleanBefore(m.from)

NoError(r) == r.msg.errors = 0 /\ r.errors = 0
NoneCut(r) == r.msg.truncated = 0 /\ r.truncated = 0
RunnerOK(r, rows, count, hit) ==
  /\ PartOK(r.msg, rows, count, hit)
  /\ r.msg.inserted + r.inserted <= count
  /\ r.pc \in {"fetch", "save"} => r.chosen = {}
  /\ NoError(r) /\ NoneCut(r) =>
       /\ r.pc \in {"fetch", "hand over"} => Stored(r.win, rows)
       /\ r.pc \in {"save", "insert"} =>
            \A a \in Wanted : DayOf[a] <= EndOf(r.win) => a \in rows \/ \E e \in r.list \cup r.chosen : e.id = a
       /\ r.pc = "complete" => Wanted \subseteq rows
  /\ ~hit /\ NoneCut(r) =>
       /\ r.pc \in {"fetch", "hand over"} => CleanBefore(r.win)
       /\ r.pc \in {"save", "insert"} => CleanBefore(r.win + 1)
       /\ r.pc = "complete" => AllClean
  /\ ~hit /\ AllClean => \A e \in r.list \cup r.chosen : Selected \cap ReturnedBy[e.id] \subseteq e.tickers

PartsOK ==
  \A m \in BagToSet(parts) : m \in PartType /\ PartOK(m, articles, Cardinality(brought), refused)
RunnersOK ==
  /\ bf \in [Runners -> RunnerType]
  /\ \A b \in Runners : RunnerOK(bf[b], articles, Cardinality(brought), refused)
BroughtOK ==
  /\ IsFiniteSet(brought) /\ brought \subseteq articles /\ refused \in BOOLEAN
  /\ ~refused /\ AllClean => \A a \in brought : \A t \in Selected \cap ReturnedBy[a] : <<a, t>> \in filed
JobOK ==
  /\ job \in JobType
  /\ job.status = "complete" /\ job.errors = 0 /\ job.truncated = 0 =>
       /\ Wanted \subseteq articles /\ job.inserted <= Cardinality(brought)
       /\ ~refused => AllClean

\* As long as nothing was delivered again there is one part: in the queue, or at work.
Working(r) == r.pc \notin {"idle", "ack"}
OnePart ==
  ~redelivered =>
    /\ \A m \in BagToSet(parts) : BagToSet(parts) = {m} /\ parts[m] = 1
    /\ \A b, c \in Runners : Working(bf[b]) /\ Working(bf[c]) => b = c
    /\ \A b \in Runners : Working(bf[b]) => BagToSet(parts) = {} /\ job.status = "running"
    /\ \A b \in Runners : bf[b].pc = "complete" => job.done = LastDay
    /\ job.status = "complete" => job.done = LastDay

BackfillInv == PartsOK /\ RunnersOK /\ BroughtOK /\ JobOK /\ OnePart

-----------------------------------------------------------------------------
(* The windows, and what the requests of one window give.                   *)

LEMMA MinOfTwo ==
  ASSUME NEW x \in Int, NEW y \in Int
  PROVE  Min({x, y}) = IF x <= y THEN x ELSE y
<1> DEFINE least == IF x <= y THEN x ELSE y
<1>1. least \in {x, y} /\ \A z \in {x, y} : least <= z
  OBVIOUS
<1>2. Min({x, y}) \in {x, y} /\ \A z \in {x, y} : Min({x, y}) <= z
  <2> HIDE DEF least
  <2>1. Min({x, y}) = CHOOSE m \in {x, y} : \A z \in {x, y} : m <= z
    BY DEF Min
  <2>2. QED  BY <1>1, <2>1
<1>3. QED  BY <1>2

LEMMA WindowEnds ==
  ASSUME NEW w \in Days
  PROVE  /\ w \in Nat /\ EndOf(w) \in Nat /\ EndOf(w) \in Days /\ w <= EndOf(w) /\ EndOf(w) <= LastDay
         /\ EndOf(w) < w + WindowDays
         /\ EndOf(w) < LastDay => EndOf(w) = (w + WindowDays) - 1
         /\ Proper(<<w, EndOf(w)>>)
<1>1. w \in Nat /\ LastDay \in Nat /\ WindowDays \in Nat /\ 1 <= WindowDays /\ 1 <= w /\ w <= LastDay
  BY BackfillAssumption DEF Days
<1>2. PICK x \in Int : x = w + WindowDays - 1
  BY <1>1
<1>3. EndOf(w) = IF x <= LastDay THEN x ELSE LastDay
  BY <1>1, <1>2, MinOfTwo DEF EndOf
<1>4. EndOf(w) \in Nat /\ w <= EndOf(w) /\ EndOf(w) <= LastDay /\ EndOf(w) < w + WindowDays
  BY <1>1, <1>2, <1>3
<1>5. EndOf(w) < LastDay => EndOf(w) = (w + WindowDays) - 1
  BY <1>1, <1>2, <1>3
<1>6. EndOf(w) \in Days
  BY <1>1, <1>4 DEF Days
<1>7. Proper(<<w, EndOf(w)>>)
  BY <1>4, <1>6 DEF Proper, Spans
<1>8. QED  BY <1>1, <1>4, <1>5, <1>6, <1>7

LEMMA Multiples ==
  ASSUME NEW i \in Nat, NEW j \in Nat, NEW n \in Nat, i * n < j * n
  PROVE  i * n + n <= j * n
<1>1. \A d \in Nat : d * n >= 0
  OBVIOUS
<1>2. ASSUME j <= i PROVE FALSE
  <2>1. PICK d \in Nat : i = j + d
    BY <1>2
  <2>2. i * n = j * n + d * n
    BY <2>1
  <2>3. i * n \in Nat /\ j * n \in Nat /\ d * n \in Nat
    BY <2>1
  <2>4. QED  BY <1>1, <2>2, <2>3
<1>3. PICK d \in Nat : j = (i + 1) + d
  BY <1>2
<1>4. j * n = i * n + n + d * n
  BY <1>3
<1>5. i * n \in Nat /\ j * n \in Nat /\ d * n \in Nat
  BY <1>3
<1>6. QED  BY <1>1, <1>4, <1>5

\* The windows do not overlap, and the day after one begins the next.
LEMMA WindowsAreApart ==
  ASSUME NEW w \in Starts
  PROVE  /\ \A v \in Starts : v <= EndOf(w) => v <= w
         /\ EndOf(w) < LastDay => EndOf(w) + 1 \in Starts
<1>1. w \in Days /\ WindowDays \in Nat
  BY BackfillAssumption DEF Starts
<1>2. PICK k \in Nat : w = 1 + k * WindowDays
  BY DEF Starts
<1>3. k * WindowDays \in Nat /\ w \in Nat /\ EndOf(w) \in Nat
  <2>1. k * WindowDays \in Nat
    BY <1>1
  <2>2. QED  BY <1>1, <2>1, WindowEnds
<1>4. ASSUME NEW v \in Starts, v <= EndOf(w), w < v PROVE FALSE
  <2>1. PICK j \in Nat : v = 1 + j * WindowDays
    BY DEF Starts
  <2>2. j * WindowDays \in Nat /\ v \in Nat
    BY <1>1, <2>1
  <2>3. k * WindowDays < j * WindowDays
    BY <1>2, <1>3, <1>4, <2>1, <2>2
  <2>4. k * WindowDays + WindowDays <= j * WindowDays
    BY <1>1, <2>3, Multiples
  <2>5. EndOf(w) < w + WindowDays
    BY <1>1, WindowEnds
  <2>6. QED  BY <1>1, <1>2, <1>3, <1>4, <2>1, <2>2, <2>4, <2>5
<1>5. ASSUME EndOf(w) < LastDay PROVE EndOf(w) + 1 \in Starts
  <2>1. EndOf(w) = (w + WindowDays) - 1
    BY <1>1, <1>5, WindowEnds
  <2>2. EndOf(w) + 1 \in Days
    BY <1>3, <1>5, DaysAreNat, BackfillAssumption
  <2>3. (k + 1) * WindowDays = k * WindowDays + WindowDays
    BY <1>1
  <2>4. EndOf(w) + 1 = 1 + (k + 1) * WindowDays
    BY <1>1, <1>2, <1>3, <2>1, <2>3
  <2>5. k + 1 \in Nat
    OBVIOUS
  <2>6. QED  BY <2>2, <2>4, <2>5 DEF Starts
<1>6. \A v \in Starts : v \in Nat
  BY DaysAreNat DEF Starts
<1>7. QED  BY <1>3, <1>4, <1>5, <1>6

LEMMA InIsFinite ==
  ASSUME NEW t, NEW span
  PROVE  IsFiniteSet(In(t, span)) /\ Cardinality(In(t, span)) \in Nat
<1>1. In(t, span) \subseteq Articles /\ IsFiniteSet(Articles)
  BY BackfillAssumption DEF In
<1>2. QED  BY <1>1, FS_Subset, FS_CardinalityType

Requests(w, refusals) == UNION {Asked(t, <<w, EndOf(w)>>, refusals) : t \in Selected}

LEMMA RequestsAreSpans ==
  ASSUME NEW w \in Starts, NEW refusals
  PROVE  /\ IsFiniteSet(Requests(w, refusals)) /\ Cardinality(Requests(w, refusals)) \in Nat
         /\ \A r \in Requests(w, refusals) :
              /\ r[1] \in Selected /\ r[2] \in Spans /\ r = <<r[1], r[2]>>
              /\ w <= r[2][1] /\ r[2][2] <= EndOf(w)
<1>1. Proper(<<w, EndOf(w)>>)
  BY WindowEnds DEF Starts
<1>2. ASSUME NEW r \in Requests(w, refusals)
      PROVE  /\ r[1] \in Selected /\ r[2] \in Spans /\ r = <<r[1], r[2]>>
             /\ w <= r[2][1] /\ r[2][2] <= EndOf(w)
  <2>1. PICK t \in Selected : r \in Asked(t, <<w, EndOf(w)>>, refusals)
    BY DEF Requests
  <2>2. PICK s \in HalvesOf(t, refusals)[<<w, EndOf(w)>>] : r = <<t, s>>
    BY <2>1, AskedIsHalves
  <2>3. Proper(s) /\ w <= s[1] /\ s[2] <= EndOf(w)
    BY <1>1, <2>2, HalvesCoverSpan DEF HalvesCover
  <2>4. QED  BY <2>2, <2>3 DEF Proper
<1>3. IsFiniteSet(Selected \X Spans)
  <2>1. IsFiniteSet(Days)
    BY BackfillAssumption, FS_Interval DEF Days
  <2>2. IsFiniteSet(Spans)
    BY <2>1, FS_Product DEF Spans
  <2>3. QED  BY <2>2, FS_Product, BackfillAssumption
<1>4. Requests(w, refusals) \subseteq Selected \X Spans
  BY <1>2
<1>5. QED  BY <1>2, <1>3, <1>4, FS_Subset, FS_CardinalityType

\* In a clean window every article that a ticker's query returns is in an answer that is kept.
LEMMA CleanGivesAll ==
  ASSUME NEW w \in Starts, Clean(w), NEW t \in Selected, NEW a \in Articles, t \in ReturnedBy[a],
         w <= DayOf[a], DayOf[a] <= EndOf(w)
  PROVE  \E r \in Requests(w, {}) :
           r[1] = t /\ IsKept(r) /\ a \in In(r[1], r[2]) /\ Answers(r) = {In(r[1], r[2])}
<1>1. Proper(<<w, EndOf(w)>>) /\ DayOf[a] \in Nat
  BY WindowEnds, DaysAreNat, BackfillAssumption DEF Starts, Days
<1>2. PICK s \in HalvesOf(t, {})[<<w, EndOf(w)>>] : ~IsSplitUp(t, {}, s) /\ s[1] <= DayOf[a] /\ DayOf[a] <= s[2]
  BY <1>1, HalvesCoverSpan DEF HalvesCover
<1>3. Proper(s)
  BY <1>1, <1>2, HalvesCoverSpan DEF HalvesCover
<1>4. PICK r : r = <<t, s>>
  OBVIOUS
<1>5. r[1] = t /\ r[2] = s
  BY <1>4
<1>6. r \in Asked(t, <<w, EndOf(w)>>, {})
  BY <1>2, <1>4, AskedIsHalves
<1>7. IsKept(r)
  BY <1>2, <1>5 DEF IsSplitUp, IsKept
<1>8. ~LooksCapped(r[1], r[2])
  BY <1>6, <1>7 DEF Clean, IsTruncated
<1>9. a \in In(r[1], r[2])
  <2>1. s[1] \in Nat /\ s[2] \in Nat
    BY <1>3, DaysAreNat DEF Proper, Spans
  <2>2. DayOf[a] \in s[1] .. s[2]
    BY <1>1, <1>2, <2>1
  <2>3. QED  BY <1>5, <2>2 DEF In
<1>10. Cardinality(In(r[1], r[2])) <= Cap
  <2>1. Cardinality(In(r[1], r[2])) \in Nat
    BY InIsFinite
  <2>2. QED  BY <1>8, <2>1, BackfillAssumption DEF LooksCapped
<1>11. Answers(r) = {In(r[1], r[2])}
  BY <1>10 DEF Answers
<1>12. r \in Requests(w, {})
  BY <1>6 DEF Requests
<1>13. QED  BY <1>5, <1>7, <1>9, <1>11, <1>12

LEMMA MergeKeeps ==
  ASSUME NEW entries \in SUBSET Entries
  PROVE  /\ Merge(entries) \in SUBSET Entries
         /\ \A e \in entries : \E m \in Merge(entries) : m.id = e.id
         /\ \A m \in Merge(entries) : \E e \in entries : e.id = m.id
         /\ \A m \in Merge(entries) : \A e \in entries : e.id = m.id => e.tickers \subseteq m.tickers
<1> DEFINE Names(a) == UNION {e.tickers : e \in {x \in entries : x.id = a}}
<1>1. Merge(entries) = {[id |-> a, tickers |-> Names(a)] : a \in {e.id : e \in entries}}
  BY DEF Merge
<1>2. \A e \in entries : e.id \in Articles /\ e.tickers \subseteq Tickers
  BY DEF Entries
<1>3. \A a : Names(a) \subseteq Tickers /\ \A e \in entries : e.id = a => e.tickers \subseteq Names(a)
  BY <1>2
<1> HIDE DEF Names
<1>4. ASSUME NEW m \in Merge(entries)
      PROVE  m \in Entries /\ m.tickers = Names(m.id) /\ \E e \in entries : e.id = m.id
  <2>1. PICK e \in entries : m = [id |-> e.id, tickers |-> Names(e.id)]
    BY <1>1
  <2>2. QED  BY <1>2, <1>3, <2>1 DEF Entries
<1>5. ASSUME NEW e \in entries PROVE \E m \in Merge(entries) : m.id = e.id
  <2>1. [id |-> e.id, tickers |-> Names(e.id)] \in Merge(entries)
    BY <1>1
  <2>2. QED  BY <2>1
<1>6. QED  BY <1>3, <1>4, <1>5

\* The list of a window that is clean and was asked for without a refusal.
GivenBy(r, answer) == {Entry(a, {r[1]}) : a \in answer[r]}
Given(kept, answer) == UNION {GivenBy(r, answer) : r \in kept}
FetchedList(kept, answer) == Merge(Given(kept, answer))

LEMMA FetchedIsTyped ==
  ASSUME NEW w \in Starts, NEW refusals, NEW kept \in SUBSET Requests(w, refusals), NEW answer \in Answered(kept)
  PROVE  /\ Given(kept, answer) \in SUBSET Entries
         /\ FetchedList(kept, answer) \in SUBSET Entries
         /\ \A r \in kept : answer[r] \in Answers(r) /\ answer[r] \subseteq In(r[1], r[2])
<1>1. \A r \in kept : answer[r] \in Answers(r)
  BY DEF Answered
<1>2. \A r \in kept : answer[r] \subseteq In(r[1], r[2])
  BY <1>1 DEF Answers
<1>3. \A r \in kept : \A a \in answer[r] : Entry(a, {r[1]}) \in Entries
  <2>1. \A r \in kept : r[1] \in Tickers
    BY RequestsAreSpans, BackfillAssumption
  <2>2. \A r \in kept : \A a \in answer[r] : a \in Articles /\ Mentions[a] \subseteq Tickers
    BY <1>2, NewsAssumption DEF In
  <2>3. QED  BY <2>1, <2>2 DEF Entry, Entries
<1>4. Given(kept, answer) \in SUBSET Entries
  <2>1. \A r \in kept : GivenBy(r, answer) \subseteq Entries
    BY <1>3 DEF GivenBy
  <2>2. QED  BY <2>1 DEF Given
<1>5. QED  BY <1>1, <1>2, <1>4, MergeKeeps DEF FetchedList

LEMMA CleanListIsWhole ==
  ASSUME NEW w \in Starts, Clean(w), NEW answer \in Answered({r \in Requests(w, {}) : IsKept(r)})
  PROVE  LET list == FetchedList({r \in Requests(w, {}) : IsKept(r)}, answer) IN
         /\ \A a \in Wanted : w <= DayOf[a] /\ DayOf[a] <= EndOf(w) => \E e \in list : e.id = a
         /\ \A e \in list : Selected \cap ReturnedBy[e.id] \subseteq e.tickers
<1> DEFINE kept == {r \in Requests(w, {}) : IsKept(r)}
           entries == Given(kept, answer)
           list == FetchedList(kept, answer)
<1>1. /\ entries \in SUBSET Entries
      /\ \A r \in kept : answer[r] \in Answers(r) /\ answer[r] \subseteq In(r[1], r[2])
  <2>1. kept \in SUBSET Requests(w, {}) /\ answer \in Answered(kept)
    OBVIOUS
  <2>2. QED  BY <2>1, FetchedIsTyped
<1>2. ASSUME NEW a \in Articles, NEW t \in Selected \cap ReturnedBy[a], w <= DayOf[a], DayOf[a] <= EndOf(w)
      PROVE  \E e \in entries : e.id = a /\ t \in e.tickers
  <2>1. PICK r \in kept : r[1] = t /\ a \in In(r[1], r[2]) /\ Answers(r) = {In(r[1], r[2])}
    BY <1>2, CleanGivesAll
  <2>2. a \in answer[r]
    BY <1>1, <2>1
  <2>3. Entry(a, {r[1]}) \in entries
    <3>1. Entry(a, {r[1]}) \in GivenBy(r, answer)
      BY <2>2 DEF GivenBy
    <3>2. QED  BY <3>1 DEF Given
  <2>4. Entry(a, {r[1]}).id = a /\ t \in Entry(a, {r[1]}).tickers
    BY <2>1 DEF Entry
  <2>5. QED  BY <2>3, <2>4
<1>3. ASSUME NEW e \in entries PROVE e.id \in Articles /\ w <= DayOf[e.id] /\ DayOf[e.id] <= EndOf(w)
  <2>1. PICK r \in kept : \E a \in answer[r] : e = Entry(a, {r[1]})
    <3>1. PICK r \in kept : e \in GivenBy(r, answer)
      BY DEF Given
    <3>2. QED  BY <3>1 DEF GivenBy
  <2>2. e.id \in In(r[1], r[2])
    BY <1>1, <2>1 DEF Entry
  <2>3. r[2] \in Spans /\ w <= r[2][1] /\ r[2][2] <= EndOf(w)
    BY RequestsAreSpans
  <2>4. e.id \in Articles /\ DayOf[e.id] \in r[2][1] .. r[2][2] /\ DayOf[e.id] \in Nat
    BY <2>2, BackfillAssumption DEF In
  <2>5. w \in Nat /\ EndOf(w) \in Nat /\ r[2][1] \in Nat /\ r[2][2] \in Nat
    BY <2>3, WindowEnds, DaysAreNat DEF Starts, Spans
  <2>6. QED  BY <2>3, <2>4, <2>5
<1>4. list = Merge(entries)
  BY DEF FetchedList
<1> HIDE DEF entries, list
<1>5. ASSUME NEW a \in Wanted, w <= DayOf[a], DayOf[a] <= EndOf(w) PROVE \E e \in list : e.id = a
  <2>1. a \in Articles /\ \E t \in Selected : t \in ReturnedBy[a]
    BY DEF Wanted
  <2>2. \E e \in entries : e.id = a
    BY <1>2, <1>5, <2>1
  <2>3. QED  BY <1>1, <1>4, <2>2, MergeKeeps
<1>6. ASSUME NEW m \in list, NEW t \in Selected \cap ReturnedBy[m.id] PROVE t \in m.tickers
  <2>1. PICK e \in entries : e.id = m.id
    BY <1>1, <1>4, MergeKeeps
  <2>2. PICK x \in entries : x.id = m.id /\ t \in x.tickers
    BY <1>2, <1>3, <1>6, <2>1
  <2>3. QED  BY <1>1, <1>4, <2>2, MergeKeeps
<1>7. QED  BY <1>5, <1>6 DEF list

\* The count of the cut answers says whether the window is clean.
LEMMA CutIsCounted ==
  ASSUME NEW w \in Starts, NEW refusals, NEW kept \in SUBSET Requests(w, refusals)
  PROVE  /\ Cardinality({r \in kept : IsTruncated(r)}) \in Nat
         /\ refusals = {} /\ kept = {r \in Requests(w, {}) : IsKept(r)} /\ Cardinality({r \in kept : IsTruncated(r)}) = 0
              => Clean(w)
<1> DEFINE cut == {r \in kept : IsTruncated(r)}
<1>1. IsFiniteSet(cut)
  BY RequestsAreSpans, FS_Subset
<1>2. Cardinality(cut) \in Nat /\ (Cardinality(cut) = 0 => cut = {})
  BY <1>1, FS_CardinalityType, FS_EmptySet
<1>3. ASSUME kept = {r \in Requests(w, {}) : IsKept(r)}, cut = {} PROVE Clean(w)
  BY <1>3 DEF Clean, Requests, IsTruncated
<1>4. QED  BY <1>2, <1>3

-----------------------------------------------------------------------------
(* What other writers do leaves a part's claims true.                       *)

LEMMA PartGrows ==
  ASSUME NEW m \in PartType, NEW rows, NEW more, rows \subseteq more, NEW n \in Nat, NEW k \in Nat, n <= k,
         NEW hit \in BOOLEAN, NEW now \in BOOLEAN, hit => now, PartOK(m, rows, n, hit)
  PROVE  PartOK(m, more, k, now)
  BY DEF PartOK, PartType, Stored

LEMMA RunnerGrows ==
  ASSUME NEW r \in RunnerType, NEW rows, NEW more, rows \subseteq more, NEW n \in Nat, NEW k \in Nat, n <= k,
         NEW hit \in BOOLEAN, NEW now \in BOOLEAN, hit => now, RunnerOK(r, rows, n, hit)
  PROVE  RunnerOK(r, more, k, now)
<1>1. r.msg \in PartType /\ r.inserted \in Nat /\ r.msg.inserted \in Nat
  BY DEF RunnerType, PartType
<1> DEFINE told == r.msg.inserted
           own == r.inserted
<1>2. PartOK(r.msg, rows, n, hit) /\ told + own <= n
  BY Zenon DEF RunnerOK
<1>3. told + own <= k
  <2>1. told \in Nat /\ own \in Nat
    BY <1>1
  <2> HIDE DEF told, own
  <2>2. QED  BY <1>2, <2>1
<1>4. PartOK(r.msg, more, k, now)
  BY <1>1, <1>2, PartGrows
<1>5. \A day : Stored(day, rows) => Stored(day, more)
  BY DEF Stored
<1>6. QED  BY <1>3, <1>5, <1>4 DEF RunnerOK

\* The store keeps what it has, and so does what is remembered of it.
OnlyGrows ==
  /\ articles \subseteq articles' /\ brought \subseteq brought' /\ filed \subseteq filed'
  /\ IsFiniteSet(brought') /\ refused' \in BOOLEAN /\ (refused => refused')

LEMMA CountGrows ==
  ASSUME BackfillInv, OnlyGrows
  PROVE  Cardinality(brought) \in Nat /\ Cardinality(brought') \in Nat /\ Cardinality(brought) <= Cardinality(brought')
  BY FS_Subset, FS_CardinalityType DEF BackfillInv, BroughtOK, OnlyGrows

LEMMA RunnerMoves ==
  ASSUME BackfillInv, OnlyGrows, NEW b \in Runners, NEW i \in RunnerType, bf' = [bf EXCEPT ![b] = i],
         RunnerOK(i, articles', Cardinality(brought'), refused')
  PROVE  RunnersOK'
<1>1. ASSUME NEW c \in Runners PROVE RunnerOK(bf'[c], articles', Cardinality(brought'), refused')
  <2>1. CASE c = b
    BY <2>1 DEF BackfillInv, RunnersOK
  <2>2. CASE c # b
    <3>1. bf'[c] = bf[c] /\ bf[c] \in RunnerType /\ RunnerOK(bf[c], articles, Cardinality(brought), refused)
      BY <2>2 DEF BackfillInv, RunnersOK
    <3>2. refused \in BOOLEAN /\ refused' \in BOOLEAN /\ (refused => refused') /\ articles \subseteq articles'
      BY DEF BackfillInv, BroughtOK, OnlyGrows
    <3>3. RunnerOK(bf[c], articles', Cardinality(brought'), refused')
      BY <3>1, <3>2, CountGrows, RunnerGrows
    <3>4. QED  BY <3>1, <3>3
  <2>3. QED  BY <2>1, <2>2
<1>2. bf' \in [Runners -> RunnerType]
  BY DEF BackfillInv, RunnersOK
<1>3. QED  BY <1>1, <1>2 DEF RunnersOK

LEMMA PartsMove ==
  ASSUME BackfillInv, OnlyGrows,
         \A m \in BagToSet(parts') :
           m \in BagToSet(parts) \/ (m \in PartType /\ PartOK(m, articles', Cardinality(brought'), refused'))
  PROVE  PartsOK'
<1>1. refused \in BOOLEAN /\ refused' \in BOOLEAN /\ (refused => refused') /\ articles \subseteq articles'
  BY DEF BackfillInv, BroughtOK, OnlyGrows
<1>2. ASSUME NEW m \in BagToSet(parts) PROVE m \in PartType /\ PartOK(m, articles', Cardinality(brought'), refused')
  <2>1. m \in PartType /\ PartOK(m, articles, Cardinality(brought), refused)
    BY DEF BackfillInv, PartsOK
  <2>2. QED  BY <1>1, <2>1, CountGrows, PartGrows
<1>3. QED  BY <1>2 DEF PartsOK

LEMMA SameStore ==
  ASSUME BackfillInv, UNCHANGED <<articles, filed, brought, refused>>
  PROVE  OnlyGrows /\ BroughtOK'
  BY DEF BackfillInv, BroughtOK, OnlyGrows

LEMMA JobGrows ==
  ASSUME BackfillInv, OnlyGrows, job' = job \/ (job' \in JobType /\ job'.status # "complete")
  PROVE  JobOK'
<1>1. CASE job' = job
  BY <1>1, CountGrows DEF BackfillInv, JobOK, JobType, OnlyGrows
<1>2. CASE job' \in JobType /\ job'.status # "complete"
  BY <1>2 DEF JobOK
<1>3. QED  BY <1>1, <1>2

\* A runner that goes on working.
LEMMA KeepsWorking ==
  ASSUME BackfillInv, NEW b \in Runners, NEW i \in RunnerType, bf' = [bf EXCEPT ![b] = i], Working(bf[b]),
         i.pc # "complete", UNCHANGED <<parts, job, redelivered>>
  PROVE  OnePart'
<1>1. bf'[b] = i /\ \A c \in Runners : c # b => bf'[c] = bf[c]
  BY DEF BackfillInv, RunnersOK
<1>2. QED  BY <1>1 DEF BackfillInv, OnePart, Working

LEMMA NowInStore == BackfillInv => \A b \in Runners : bf[b] \in RunnerType /\ RunnerOK(bf[b], articles, Cardinality(brought), refused)
  BY DEF BackfillInv, RunnersOK

-----------------------------------------------------------------------------
(* One lemma for each step of a part.                                       *)

LEMMA FirstIsPart == First \in PartType /\ 1 \in Starts /\ Stored(1, {}) /\ CleanBefore(1)
<1>1. 1 \in Days
  BY BackfillAssumption DEF Days
<1>2. 1 = 1 + 0 * WindowDays
  BY BackfillAssumption
<1>3. 1 \in Starts
  BY <1>1, <1>2 DEF Starts
<1>4. First \in PartType
  BY <1>3 DEF First, PartType
<1>5. Stored(1, {})
  BY BackfillAssumption DEF Stored, Wanted
<1>6. CleanBefore(1)
  BY DaysAreNat DEF CleanBefore, Starts
<1>7. QED  BY <1>3, <1>4, <1>5, <1>6

LEMMA RestingIsOK ==
  ASSUME NEW rows, NEW n \in Nat, NEW hit \in BOOLEAN
  PROVE  Resting \in RunnerType /\ RunnerOK(Resting, rows, n, hit)
<1>1. Resting \in RunnerType
  BY FirstIsPart DEF Resting, RunnerType
<1>2. PartOK(First, rows, n, hit)
  BY FirstIsPart DEF PartOK, First, Stored
<1>3. /\ Resting.pc = "idle" /\ Resting.msg = First /\ Resting.chosen = {} /\ Resting.list = {}
      /\ Resting.msg.inserted + Resting.inserted = 0
  BY DEF Resting, First
<1>4. QED  BY <1>1, <1>2, <1>3 DEF RunnerOK

LEMMA PutOn ==
  ASSUME NEW bag, NEW m
  PROVE  /\ BagToSet(bag (+) SetToBag({m})) = BagToSet(bag) \cup {m}
         /\ BagToSet(bag) = {} => (bag (+) SetToBag({m}))[m] = 1
  BY DEF (+), SetToBag, BagToSet

LEMMA TakeOff ==
  ASSUME NEW bag, NEW m
  PROVE  /\ BagToSet(bag (-) SetToBag({m})) \subseteq BagToSet(bag)
         /\ BagToSet(bag) = {m} /\ bag[m] = 1 => BagToSet(bag (-) SetToBag({m})) = {}
  BY DEF (-), SetToBag, BagToSet

LEMMA TakeStep ==
  ASSUME BackfillInv, NEW b \in Runners, Take(b)
  PROVE  BackfillInv'
<1>1. PICK m \in BagToSet(parts) :
        /\ parts' = parts (-) SetToBag({m})
        /\ Put(b, [Resting EXCEPT !.pc = "fetch", !.msg = m, !.win = m.from])
        /\ job' = [job EXCEPT !.status = "running", !.done = m.from - 1]
  BY DEF Take
<1>2. bf[b].pc = "idle" /\ UNCHANGED <<articles, filed, brought, refused, redelivered>>
  BY DEF Take, storeVars
<1>3. OnlyGrows /\ BroughtOK'
  BY <1>2, SameStore
<1>4. m \in PartType /\ PartOK(m, articles, Cardinality(brought), refused)
  BY DEF BackfillInv, PartsOK
<1> DEFINE i == [Resting EXCEPT !.pc = "fetch", !.msg = m, !.win = m.from]
<1>5. /\ i.pc = "fetch" /\ i.msg = m /\ i.win = m.from /\ i.list = {} /\ i.chosen = {}
      /\ i.inserted = 0 /\ i.errors = 0 /\ i.truncated = 0
  BY DEF Resting
<1>6. m.from \in Starts /\ m.from \in Nat /\ m.inserted \in Nat
  BY <1>4, DaysAreNat DEF PartType, Starts
<1>7. i \in RunnerType
  BY <1>4, <1>6 DEF Resting, RunnerType
<1> HIDE DEF i
<1>8. RunnerOK(i, articles, Cardinality(brought), refused)
  BY <1>4, <1>5, <1>6 DEF RunnerOK, PartOK, NoError, NoneCut
<1>9. bf' = [bf EXCEPT ![b] = i]
  BY <1>1 DEF Put, i
<1>10. RunnersOK'
  BY <1>2, <1>3, <1>7, <1>8, <1>9, RunnerMoves
<1>11. PartsOK'
  BY <1>1, <1>3, TakeOff, PartsMove
<1>12. job' \in JobType /\ job'.status = "running"
  <2>1. job \in JobType
    BY DEF BackfillInv, JobOK
  <2>2. m.from - 1 \in Int
    BY <1>6
  <2>3. QED  BY <1>1, <2>1, <2>2 DEF JobType
<1>13. JobOK'
  BY <1>3, <1>12, JobGrows
<1>14. OnePart'
  <2>1. SUFFICES ASSUME ~redelivered PROVE OnePart'
    BY <1>2 DEF OnePart
  <2>2. BagToSet(parts') = {}
    BY <1>1, <2>1, TakeOff DEF BackfillInv, OnePart
  <2>3. \A c \in Runners : ~Working(bf[c])
    BY <1>1, <2>1 DEF BackfillInv, OnePart
  <2>4. \A c \in Runners : c # b => bf'[c] = bf[c]
    BY <1>9 DEF BackfillInv, RunnersOK
  <2>5. bf'[b].pc = "fetch"
    BY <1>5, <1>9 DEF BackfillInv, RunnersOK
  <2>6. QED  BY <1>12, <2>2, <2>3, <2>4, <2>5 DEF OnePart, Working
<1>15. QED  BY <1>3, <1>10, <1>11, <1>13, <1>14 DEF BackfillInv

\* A window that was asked for.
KeptOf(w, refusals) == {r \in Requests(w, refusals) \ refusals : IsKept(r)}
AfterFetch(r, refusals, answer) ==
  [r EXCEPT !.pc = "save", !.asked = @ + Cardinality(Requests(r.win, refusals)),
     !.errors = @ + Cardinality(refusals),
     !.truncated = @ + Cardinality({x \in KeptOf(r.win, refusals) : IsTruncated(x)}),
     !.list = FetchedList(KeptOf(r.win, refusals), answer)]

LEMMA FetchedRunner ==
  ASSUME BackfillInv, NEW b \in Runners, bf[b].pc = "fetch", NEW refusals \in {{}} \cup {{r} : r \in Requests(bf[b].win, {})},
         NEW answer \in Answered(KeptOf(bf[b].win, refusals))
  PROVE  /\ AfterFetch(bf[b], refusals, answer) \in RunnerType /\ AfterFetch(bf[b], refusals, answer).pc = "save"
         /\ \A hit \in BOOLEAN : (hit <=> refused \/ refusals # {}) =>
              RunnerOK(AfterFetch(bf[b], refusals, answer), articles, Cardinality(brought), hit)
<1> DEFINE w == bf[b].win
           kept == KeptOf(w, refusals)
           n == Cardinality({r \in kept : IsTruncated(r)})
           list == FetchedList(kept, answer)
           i == AfterFetch(bf[b], refusals, answer)
<1>1. bf[b] \in RunnerType /\ RunnerOK(bf[b], articles, Cardinality(brought), refused) /\ w \in Starts
  BY NowInStore DEF RunnerType
<1>2. kept \in SUBSET Requests(w, refusals)
  BY DEF KeptOf
<1>3. i = [bf[b] EXCEPT !.pc = "save", !.asked = @ + Cardinality(Requests(w, refusals)),
              !.errors = @ + Cardinality(refusals), !.truncated = @ + n, !.list = list]
  BY DEF AfterFetch
<1>4. n \in Nat /\ (refusals = {} /\ n = 0 => Clean(w))
  <2>1. refusals = {} => kept = {r \in Requests(w, {}) : IsKept(r)}
    BY DEF KeptOf
  <2> HIDE DEF kept, w
  <2>2. QED  BY <1>1, <1>2, <2>1, CutIsCounted
<1>5. list \in SUBSET Entries
  BY <1>1, <1>2, FetchedIsTyped
<1>6. Cardinality(refusals) \in Nat /\ (refusals # {} => Cardinality(refusals) = 1) /\ (refusals = {} => Cardinality(refusals) = 0)
  <2>1. refusals = {} \/ \E r : refusals = {r}
    OBVIOUS
  <2>2. Cardinality({}) = 0 /\ \A r : Cardinality({r}) = 1
    BY FS_Singleton, FS_EmptySet
  <2>3. CASE refusals = {}
    BY <2>2, <2>3
  <2>4. ASSUME NEW r, refusals = {r} PROVE Cardinality(refusals) = 1 /\ refusals # {}
    BY <2>2, <2>4
  <2>5. QED  BY <2>1, <2>3, <2>4
<1>7. Cardinality(Requests(w, refusals)) \in Nat
  BY <1>1, RequestsAreSpans
<1>8. refusals = {} /\ Clean(w) =>
        /\ \A a \in Wanted : w <= DayOf[a] /\ DayOf[a] <= EndOf(w) => \E e \in list : e.id = a
        /\ \A e \in list : Selected \cap ReturnedBy[e.id] \subseteq e.tickers
  <2>1. SUFFICES ASSUME refusals = {}, Clean(w)
                 PROVE  /\ \A a \in Wanted : w <= DayOf[a] /\ DayOf[a] <= EndOf(w) => \E e \in list : e.id = a
                        /\ \A e \in list : Selected \cap ReturnedBy[e.id] \subseteq e.tickers
    OBVIOUS
  <2>2. kept = {r \in Requests(w, {}) : IsKept(r)}
    BY <2>1 DEF KeptOf
  <2>3. answer \in Answered({r \in Requests(w, {}) : IsKept(r)})
    BY <2>2
  <2>4. QED  BY <1>1, <2>1, <2>2, <2>3, CleanListIsWhole
<1> HIDE DEF list, n, kept, w, i
<1>9. i \in RunnerType
  <2>1. /\ bf[b].asked + Cardinality(Requests(w, refusals)) \in Nat
        /\ bf[b].errors + Cardinality(refusals) \in Nat /\ bf[b].truncated + n \in Nat
    <3>1. bf[b].asked \in Nat /\ bf[b].errors \in Nat /\ bf[b].truncated \in Nat
      BY <1>1 DEF RunnerType
    <3>2. \A x, y \in Nat : x + y \in Nat
      OBVIOUS
    <3>3. QED  BY <1>4, <1>6, <1>7, <3>1, <3>2, Zenon
  <2>2. QED  BY <1>1, <1>5, <1>3, <2>1 DEF RunnerType
<1>10. /\ i.pc = "save" /\ i.msg = bf[b].msg /\ i.win = w /\ i.list = list /\ i.chosen = bf[b].chosen
      /\ i.inserted = bf[b].inserted /\ i.errors = bf[b].errors + Cardinality(refusals) /\ i.truncated = bf[b].truncated + n
  BY <1>1, <1>3 DEF RunnerType, w
<1>11. /\ bf[b].errors \in Nat /\ bf[b].truncated \in Nat /\ w \in Nat /\ EndOf(w) \in Nat
       /\ \A a \in Articles : DayOf[a] \in Nat
       /\ \A v \in Starts : v \in Nat
  BY <1>1, WindowEnds, DaysAreNat, BackfillAssumption DEF RunnerType, Starts, Days
<1>12. /\ NoneCut(i) => NoneCut(bf[b]) /\ n = 0
       /\ NoError(i) => NoError(bf[b]) /\ refusals = {}
  BY <1>4, <1>6, <1>10, <1>11 DEF NoneCut, NoError
<1>13. bf[b].chosen = {} /\ PartOK(i.msg, articles, Cardinality(brought), refused)
  BY <1>1, <1>10 DEF RunnerOK
<1>14. ASSUME NEW hit \in BOOLEAN, hit <=> refused \/ refusals # {}
       PROVE  RunnerOK(i, articles, Cardinality(brought), hit)
  <2>1. PartOK(i.msg, articles, Cardinality(brought), hit) /\ i.msg.inserted + i.inserted <= Cardinality(brought)
    BY <1>1, <1>10, <1>13, <1>14 DEF RunnerOK, PartOK
  <2>2. ASSUME NoError(i), NoneCut(i)
        PROVE  \A a \in Wanted : DayOf[a] <= EndOf(i.win) => a \in articles \/ \E e \in i.list \cup i.chosen : e.id = a
    <3>1. Stored(w, articles) /\ refusals = {} /\ Clean(w)
      BY <1>1, <1>4, <1>12, <2>2 DEF RunnerOK, w
    <3>2. ASSUME NEW a \in Wanted, DayOf[a] <= EndOf(w) PROVE a \in articles \/ \E e \in list : e.id = a
      <4>1. DayOf[a] \in Nat
        BY <1>11 DEF Wanted
      <4>2. CASE DayOf[a] < w
        BY <3>1, <4>2 DEF Stored
      <4>3. CASE w <= DayOf[a]
        BY <1>8, <3>1, <3>2, <4>3
      <4>4. QED  BY <1>11, <4>1, <4>2, <4>3
    <3>3. QED  BY <1>10, <3>2
  <2>3. ASSUME ~hit, NoneCut(i) PROVE CleanBefore(i.win + 1)
    <3>1. CleanBefore(w) /\ Clean(w)
      BY <1>1, <1>4, <1>12, <1>14, <2>3 DEF RunnerOK, w
    <3>2. \A v \in Starts : v < w + 1 => v < w \/ v = w
      BY <1>11
    <3>3. QED  BY <1>10, <3>1, <3>2 DEF CleanBefore
  <2>4. ASSUME ~hit, AllClean PROVE \A e \in i.list \cup i.chosen : Selected \cap ReturnedBy[e.id] \subseteq e.tickers
    BY <1>1, <1>8, <1>10, <1>13, <1>14, <2>4 DEF AllClean
  <2>5. i.chosen = {} /\ i.pc = "save"
    BY <1>10, <1>13
  <2>6. QED  BY <2>1, <2>2, <2>3, <2>4, <2>5 DEF RunnerOK
<1>15. QED  BY <1>9, <1>10, <1>14 DEF i

LEMMA FetchStep ==
  ASSUME BackfillInv, NEW b \in Runners, FetchWindow(b)
  PROVE  BackfillInv'
<1>1. PICK refusals \in {{}} \cup {{r} : r \in Requests(bf[b].win, {})} :
        /\ IF refusals = {} THEN UNCHANGED <<refused, faults>> ELSE Fault /\ refused' = TRUE
        /\ \E answer \in Answered(KeptOf(bf[b].win, refusals)) : Put(b, AfterFetch(bf[b], refusals, answer))
  BY DEF FetchWindow, Requests, WindowEnd, EndOf, FetchedList, Given, GivenBy, KeptOf, AfterFetch
<1>2. PICK answer \in Answered(KeptOf(bf[b].win, refusals)) : Put(b, AfterFetch(bf[b], refusals, answer))
  BY <1>1
<1> DEFINE i == AfterFetch(bf[b], refusals, answer)
<1>3. bf[b].pc = "fetch" /\ UNCHANGED <<articles, filed, parts, job, brought, redelivered>>
  BY DEF FetchWindow, storeVars
<1>4. refused \in BOOLEAN /\ refused' \in BOOLEAN /\ (refused' <=> refused \/ refusals # {})
  BY <1>1 DEF BackfillInv, BroughtOK
<1>5. i \in RunnerType /\ i.pc = "save" /\ RunnerOK(i, articles, Cardinality(brought), refused')
  BY <1>3, <1>4, FetchedRunner
<1>6. bf' = [bf EXCEPT ![b] = i]
  BY <1>2 DEF Put
<1> HIDE DEF i
<1>7. OnlyGrows /\ BroughtOK'
  BY <1>3, <1>4 DEF BackfillInv, BroughtOK, OnlyGrows
<1>8. RunnersOK'
  BY <1>3, <1>5, <1>6, <1>7, RunnerMoves
<1>9. PartsOK' /\ JobOK'
  BY <1>3, <1>7, PartsMove, JobGrows
<1>10. OnePart'
  BY <1>3, <1>5, <1>6, KeepsWorking DEF Working
<1>11. QED  BY <1>7, <1>8, <1>9, <1>10 DEF BackfillInv

LEMMA FilterStep ==
  ASSUME BackfillInv, NEW b \in Runners, Filter(b)
  PROVE  BackfillInv'
<1>1. PICK chunk \in Chunks(bf[b].list) :
        Put(b, [bf[b] EXCEPT !.pc = "insert", !.list = @ \ chunk, !.chosen = {e \in chunk : e.id \notin articles}])
  BY DEF Filter
<1>2. bf[b].pc = "save" /\ UNCHANGED <<articles, filed, parts, job, brought, refused, redelivered>>
  BY DEF Filter, storeVars
<1>3. bf[b] \in RunnerType /\ RunnerOK(bf[b], articles, Cardinality(brought), refused)
  BY NowInStore
<1>4. chunk \subseteq bf[b].list
  BY DEF Chunks
<1> DEFINE new == {e \in chunk : e.id \notin articles}
           i == [bf[b] EXCEPT !.pc = "insert", !.list = @ \ chunk, !.chosen = new]
<1>5. /\ i \in RunnerType /\ i.pc = "insert" /\ i.msg = bf[b].msg /\ i.win = bf[b].win /\ i.inserted = bf[b].inserted
      /\ i.errors = bf[b].errors /\ i.truncated = bf[b].truncated /\ i.list = bf[b].list \ chunk /\ i.chosen = new
  BY <1>3, <1>4 DEF RunnerType
<1>6. bf' = [bf EXCEPT ![b] = i]
  BY <1>1 DEF Put
<1> HIDE DEF i
<1>7. i.list \cup i.chosen \subseteq bf[b].list \cup bf[b].chosen /\ bf[b].chosen = {}
  BY <1>2, <1>3, <1>4, <1>5 DEF RunnerOK
<1>8. \A e \in bf[b].list \cup bf[b].chosen : e.id \in articles \/ e \in i.list \cup i.chosen
  BY <1>5, <1>7
<1>9. (NoError(i) <=> NoError(bf[b])) /\ (NoneCut(i) <=> NoneCut(bf[b]))
  BY <1>5 DEF NoError, NoneCut
<1>10. RunnerOK(i, articles, Cardinality(brought), refused)
  BY <1>2, <1>3, <1>5, <1>7, <1>8, <1>9, Zenon DEF RunnerOK
<1>11. OnlyGrows /\ BroughtOK'
  BY <1>2, SameStore
<1>12. RunnersOK'
  BY <1>2, <1>5, <1>6, <1>10, <1>11, RunnerMoves
<1>13. PartsOK' /\ JobOK'
  BY <1>2, <1>11, PartsMove, JobGrows
<1>14. OnePart'
  BY <1>2, <1>5, <1>6, KeepsWorking DEF Working
<1>15. QED  BY <1>11, <1>12, <1>13, <1>14 DEF BackfillInv

\* The rows of a chunk that nobody stored meanwhile are new, and counted.
LEMMA InsertStep ==
  ASSUME BackfillInv, NEW b \in Runners, InsertChunk(b)
  PROVE  BackfillInv'
<1> DEFINE ids == {e.id : e \in bf[b].chosen}
           new == InsertedIds(bf[b].chosen)
<1>1. /\ articles' = articles \cup ids /\ filed' = filed \cup Filings(bf[b].chosen) /\ brought' = brought \cup new
      /\ Put(b, [bf[b] EXCEPT !.pc = "save", !.chosen = {}, !.inserted = @ + Cardinality(new)])
      /\ bf[b].pc = "insert" /\ UNCHANGED <<parts, job, refused, redelivered>>
  BY DEF InsertChunk, Insert
<1>2. bf[b] \in RunnerType /\ RunnerOK(bf[b], articles, Cardinality(brought), refused)
  BY NowInStore
<1>3. new = ids \ articles /\ new \subseteq Articles
  BY <1>2 DEF InsertedIds, RunnerType, Entries
<1>4. IsFiniteSet(new) /\ Cardinality(new) \in Nat
  BY <1>3, FS_Subset, FS_CardinalityType, BackfillAssumption
<1>5. IsFiniteSet(brought) /\ Cardinality(brought) \in Nat /\ brought \subseteq articles /\ refused \in BOOLEAN
  BY FS_CardinalityType DEF BackfillInv, BroughtOK
<1>6. IsFiniteSet(brought') /\ Cardinality(brought') = Cardinality(brought) + Cardinality(new)
  <2>1. brought \cap new = {}
    BY <1>3, <1>5
  <2>2. Cardinality(brought \cap new) = 0
    BY <2>1, FS_EmptySet
  <2>3. /\ IsFiniteSet(brought \cup new)
        /\ Cardinality(brought \cup new) = Cardinality(brought) + Cardinality(new) - Cardinality(brought \cap new)
    BY <1>4, <1>5, FS_Union
  <2>4. QED  BY <1>1, <1>4, <1>5, <2>2, <2>3
<1> HIDE DEF new
<1>7. OnlyGrows
  BY <1>1, <1>5, <1>6 DEF OnlyGrows
<1>8. BroughtOK'
  <2>1. brought' \subseteq articles'
    BY <1>1, <1>3, <1>5
  <2>2. ASSUME ~refused', AllClean, NEW a \in brought', NEW t \in Selected \cap ReturnedBy[a] PROVE <<a, t>> \in filed'
    <3>1. CASE a \in brought
      BY <1>1, <2>2, <3>1 DEF BackfillInv, BroughtOK
    <3>2. CASE a \notin brought
      <4>1. PICK e \in bf[b].chosen : e.id = a
        BY <1>1, <1>3, <3>2
      <4>2. Selected \cap ReturnedBy[e.id] \subseteq e.tickers
        BY <1>1, <1>2, <2>2, <4>1, Zenon DEF RunnerOK
      <4>3. <<a, t>> \in Filings(bf[b].chosen)
        BY <4>1, <4>2 DEF Filings
      <4>4. QED  BY <1>1, <4>3
    <3>3. QED  BY <3>1, <3>2
  <2>3. QED  BY <1>1, <1>5, <1>6, <2>1, <2>2 DEF BroughtOK
<1> DEFINE i == [bf[b] EXCEPT !.pc = "save", !.chosen = {}, !.inserted = @ + Cardinality(new)]
<1>9. bf[b].inserted + Cardinality(new) \in Nat
  <2>1. bf[b].inserted \in Nat
    BY <1>2 DEF RunnerType
  <2>2. QED  BY <1>4, <2>1
<1>10. /\ i \in RunnerType /\ i.pc = "save" /\ i.msg = bf[b].msg /\ i.win = bf[b].win
      /\ i.inserted = bf[b].inserted + Cardinality(new)
      /\ i.errors = bf[b].errors /\ i.truncated = bf[b].truncated /\ i.list = bf[b].list /\ i.chosen = {}
  BY <1>2, <1>9 DEF RunnerType
<1>11. bf' = [bf EXCEPT ![b] = i]
  BY <1>1 DEF Put
<1> HIDE DEF i
<1>12. (NoError(i) <=> NoError(bf[b])) /\ (NoneCut(i) <=> NoneCut(bf[b]))
  BY <1>10 DEF NoError, NoneCut
<1>13. i.msg.inserted + i.inserted <= Cardinality(brought')
  <2>1. i.msg.inserted \in Nat /\ bf[b].inserted \in Nat
    BY <1>2, <1>10 DEF RunnerType, PartType
  <2>2. i.msg.inserted + bf[b].inserted <= Cardinality(brought)
    BY <1>2, <1>10 DEF RunnerOK
  <2>3. QED  BY <1>4, <1>5, <1>6, <1>10, <2>1, <2>2
<1>14. PartOK(i.msg, articles', Cardinality(brought'), refused')
  <2>1. bf[b].msg \in PartType /\ PartOK(bf[b].msg, articles, Cardinality(brought), refused)
    BY <1>2, Zenon DEF RunnerOK, RunnerType
  <2>2. QED  BY <1>1, <1>5, <1>7, <1>10, <2>1, CountGrows, PartGrows DEF OnlyGrows
<1>15. ASSUME NoError(i), NoneCut(i)
       PROVE  \A a \in Wanted : DayOf[a] <= EndOf(i.win) => a \in articles' \/ \E e \in i.list \cup i.chosen : e.id = a
  <2>1. \A a \in Wanted : DayOf[a] <= EndOf(bf[b].win) =>
          a \in articles \/ \E e \in bf[b].list \cup bf[b].chosen : e.id = a
    BY <1>1, <1>2, <1>12, <1>15, Zenon DEF RunnerOK
  <2>2. \A e \in bf[b].chosen : e.id \in articles'
    BY <1>1
  <2>3. QED  BY <1>1, <1>10, <2>1, <2>2
<1>16. RunnerOK(i, articles', Cardinality(brought'), refused')
  <2>1. ~refused' /\ NoneCut(i) => CleanBefore(i.win + 1)
    BY <1>1, <1>2, <1>10, <1>12, Zenon DEF RunnerOK
  <2>2. ~refused' /\ AllClean => \A e \in i.list \cup i.chosen : Selected \cap ReturnedBy[e.id] \subseteq e.tickers
    BY <1>1, <1>2, <1>10 DEF RunnerOK
  <2>3. QED  BY <1>10, <1>13, <1>14, <1>15, <2>1, <2>2 DEF RunnerOK
<1>17. RunnersOK'
  BY <1>7, <1>10, <1>11, <1>16, RunnerMoves
<1>18. PartsOK' /\ JobOK'
  BY <1>1, <1>7, PartsMove, JobGrows
<1>19. OnePart'
  BY <1>1, <1>10, <1>11, KeepsWorking DEF Working
<1>20. QED  BY <1>8, <1>17, <1>18, <1>19 DEF BackfillInv

AfterWindow == {"complete", "hand over", "fetch"}

\* After a window: the following day begins the next one, or all windows are behind.
LEMMA WindowDoneStep ==
  ASSUME BackfillInv, NEW b \in Runners, WindowDone(b)
  PROVE  BackfillInv'
<1>1. bf[b] \in RunnerType /\ RunnerOK(bf[b], articles, Cardinality(brought), refused)
  BY NowInStore
<1>2. PICK w \in Starts, till \in Nat : w = bf[b].win /\ till = EndOf(w)
  <2>1. bf[b].win \in Starts
    BY <1>1 DEF RunnerType
  <2>2. EndOf(bf[b].win) \in Nat
    BY <2>1, WindowEnds DEF Starts
  <2>3. QED  BY <2>1, <2>2
<1>3. bf[b].pc = "save" /\ bf[b].list = {} /\ bf[b].win = w /\ EndOf(w) = till
  BY <1>2 DEF WindowDone
<1>4. WindowEnd(b) = till
  BY <1>2 DEF WindowEnd, EndOf
<1>5. UNCHANGED <<articles, filed, parts, brought, refused, redelivered>>
  BY DEF WindowDone, storeVars
<1>6. job' = Running(till)
  <2>1. job' = Running(WindowEnd(b))
    BY DEF WindowDone
  <2>2. QED  BY <1>4, <2>1, Zenon
<1>7. FollowingDay(b) = till + 1
  BY <1>4 DEF FollowingDay
<1>8. w \in Nat /\ till <= LastDay /\ LastDay \in Nat /\ (till < LastDay => till + 1 \in Starts)
  <2>1. w \in Days
    BY DEF Starts
  <2>2. w \in Nat /\ EndOf(w) <= LastDay /\ (EndOf(w) < LastDay => EndOf(w) + 1 \in Starts)
    BY <2>1, WindowEnds, WindowsAreApart
  <2>3. LastDay \in Nat
    BY BackfillAssumption
  <2>4. QED  BY <1>3, <2>2, <2>3
<1>9. ASSUME till + 1 > LastDay PROVE bf' = [bf EXCEPT ![b] = [bf[b] EXCEPT !.pc = "complete"]]
  <2>1. FollowingDay(b) > LastDay
    BY <1>7, <1>9
  <2>2. QED  BY <2>1, Zenon DEF WindowDone, Put
<1>10. ASSUME ~(till + 1 > LastDay)
      PROVE  \E q \in AfterWindow, day \in Starts :
               q # "complete" /\ day = till + 1 /\ bf' = [bf EXCEPT ![b] = [bf[b] EXCEPT !.pc = q, !.win = day]]
  <2>1. ~(FollowingDay(b) > LastDay)
    BY <1>7, <1>10
  <2>2. bf' = [bf EXCEPT ![b] = [bf[b] EXCEPT !.pc = IF HasEnough(b) THEN "hand over" ELSE "fetch",
                                              !.win = FollowingDay(b)]]
    BY <2>1, Zenon DEF WindowDone, Put
  <2>3. PICK q \in AfterWindow :
          q # "complete" /\ bf' = [bf EXCEPT ![b] = [bf[b] EXCEPT !.pc = q, !.win = FollowingDay(b)]]
    BY <2>2 DEF AfterWindow
  <2>4. PICK day : day = FollowingDay(b) /\ bf' = [bf EXCEPT ![b] = [bf[b] EXCEPT !.pc = q, !.win = day]]
    BY <2>3
  <2>5. day = till + 1
    BY <1>7, <2>4
  <2>6. till < LastDay
    BY <1>8, <1>10
  <2>7. day \in Starts
    BY <1>8, <2>5, <2>6
  <2>8. bf' = [bf EXCEPT ![b] = [bf[b] EXCEPT !.pc = q, !.win = day]]
    BY <2>4
  <2>9. QED  BY <2>3, <2>5, <2>7, <2>8, Zenon
<1>11. \A s \in Starts : s \in Nat /\ s <= LastDay /\ (s <= till => s <= w)
  BY <1>3, WindowsAreApart, DaysAreNat DEF Starts, Days
<1>12. bf[b].chosen = {}
  BY <1>1, <1>3 DEF RunnerOK
<1>13. NoError(bf[b]) /\ NoneCut(bf[b]) => \A a \in Wanted : DayOf[a] <= till => a \in articles
  <2>1. NoError(bf[b]) /\ NoneCut(bf[b]) =>
          \A a \in Wanted : DayOf[a] <= EndOf(bf[b].win) =>
            a \in articles \/ \E e \in bf[b].list \cup bf[b].chosen : e.id = a
    BY <1>1, <1>3, Zenon DEF RunnerOK
  <2>2. QED  BY <1>3, <1>12, <2>1
<1>14. ~refused /\ NoneCut(bf[b]) => CleanBefore(w + 1)
  BY <1>1, <1>3 DEF RunnerOK
<1>15. PICK p \in AfterWindow, v \in Starts :
        /\ bf' = [bf EXCEPT ![b] = [bf[b] EXCEPT !.pc = p, !.win = v]]
        /\ IF till + 1 > LastDay THEN p = "complete" /\ v = w ELSE p # "complete" /\ v = till + 1
  <2>1. CASE till + 1 > LastDay
    <3>1. [bf[b] EXCEPT !.pc = "complete"] = [bf[b] EXCEPT !.pc = "complete", !.win = w]
      BY <1>1, <1>3 DEF RunnerType
    <3>2. QED  BY <1>9, <2>1, <3>1 DEF AfterWindow
  <2>2. CASE ~(till + 1 > LastDay)
    <3>1. PICK q \in AfterWindow, day \in Starts :
            q # "complete" /\ day = till + 1 /\ bf' = [bf EXCEPT ![b] = [bf[b] EXCEPT !.pc = q, !.win = day]]
      BY <1>10, <2>2
    <3>2. QED  BY <2>2, <3>1, Zenon
  <2>3. QED  BY <2>1, <2>2
<1> DEFINE i == [bf[b] EXCEPT !.pc = p, !.win = v]
<1>16. /\ i \in RunnerType /\ i.pc = p /\ i.msg = bf[b].msg /\ i.win = v /\ i.inserted = bf[b].inserted
      /\ i.errors = bf[b].errors /\ i.truncated = bf[b].truncated /\ i.list = {} /\ i.chosen = {}
  BY <1>1, <1>3, <1>12 DEF RunnerType, AfterWindow
<1>17. bf' = [bf EXCEPT ![b] = i]
  BY <1>15
<1> HIDE DEF i
<1>18. (NoError(i) <=> NoError(bf[b])) /\ (NoneCut(i) <=> NoneCut(bf[b]))
  BY <1>16 DEF NoError, NoneCut
<1>19. ASSUME NoError(i), NoneCut(i)
      PROVE  /\ p # "complete" => Stored(v, articles)
             /\ p = "complete" => Wanted \subseteq articles
  <2>1. \A a \in Wanted : DayOf[a] <= till => a \in articles
    BY <1>18, <1>19, <1>13
  <2>2. \A a \in Wanted : DayOf[a] \in Nat /\ DayOf[a] <= LastDay
    <3>1. \A a \in Wanted : DayOf[a] \in Days
      BY BackfillAssumption DEF Wanted, Days
    <3>2. QED  BY <3>1, DaysAreNat
  <2>3. ASSUME p # "complete" PROVE Stored(v, articles)
    BY <1>8, <1>15, <2>1, <2>2, <2>3 DEF Stored
  <2>4. ASSUME p = "complete" PROVE Wanted \subseteq articles
    BY <1>8, <1>15, <2>1, <2>2, <2>4 DEF Wanted
  <2>5. QED  BY <2>3, <2>4
<1>20. ASSUME ~refused, NoneCut(i)
      PROVE  /\ p # "complete" => CleanBefore(v)
             /\ p = "complete" => AllClean
  <2>1. CleanBefore(w + 1)
    BY <1>18, <1>20, <1>14
  <2>2. \A s \in Starts : s <= till => Clean(s)
    <3>1. ASSUME NEW s \in Starts, s <= till PROVE s < w + 1
      <4>1. s \in Nat /\ s <= w
        BY <1>11, <3>1
      <4>2. QED  BY <1>8, <4>1
    <3>2. QED  BY <2>1, <3>1 DEF CleanBefore
  <2>3. ASSUME p # "complete" PROVE CleanBefore(v)
    BY <1>8, <1>11, <1>15, <2>2, <2>3 DEF CleanBefore
  <2>4. ASSUME p = "complete" PROVE AllClean
    BY <1>8, <1>11, <1>15, <2>2, <2>4 DEF AllClean
  <2>5. QED  BY <2>3, <2>4
<1>21. RunnerOK(i, articles, Cardinality(brought), refused)
  <2>1. PartOK(i.msg, articles, Cardinality(brought), refused) /\ i.msg.inserted + i.inserted <= Cardinality(brought)
    BY <1>1, <1>16 DEF RunnerOK
  <2>2. \A e \in i.list \cup i.chosen : Selected \cap ReturnedBy[e.id] \subseteq e.tickers
    BY <1>16
  <2>3. /\ NoError(i) /\ NoneCut(i) =>
             /\ i.pc \in {"fetch", "hand over"} => Stored(i.win, articles)
             /\ i.pc = "complete" => Wanted \subseteq articles
        /\ ~refused /\ NoneCut(i) =>
             /\ i.pc \in {"fetch", "hand over"} => CleanBefore(i.win)
             /\ i.pc = "complete" => AllClean
    BY <1>16, <1>19, <1>20
  <2>4. i.pc \notin {"save", "insert"} /\ i.chosen = {}
    BY <1>16 DEF AfterWindow
  <2>5. QED  BY <2>1, <2>2, <2>3, <2>4 DEF RunnerOK
<1>22. OnlyGrows /\ BroughtOK'
  BY <1>5, SameStore
<1>23. RunnersOK'
  BY <1>5, <1>16, <1>17, <1>21, <1>22, RunnerMoves
<1>24. PartsOK'
  BY <1>5, <1>22, PartsMove
<1>25. job' = job \/ (job' \in JobType /\ job'.status = "running" /\ job'.done = till)
  <2>1. job \in JobType
    BY DEF BackfillInv, JobOK
  <2>2. CASE job.status \in {"queued", "running"}
    <3>1. job' = [job EXCEPT !.status = "running", !.done = till]
      BY <1>6, <2>2, Zenon DEF Running
    <3>2. till \in Int
      OBVIOUS
    <3>3. QED  BY <2>1, <3>1, <3>2 DEF JobType
  <2>3. CASE job.status \notin {"queued", "running"}
    BY <1>6, <2>3, Zenon DEF Running
  <2>4. QED  BY <2>2, <2>3
<1>26. JobOK'
  BY <1>22, <1>25, JobGrows
<1>27. OnePart'
  <2>1. SUFFICES ASSUME ~redelivered PROVE OnePart'
    BY <1>5 DEF OnePart
  <2>2. Working(bf[b]) /\ bf[b].pc # "complete" /\ job \in JobType
    BY <1>3 DEF Working, BackfillInv, JobOK
  <2>3. BagToSet(parts) = {} /\ job.status = "running" /\ \A c \in Runners : Working(bf[c]) => c = b
    BY <2>1, <2>2 DEF BackfillInv, OnePart
  <2>4. job'.status = "running" /\ job'.done = till
    <3>1. job' = [job EXCEPT !.status = "running", !.done = till]
      BY <1>6, <2>3 DEF Running
    <3>2. QED  BY <2>2, <3>1 DEF JobType
  <2>5. bf'[b] = i /\ \A c \in Runners : c # b => bf'[c] = bf[c]
    BY <1>17 DEF BackfillInv, RunnersOK
  <2>6. p = "complete" => till = LastDay
    BY <1>8, <1>15
  <2>7. \A c \in Runners : c # b => ~Working(bf'[c]) /\ bf'[c].pc # "complete"
    BY <2>3, <2>5 DEF Working
  <2>8. BagToSet(parts') = {}
    BY <1>5, <2>3
  <2>9. QED  BY <1>16, <2>4, <2>5, <2>6, <2>7, <2>8 DEF OnePart
<1>28. QED  BY <1>22, <1>23, <1>24, <1>26, <1>27 DEF BackfillInv

\* A runner that stops, with what its part claims as it was.
StoppedOf(r) == [r EXCEPT !.pc = "ack"]

LEMMA StoppedIsOK ==
  ASSUME BackfillInv, NEW b \in Runners
  PROVE  /\ StoppedOf(bf[b]) \in RunnerType /\ ~Working(StoppedOf(bf[b])) /\ StoppedOf(bf[b]).pc = "ack"
         /\ RunnerOK(StoppedOf(bf[b]), articles, Cardinality(brought), refused)
<1>1. bf[b] \in RunnerType /\ RunnerOK(bf[b], articles, Cardinality(brought), refused)
  BY NowInStore
<1> DEFINE i == StoppedOf(bf[b])
<1>2. /\ i \in RunnerType /\ i.pc = "ack" /\ i.msg = bf[b].msg /\ i.inserted = bf[b].inserted
      /\ i.list = bf[b].list /\ i.chosen = bf[b].chosen
  BY <1>1 DEF RunnerType, StoppedOf
<1> HIDE DEF i
<1>3. RunnerOK(i, articles, Cardinality(brought), refused)
  BY <1>1, <1>2 DEF RunnerOK
<1>4. QED  BY <1>2, <1>3 DEF Working, i

\* What a runner adds up for the part after it, or for the job.
LEMMA TotalIsOK ==
  ASSUME BackfillInv, NEW b \in Runners
  PROVE  /\ Total(b).inserted \in Nat /\ Total(b).errors \in Nat /\ Total(b).truncated \in Nat
         /\ Total(b).inserted <= Cardinality(brought)
         /\ Total(b).errors = 0 => NoError(bf[b])
         /\ Total(b).truncated = 0 => NoneCut(bf[b])
<1>1. bf[b] \in RunnerType /\ RunnerOK(bf[b], articles, Cardinality(brought), refused)
  BY NowInStore
<1>2. /\ bf[b].msg.inserted \in Nat /\ bf[b].msg.errors \in Nat /\ bf[b].msg.truncated \in Nat
      /\ bf[b].inserted \in Nat /\ bf[b].errors \in Nat /\ bf[b].truncated \in Nat
  BY <1>1 DEF RunnerType, PartType
<1>3. bf[b].msg.inserted + bf[b].inserted <= Cardinality(brought)
  BY <1>1 DEF RunnerOK
<1>4. QED  BY <1>2, <1>3 DEF Total, NoError, NoneCut

LEMMA HandOverStep ==
  ASSUME BackfillInv, NEW b \in Runners, HandOver(b)
  PROVE  BackfillInv'
<1> DEFINE m == [from |-> bf[b].win, part |-> bf[b].msg.part + 1, inserted |-> Total(b).inserted,
                 errors |-> Total(b).errors, truncated |-> Total(b).truncated]
<1>1. /\ bf[b].pc = "hand over" /\ parts' = parts (+) SetToBag({m})
      /\ bf' = [bf EXCEPT ![b] = StoppedOf(bf[b])]
      /\ UNCHANGED <<articles, filed, job, brought, refused, redelivered>>
  BY DEF HandOver, storeVars, Put, StoppedOf
<1>2. bf[b] \in RunnerType /\ RunnerOK(bf[b], articles, Cardinality(brought), refused)
  BY NowInStore
<1>3. m \in PartType
  <2>1. bf[b].msg.part \in Nat /\ bf[b].win \in Starts
    BY <1>2 DEF RunnerType, PartType
  <2>2. bf[b].msg.part + 1 \in Nat
    BY <2>1
  <2>3. QED  BY <2>1, <2>2, TotalIsOK DEF PartType
<1>4. /\ m.from = bf[b].win /\ m.inserted = Total(b).inserted /\ m.errors = Total(b).errors
      /\ m.truncated = Total(b).truncated
  OBVIOUS
<1> HIDE DEF m
<1>5. PartOK(m, articles, Cardinality(brought), refused)
  BY <1>1, <1>2, <1>4, TotalIsOK DEF PartOK, RunnerOK
<1>6. OnlyGrows /\ BroughtOK'
  BY <1>1, SameStore
<1>7. RunnersOK' /\ JobOK'
  BY <1>1, <1>6, StoppedIsOK, RunnerMoves, JobGrows
<1>8. PartsOK'
  <2>1. BagToSet(parts') = BagToSet(parts) \cup {m}
    BY <1>1, PutOn
  <2>2. PartOK(m, articles', Cardinality(brought'), refused')
    BY <1>1, <1>5
  <2>3. QED  BY <1>3, <1>6, <2>1, <2>2, PartsMove
<1>9. OnePart'
  <2>1. SUFFICES ASSUME ~redelivered PROVE OnePart'
    BY <1>1 DEF OnePart
  <2>2. Working(bf[b])
    BY <1>1 DEF Working
  <2>3. BagToSet(parts) = {} /\ job.status = "running" /\ \A c \in Runners : Working(bf[c]) => c = b
    BY <2>1, <2>2 DEF BackfillInv, OnePart
  <2>4. BagToSet(parts') = {m} /\ parts'[m] = 1
    <3>1. BagToSet(parts (+) SetToBag({m})) = BagToSet(parts) \cup {m} /\ (parts (+) SetToBag({m}))[m] = 1
      BY <2>3, PutOn
    <3>2. QED  BY <1>1, <2>3, <3>1, Zenon
  <2>5. bf'[b] = StoppedOf(bf[b]) /\ \A c \in Runners : c # b => bf'[c] = bf[c]
    BY <1>1 DEF BackfillInv, RunnersOK
  <2>6. \A c \in Runners : ~Working(bf'[c])
    BY <2>3, <2>5, StoppedIsOK
  <2>7. job'.status = "running"
    BY <1>1, <2>3
  <2>8. QED  BY <2>4, <2>6, <2>7 DEF OnePart, Working
<1>10. QED  BY <1>6, <1>7, <1>8, <1>9 DEF BackfillInv

LEMMA CompleteStep ==
  ASSUME BackfillInv, NEW b \in Runners, Complete(b)
  PROVE  BackfillInv'
<1>1. /\ bf[b].pc = "complete" /\ bf' = [bf EXCEPT ![b] = StoppedOf(bf[b])]
      /\ job' = [status |-> "complete", done |-> job.done, inserted |-> Total(b).inserted,
                 errors |-> Total(b).errors, truncated |-> Total(b).truncated]
      /\ UNCHANGED <<articles, filed, parts, brought, refused, redelivered>>
  BY DEF Complete, storeVars, Put, StoppedOf
<1>2. bf[b] \in RunnerType /\ RunnerOK(bf[b], articles, Cardinality(brought), refused)
  BY NowInStore
<1>3. OnlyGrows /\ BroughtOK'
  BY <1>1, SameStore
<1>4. RunnersOK' /\ PartsOK'
  BY <1>1, <1>3, StoppedIsOK, RunnerMoves, PartsMove
<1>5. JobOK'
  <2>1. job \in JobType
    BY DEF BackfillInv, JobOK
  <2>2. job' \in JobType
    BY <1>1, <2>1, TotalIsOK DEF JobType
  <2>3. ASSUME Total(b).errors = 0, Total(b).truncated = 0
        PROVE  Wanted \subseteq articles /\ (~refused => AllClean)
    BY <1>1, <1>2, <2>3, TotalIsOK DEF RunnerOK
  <2>4. QED  BY <1>1, <2>2, <2>3, TotalIsOK DEF JobOK
<1>6. OnePart'
  <2>1. SUFFICES ASSUME ~redelivered PROVE OnePart'
    BY <1>1 DEF OnePart
  <2>2. Working(bf[b])
    BY <1>1 DEF Working
  <2>3. BagToSet(parts) = {} /\ job.done = LastDay /\ \A c \in Runners : Working(bf[c]) => c = b
    BY <1>1, <2>1, <2>2 DEF BackfillInv, OnePart
  <2>4. bf'[b] = StoppedOf(bf[b]) /\ \A c \in Runners : c # b => bf'[c] = bf[c]
    BY <1>1 DEF BackfillInv, RunnersOK
  <2>5. \A c \in Runners : ~Working(bf'[c])
    BY <2>3, <2>4, StoppedIsOK
  <2>6. BagToSet(parts') = {} /\ job'.done = LastDay
    BY <1>1, <2>3
  <2>7. QED  BY <2>5, <2>6 DEF OnePart, Working
<1>7. QED  BY <1>3, <1>4, <1>5, <1>6 DEF BackfillInv

LEMMA FailedStep ==
  ASSUME BackfillInv, NEW b \in Runners, EndFailed(b), Working(bf[b]),
         UNCHANGED <<articles, filed, parts, brought, refused, redelivered>>
  PROVE  BackfillInv'
<1>1. bf' = [bf EXCEPT ![b] = StoppedOf(bf[b])] /\ job' = [job EXCEPT !.status = "failed"]
  BY DEF EndFailed, Put, StoppedOf
<1>2. OnlyGrows /\ BroughtOK'
  BY SameStore
<1>3. RunnersOK' /\ PartsOK'
  BY <1>1, <1>2, StoppedIsOK, RunnerMoves, PartsMove
<1>4. job' \in JobType /\ job'.status = "failed"
  BY <1>1 DEF BackfillInv, JobOK, JobType
<1>5. JobOK'
  BY <1>2, <1>4, JobGrows
<1>6. OnePart'
  <2>1. SUFFICES ASSUME ~redelivered PROVE OnePart'
    BY DEF OnePart
  <2>2. BagToSet(parts) = {} /\ \A c \in Runners : Working(bf[c]) => c = b
    BY <2>1 DEF BackfillInv, OnePart
  <2>3. bf'[b] = StoppedOf(bf[b]) /\ \A c \in Runners : c # b => bf'[c] = bf[c]
    BY <1>1 DEF BackfillInv, RunnersOK
  <2>4. \A c \in Runners : ~Working(bf'[c])
    BY <2>2, <2>3, StoppedIsOK
  <2>5. BagToSet(parts') = {}
    BY <2>2
  <2>6. QED  BY <1>4, <2>4, <2>5 DEF OnePart, Working
<1>7. QED  BY <1>2, <1>3, <1>5, <1>6 DEF BackfillInv

LEMMA RestsStep ==
  ASSUME BackfillInv, NEW b \in Runners, bf' = [bf EXCEPT ![b] = Resting],
         UNCHANGED <<articles, filed, job, brought, refused>>,
         \/ UNCHANGED <<parts, redelivered>> /\ ~Working(bf[b])
         \/ parts' = parts (+) SetToBag({bf[b].msg}) /\ redelivered'
  PROVE  BackfillInv'
<1>1. OnlyGrows /\ BroughtOK'
  BY SameStore
<1>2. refused \in BOOLEAN /\ Cardinality(brought) \in Nat
  BY CountGrows, <1>1 DEF BackfillInv, BroughtOK
<1>3. RunnersOK' /\ JobOK'
  BY <1>1, <1>2, RestingIsOK, RunnerMoves, JobGrows
<1>4. bf[b].msg \in PartType /\ PartOK(bf[b].msg, articles, Cardinality(brought), refused)
  BY NowInStore, Zenon DEF RunnerType, RunnerOK
<1>5. PartsOK'
  <2>1. BagToSet(parts') = BagToSet(parts) \/ BagToSet(parts') = BagToSet(parts) \cup {bf[b].msg}
    BY PutOn
  <2>2. articles' = articles /\ brought' = brought /\ refused' = refused
    OBVIOUS
  <2>3. QED  BY <1>1, <1>4, <2>1, <2>2, PartsMove
<1>6. OnePart'
  <2>1. CASE redelivered'
    BY <2>1 DEF OnePart
  <2>2. CASE UNCHANGED <<parts, redelivered>> /\ ~Working(bf[b])
    <3>1. bf'[b] = Resting /\ \A c \in Runners : c # b => bf'[c] = bf[c]
      BY DEF BackfillInv, RunnersOK
    <3>2. Resting.pc = "idle"
      BY DEF Resting
    <3>3. QED  BY <2>2, <3>1, <3>2 DEF BackfillInv, OnePart, Working
  <2>3. QED  BY <2>1, <2>2
<1>7. QED  BY <1>1, <1>3, <1>5, <1>6 DEF BackfillInv

-----------------------------------------------------------------------------
(* The theorem about the backfill.                                          *)

LEMMA BackfillInvInit == Init => BackfillInv
<1> SUFFICES ASSUME Init PROVE BackfillInv
  OBVIOUS
<1>1. /\ articles = {} /\ filed = {} /\ parts = SetToBag({First}) /\ bf = [b \in Runners |-> Resting]
      /\ job = [status |-> "queued", done |-> 0, inserted |-> 0, errors |-> 0, truncated |-> 0]
      /\ brought = {} /\ refused = FALSE /\ redelivered = FALSE
  BY DEF Init, BackfillInit
<1>2. BagToSet(parts) = {First} /\ parts[First] = 1
  BY <1>1 DEF SetToBag, BagToSet
<1>3. Cardinality(brought) = 0 /\ IsFiniteSet(brought)
  BY <1>1, FS_EmptySet
<1>4. PartsOK
  BY <1>1, <1>2, <1>3, FirstIsPart DEF PartsOK, PartOK, First
<1>5. RunnersOK
  <2>1. Cardinality(brought) \in Nat /\ refused \in BOOLEAN
    <3>1. refused \in BOOLEAN
      BY <1>1
    <3>2. QED  BY <1>3, <3>1
  <2>2. Resting \in RunnerType /\ RunnerOK(Resting, articles, Cardinality(brought), refused)
    BY <2>1, RestingIsOK
  <2>3. QED  BY <1>1, <2>2 DEF RunnersOK
<1>6. BroughtOK /\ JobOK
  <2>1. BroughtOK
    BY <1>1, <1>3 DEF BroughtOK
  <2>2. job \in JobType
    BY <1>1 DEF JobType
  <2>3. job.status = "queued"
    BY <1>1
  <2>4. QED  BY <2>1, <2>2, <2>3 DEF JobOK
<1>7. OnePart
  BY <1>1, <1>2 DEF OnePart, Working, Resting
<1>8. QED  BY <1>4, <1>5, <1>6, <1>7 DEF BackfillInv

\* Live ingestion only ever adds rows.
LEMMA LiveAdds == LiveNext => articles \subseteq articles' /\ filed \subseteq filed'
<1> SUFFICES ASSUME LiveNext PROVE articles \subseteq articles' /\ filed \subseteq filed'
  OBVIOUS
<1>1. CASE \E w \in Invocations : SaveChunk(w)
  BY <1>1 DEF SaveChunk, Insert
<1>2. CASE SetSwitches
  BY <1>2 DEF SetSwitches, storeVars
<1>3. ASSUME NEW w \in Invocations,
             \/ Deliver(w) \/ SkipPaused(w) \/ TakeTicker(w) \/ FetchFeeds(w) \/ JobFails(w)
             \/ Enqueue(w) \/ SendChunk(w) \/ SendFails(w) \/ Ack(w) \/ Die(w)
      PROVE  UNCHANGED storeVars
  <2>1. CASE Deliver(w) \/ SkipPaused(w) \/ TakeTicker(w) \/ FetchFeeds(w) \/ JobFails(w)
    BY <2>1 DEF Deliver, SkipPaused, TakeTicker, FetchFeeds, JobFails
  <2>2. CASE Enqueue(w) \/ SendChunk(w) \/ SendFails(w) \/ Ack(w) \/ Die(w)
    BY <2>2 DEF Enqueue, SendChunk, SendFails, Ack, Die
  <2>3. QED  BY <1>3, <2>1, <2>2
<1>4. QED  BY <1>1, <1>2, <1>3 DEF LiveNext, storeVars

LEMMA OthersStep ==
  ASSUME BackfillInv, articles \subseteq articles', filed \subseteq filed', UNCHANGED backfillVars
  PROVE  BackfillInv'
<1>1. UNCHANGED <<parts, bf, job, brought, refused, redelivered>>
  BY DEF backfillVars
<1>2. OnlyGrows /\ BroughtOK'
  BY <1>1 DEF BackfillInv, BroughtOK, OnlyGrows
<1>3. PartsOK' /\ JobOK'
  BY <1>1, <1>2, PartsMove, JobGrows
<1>4. RunnersOK'
  <2>1. ASSUME NEW c \in Runners PROVE RunnerOK(bf[c], articles', Cardinality(brought'), refused')
    <3>1. bf[c] \in RunnerType /\ RunnerOK(bf[c], articles, Cardinality(brought), refused)
      BY NowInStore
    <3>2. refused \in BOOLEAN /\ refused' \in BOOLEAN /\ (refused => refused') /\ articles \subseteq articles'
      BY <1>1 DEF BackfillInv, BroughtOK
    <3>3. QED  BY <1>2, <3>1, <3>2, CountGrows, RunnerGrows
  <2>2. QED  BY <1>1, <2>1 DEF BackfillInv, RunnersOK
<1>5. OnePart'
  BY <1>1 DEF BackfillInv, OnePart
<1>6. QED  BY <1>2, <1>3, <1>4, <1>5 DEF BackfillInv

LEMMA BackfillInvStep == BackfillInv /\ [Next]_vars => BackfillInv'
<1> SUFFICES ASSUME BackfillInv, [Next]_vars PROVE BackfillInv'
  OBVIOUS
<1>1. CASE Live
  BY <1>1, LiveAdds, OthersStep DEF Live
<1>2. CASE UNCHANGED vars
  BY <1>2, OthersStep DEF vars, storeVars
<1>3. CASE Backfill
  <2>1. PICK b \in Runners :
          \/ Take(b) \/ FetchWindow(b) \/ Filter(b) \/ InsertChunk(b) \/ WindowDone(b) \/ HandOver(b)
          \/ Complete(b) \/ TooManyParts(b) \/ Fail(b) \/ AckPart(b) \/ DiePart(b)
    BY <1>3 DEF Backfill, BackfillNext
  <2>2. CASE TooManyParts(b)
    BY <2>2, FailedStep DEF TooManyParts, Working, storeVars
  <2>3. CASE Fail(b)
    BY <2>3, FailedStep DEF Fail, Working, storeVars
  <2>4. CASE AckPart(b)
    BY <2>4, RestsStep DEF AckPart, Put, Working, storeVars
  <2>5. CASE DiePart(b)
    BY <2>5, RestsStep DEF DiePart, Put, storeVars
  <2>6. QED  BY <2>1, <2>2, <2>3, <2>4, <2>5, TakeStep, FetchStep, FilterStep, InsertStep, WindowDoneStep, HandOverStep,
                CompleteStep
<1>4. QED  BY <1>1, <1>2, <1>3 DEF Next

LEMMA BackfillInvHolds == Spec => []BackfillInv
  BY BackfillInvInit, BackfillInvStep, PTL DEF Spec

\* A backfill that ends complete, with no refused span and no day over the cap, stored its whole
\* range and files what it brought under every selected ticker: for any articles, window, cap
\* and number of runners, through every split, hand-over, redelivery and live tick between.
THEOREM CompleteIsTrueHolds == Spec => []CompleteIsTrue
<1>1. BackfillInv => CompleteIsTrue
  BY DEF BackfillInv, JobOK, BroughtOK, OnePart, CompleteIsTrue
<1>2. QED  BY <1>1, BackfillInvHolds, PTL
=============================================================================

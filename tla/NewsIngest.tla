----------------------------- MODULE NewsIngest -----------------------------
(***************************************************************************)
(* Live ingestion (ingest-worker.js queue(), ingest.js ingestTickerData    *)
(* and ingestFeedNews, enqueue.js sendInChunks): an invocation takes a     *)
(* batch of messages, one per ticker and one for the feeds, stores what    *)
(* the vendor returned and sends one ANALYZE message for every filing that *)
(* is new.  The operator's switches are read once per batch.               *)
(*                                                                         *)
(* The store comes first and the queue after, with nothing that ties them. *)
(* "history" notes, for the properties, who made a filing and what the     *)
(* environment did: jobs that were broken off, messages that the queue     *)
(* refused, tickers that were switched off.  A batch may be delivered at   *)
(* any time (cron, redelivery).                                            *)
(***************************************************************************)
EXTENDS NewsStore, Sequences

CONSTANTS
  Recent,      \* the articles that finnhubLookbackDays still covers
  Feeds,       \* what rss and scraped pages return: entries
  Batches,     \* the batches the queue may deliver: sequences of tickers and "feeds"
  Invocations,
  MaxBatches   \* bound: deliveries

ASSUME LiveAssumption ==
  /\ Recent \subseteq Articles /\ Feeds \subseteq [id : Articles, tickers : SUBSET Tickers]
  /\ Batches \subseteq Seq(Tickers \cup {"feeds"}) \ {<<>>}

VARIABLES
  analyze,     \* how many ANALYZE messages each filing has got
  switches,    \* pause flags and ticker selection (system_flags)
  inv,         \* the invocations of the ingest Worker
  history,     \* only the properties read it
  batches

liveVars == <<analyze, switches, inv, history, batches>>

Pair == Articles \X Tickers
AllOn == [ingestion |-> TRUE, analysis |-> TRUE, off |-> {}]
Unread == {"unread"}
Idle == [pc |-> "idle", msgs |-> <<>>, batch |-> 0, flags |-> AllOn, off |-> Unread, list |-> {}, fresh |-> {}]
Job(w) == Head(inv[w].msgs)
Set(w, i) == inv' = [inv EXCEPT ![w] = i]
\* The job that is under way, and the filings that it makes.
ThisJob(w) == [by |-> Job(w), batch |-> inv[w].batch]
FilingsOf(w, pairs) ==
  {[pair |-> p, by |-> Job(w), batch |-> inv[w].batch, analysis |-> inv[w].flags.analysis] : p \in pairs}
Breaks(w) == history' = [history EXCEPT !.broken = @ \cup {ThisJob(w)}]
\* message.ack(), and on to the next message of the batch.
Acked(w) ==
  IF Len(inv[w].msgs) = 1 THEN Idle
  ELSE [inv[w] EXCEPT !.pc = "next", !.msgs = Tail(@), !.list = {}, !.fresh = {}]
\* A D1 error on the read of a switch fails open.
Reads(value, open) == IF faults < MaxFaults THEN {<<value, 0>>, <<open, 1>>} ELSE {<<value, 0>>}

LiveInit ==
  /\ analyze = [p \in Pair |-> 0] /\ switches = AllOn /\ inv = [w \in Invocations |-> Idle]
  /\ history = [filings |-> {}, broken |-> {}, refused |-> {}, off |-> {}] /\ batches = 0

\* setPauseFlags, setActiveTickers: the operator, at any time; never every ticker off.
SetSwitches ==
  /\ Fault
  /\ \/ switches' = [switches EXCEPT !.ingestion = ~@]
     \/ switches' = [switches EXCEPT !.analysis = ~@]
     \/ \E off \in SUBSET Tickers \ {Tickers, switches.off} : switches' = [switches EXCEPT !.off = off]
  /\ history' = [history EXCEPT !.off = @ \cup switches'.off]
  /\ UNCHANGED <<storeVars, analyze, inv, batches>>

Deliver(w) ==
  /\ inv[w].pc = "idle" /\ batches < MaxBatches /\ batches' = batches + 1
  /\ \E msgs \in Batches, read \in Reads(switches, [switches EXCEPT !.ingestion = TRUE, !.analysis = TRUE]) :
       /\ Set(w, [Idle EXCEPT !.pc = "next", !.msgs = msgs, !.batch = batches', !.flags = read[1]])
       /\ faults' = faults + read[2]
  /\ UNCHANGED <<storeVars, analyze, switches, history>>

\* While ingestion is paused the message is acknowledged and forgotten.
SkipPaused(w) ==
  /\ inv[w].pc = "next" /\ ~inv[w].flags.ingestion
  /\ Set(w, Acked(w))
  /\ UNCHANGED <<storeVars, analyze, switches, history, batches, faults>>

\* getDisabled: read by the first message that needs it, kept for the batch.
Disabled(w) == IF inv[w].off = Unread THEN Reads(switches.off, {}) ELSE {<<inv[w].off, 0>>}

\* ingestTickerData fetches what the vendor has of the ticker by now; nothing when it fails.
TakeTicker(w) ==
  /\ inv[w].pc = "next" /\ inv[w].flags.ingestion /\ Job(w) \in Tickers
  /\ \E read \in Disabled(w) :
       /\ faults' = faults + read[2]
       /\ \/ Job(w) \in read[1]
             /\ Set(w, IF Len(inv[w].msgs) = 1 THEN Idle ELSE [Acked(w) EXCEPT !.off = read[1]])
          \/ Job(w) \notin read[1]
             /\ \E page \in SUBSET {a \in Recent : Job(w) \in ReturnedBy[a]} :
                  Set(w, [inv[w] EXCEPT !.pc = "save", !.off = read[1], !.list = {Entry(a, {Job(w)}) : a \in page}])
  /\ UNCHANGED <<storeVars, analyze, switches, history, batches>>

\* A feed or a page that fails is left out; the others go on.
FetchFeeds(w) ==
  /\ inv[w].pc = "next" /\ inv[w].flags.ingestion /\ Job(w) = "feeds"
  /\ \E entries \in SUBSET Feeds : Set(w, [inv[w] EXCEPT !.pc = "save", !.list = entries])
  /\ UNCHANGED <<storeVars, analyze, switches, history, batches, faults>>

FreshOf_NewArticles(w, chunk) ==
  LET first == {e \in chunk : e.id \in InsertedIds(chunk)} IN
  IF Job(w) = "feeds" THEN Filings(first) ELSE {<<e.id, Job(w)>> : e \in first}
FreshOf_AllFetched(w, chunk) ==
  IF Job(w) = "feeds" THEN NewFilings(chunk) ELSE {<<e.id, Job(w)>> : e \in chunk}
\* What a chunk brought: all new filings of a feed's article, the one asked for of a ticker's.
FreshOf(w, chunk) ==
  IF Job(w) = "feeds" THEN NewFilings(chunk)
  ELSE {<<e.id, Job(w)>> : e \in {x \in chunk : x.id \in InsertedIds(chunk) \/ <<x.id, Job(w)>> \notin filed}}

SaveChunk(w) ==
  /\ inv[w].pc = "save" /\ inv[w].list # {}
  /\ \E chunk \in Chunks(inv[w].list) :
       /\ Insert(chunk)
       /\ Set(w, [inv[w] EXCEPT !.list = @ \ chunk, !.fresh = @ \cup FreshOf(w, chunk)])
       /\ history' = [history EXCEPT !.filings = @ \cup FilingsOf(w, NewFilings(chunk))]
  /\ UNCHANGED <<analyze, switches, batches, faults>>

\* A D1 error, on a chunk or on the price bars that a ticker's news is followed by, ends the
\* job: logged and acknowledged, with all that it had stored.  (Facts and macro rows that
\* cannot be stored are skipped.)
JobFails(w) ==
  /\ inv[w].pc = "save" /\ (inv[w].list # {} \/ Job(w) # "feeds") /\ Fault
  /\ Set(w, Acked(w)) /\ Breaks(w)
  /\ UNCHANGED <<storeVars, analyze, switches, batches>>

\* enqueueAnalyze: a disabled ticker of a feed, or everything while analysis is paused, is not sent.
Enqueue(w) ==
  /\ inv[w].pc = "save" /\ inv[w].list = {}
  /\ \E read \in IF Job(w) = "feeds" THEN Disabled(w) ELSE {<<inv[w].off, 0>>} :
       LET dropped == IF ~inv[w].flags.analysis THEN inv[w].fresh
                      ELSE IF Job(w) = "feeds" THEN {p \in inv[w].fresh : p[2] \in read[1]} ELSE {} IN
       /\ Set(w, [inv[w] EXCEPT !.pc = "send", !.fresh = @ \ dropped, !.off = read[1]])
       /\ faults' = faults + read[2]
  /\ UNCHANGED <<storeVars, analyze, switches, history, batches>>

AfterFailure_Stops(w, chunk) == [inv[w] EXCEPT !.fresh = {}]
\* A chunk that is refused does not stop the ones after it.
AfterFailure(w, chunk) == [inv[w] EXCEPT !.fresh = @ \ chunk]

SendChunk(w) ==
  /\ inv[w].pc = "send"
  /\ \E chunk \in Chunks(inv[w].fresh) :
       /\ analyze' = [p \in Pair |-> analyze[p] + IF p \in chunk THEN 1 ELSE 0]
       /\ Set(w, [inv[w] EXCEPT !.fresh = @ \ chunk])
  /\ UNCHANGED <<storeVars, switches, history, batches, faults>>

SendFails(w) ==
  /\ inv[w].pc = "send" /\ Fault
  /\ \E chunk \in Chunks(inv[w].fresh) :
       Set(w, AfterFailure(w, chunk)) /\ history' = [history EXCEPT !.refused = @ \cup chunk]
  /\ UNCHANGED <<storeVars, analyze, switches, batches>>

Ack(w) ==
  /\ inv[w].pc = "send" /\ inv[w].fresh = {}
  /\ Set(w, Acked(w))
  /\ UNCHANGED <<storeVars, analyze, switches, history, batches, faults>>

\* The isolate is killed; its batch is delivered again, and then finds everything stored.
Die(w) ==
  /\ inv[w].pc # "idle" /\ Fault
  /\ Set(w, Idle) /\ Breaks(w)
  /\ UNCHANGED <<storeVars, analyze, switches, batches>>

LiveNext ==
  \/ SetSwitches
  \/ \E w \in Invocations :
       \/ Deliver(w) \/ SkipPaused(w) \/ TakeTicker(w) \/ FetchFeeds(w) \/ SaveChunk(w) \/ JobFails(w)
       \/ Enqueue(w) \/ SendChunk(w) \/ SendFails(w) \/ Ack(w) \/ Die(w)

-----------------------------------------------------------------------------
(* Properties.                                                              *)

\* The same article of the same ticker is analysed once, whatever overlaps, is fetched
\* again, comes from a feed and from a query, or is delivered twice.
AnalyzedOnce == \A p \in Pair : analyze[p] <= 1

IsSent(p) == analyze[p] > 0
IsHeld(p) == \E w \in Invocations : p \in inv[w].fresh

\* The two losses that nothing logs: the backfill files an article without a message, and a
\* ticker's query files it under the other tickers that it names, where it is fresh to nobody.
IsFiledOnly(f) == f.by = "backfill" \/ f.by \notin {"feeds", f.pair[2]}
\* The operator did not want it: analysis was paused when its batch was delivered, or it came
\* by a feed and its ticker has been switched off.
IsUnwanted(f) == ~f.analysis \/ (f.by = "feeds" /\ f.pair[2] \in history.off)
\* Its job was broken off by a D1 error or a death, or the queue refused its message.
IsBroken(f) == [by |-> f.by, batch |-> f.batch] \in history.broken \/ f.pair \in history.refused

IsGivenUp(p) ==
  \E f \in history.filings : f.pair = p /\ (IsFiledOnly(f) \/ IsUnwanted(f) \/ IsBroken(f))

\* Every filing that a feed makes, or a query for the ticker itself, gets its message: also
\* when another ticker, another feed or the backfill had stored the article before it, and
\* when another chunk, message or invocation was refused or died.  The exceptions are what
\* the operator switched off, what the queue refused and what its own job had in hand when
\* a D1 error or a death broke it off.  Nothing is said of the filings of IsFiledOnly, which
\* the code strands in silence.
NothingStranded == \A p \in filed : IsSent(p) \/ IsHeld(p) \/ IsGivenUp(p)
=============================================================================

---------------------------- MODULE NewsBackfill ----------------------------
(***************************************************************************)
(* The operator's backfill of historical news (ingest-worker.js `backfill`,*)
(* ingest.js backfillHistoricalNews, finnhub.js createWindowedFetcher).    *)
(* The range is walked in windows of days; a part stops between two        *)
(* windows once it wrote or asked enough, and sends the next part itself.  *)
(* A request returns only the newest articles of its span, so a span whose *)
(* answer looks capped is split in two, down to one day.                   *)
(*                                                                         *)
(* A part's message is acknowledged after the part has sent the next one   *)
(* or ended the job; a part that dies is delivered again, by then perhaps  *)
(* beside the one it sent.                                                 *)
(***************************************************************************)
EXTENDS NewsStore, Bags

CONSTANTS
  DayOf,        \* [Articles -> days]
  LastDay,      \* the operator asks for 1 .. LastDay
  Selected,     \* the tickers the operator asks for
  WindowDays, MaxInserts, MaxAsked, MaxParts,
  Threshold,    \* finnhubWindowSplitThreshold
  Cap,          \* articles an answer has at most
  Runners       \* parts that may run at the same time

ASSUME BackfillAssumption ==
  /\ DayOf \in [Articles -> 1 .. LastDay] /\ Selected \subseteq Tickers /\ Threshold <= Cap
  /\ IsFiniteSet(Articles) /\ IsFiniteSet(Selected)
  /\ {LastDay, WindowDays, MaxParts, Threshold, Cap} \subseteq Nat \ {0}
  /\ {MaxInserts, MaxAsked} \subseteq Nat

VARIABLES
  parts,      \* the BACKFILL queue: a bag of parts
  bf,         \* the parts that run
  job,        \* job_progress: status, days done, result
  brought,    \* history: the articles that the backfill stored first
  refused,    \* history: requests were refused
  redelivered \* history: a part was delivered again

backfillVars == <<parts, bf, job, brought, refused, redelivered>>

Days == 1 .. LastDay
First == [from |-> 1, part |-> 1, inserted |-> 0, errors |-> 0, truncated |-> 0]
Resting == [pc |-> "idle", msg |-> First, win |-> 1, list |-> {}, chosen |-> {},
            inserted |-> 0, asked |-> 0, errors |-> 0, truncated |-> 0]
Put(b, r) == bf' = [bf EXCEPT ![b] = r]

BackfillInit ==
  /\ parts = SetToBag({First}) /\ bf = [b \in Runners |-> Resting]
  /\ job = [status |-> "queued", done |-> 0, inserted |-> 0, errors |-> 0, truncated |-> 0]
  /\ brought = {} /\ refused = FALSE /\ redelivered = FALSE

-----------------------------------------------------------------------------
(* Spans and what is asked for them.                                        *)

In(t, span) == {a \in Articles : t \in ReturnedBy[a] /\ DayOf[a] \in span[1] .. span[2]}
LooksCapped(t, span) == Cardinality(In(t, span)) >= Threshold
\* fetchSpan: a span, and the halves of one whose answer looked capped.
Asked(t, window, refusals) ==
  LET Halves[span \in Days \X Days] ==
        IF span[1] = span[2] \/ ~LooksCapped(t, span) \/ <<t, span>> \in refusals THEN {span}
        ELSE LET mid == span[1] + ((span[2] - span[1]) \div 2) IN
             {span} \cup Halves[<<span[1], mid>>] \cup Halves[<<mid + 1, span[2]>>]
  IN {<<t, s>> : s \in Halves[window]}
IsKept(request) == request[2][1] = request[2][2] \/ ~LooksCapped(request[1], request[2])
IsTruncated(request) == IsKept(request) /\ LooksCapped(request[1], request[2])
\* A request with fewer articles than an answer holds gives all, another Cap of them.
Answers(request) ==
  LET all == In(request[1], request[2]) IN
  IF Cardinality(all) <= Cap THEN {all} ELSE {s \in SUBSET all : Cardinality(s) = Cap}
Answered(requests) == {f \in [requests -> UNION {Answers(r) : r \in requests}] : \A r \in requests : f[r] \in Answers(r)}

\* mergeDuplicateItems: one entry per article, with the tickers of all.
Merge(entries) ==
  {[id |-> a, tickers |-> UNION {e.tickers : e \in {x \in entries : x.id = a}}] : a \in {e.id : e \in entries}}

-----------------------------------------------------------------------------

WindowEnd(b) == Min({bf[b].win + WindowDays - 1, LastDay})
Running(progress) == IF job.status \in {"queued", "running"} THEN [job EXCEPT !.status = "running", !.done = progress] ELSE job

\* reporter.start and the first progress of the part.
Take(b) ==
  /\ bf[b].pc = "idle"
  /\ \E m \in BagToSet(parts) :
       /\ parts' = parts (-) SetToBag({m})
       /\ Put(b, [Resting EXCEPT !.pc = "fetch", !.msg = m, !.win = m.from])
       /\ job' = [job EXCEPT !.status = "running", !.done = m.from - 1]
  /\ UNCHANGED <<storeVars, brought, refused, redelivered, faults>>

\* All selected tickers of one window, with at most one refused span.
FetchWindow(b) ==
  /\ bf[b].pc = "fetch"
  /\ LET window == <<bf[b].win, WindowEnd(b)>>
         Requests(refusals) == UNION {Asked(t, window, refusals) : t \in Selected} IN
     \E refusals \in {{}} \cup {{r} : r \in Requests({})} :
     LET requests == Requests(refusals)
         kept == {r \in requests \ refusals : IsKept(r)}
     IN
     /\ IF refusals = {} THEN UNCHANGED <<refused, faults>> ELSE Fault /\ refused' = TRUE
     /\ \E answer \in Answered(kept) :
          Put(b, [bf[b] EXCEPT !.pc = "save", !.asked = @ + Cardinality(requests),
                    !.errors = @ + Cardinality(refusals),
                    !.truncated = @ + Cardinality({r \in kept : IsTruncated(r)}),
                    !.list = Merge(UNION {{Entry(a, {r[1]}) : a \in answer[r]} : r \in kept})])
  /\ UNCHANGED <<storeVars, parts, job, brought, redelivered>>

\* filterUnstoredItems; live ingestion may store an article before the chunk is written.
Filter(b) ==
  /\ bf[b].pc = "save" /\ bf[b].list # {}
  /\ \E chunk \in Chunks(bf[b].list) :
       Put(b, [bf[b] EXCEPT !.pc = "insert", !.list = @ \ chunk, !.chosen = {e \in chunk : e.id \notin articles}])
  /\ UNCHANGED <<storeVars, parts, job, brought, refused, redelivered, faults>>

InsertChunk(b) ==
  /\ bf[b].pc = "insert"
  /\ Insert(bf[b].chosen)
  /\ brought' = brought \cup InsertedIds(bf[b].chosen)
  /\ Put(b, [bf[b] EXCEPT !.pc = "save", !.chosen = {}, !.inserted = @ + Cardinality(InsertedIds(bf[b].chosen))])
  /\ UNCHANGED <<parts, job, refused, redelivered, faults>>

FollowingDay_Skips(b) == WindowEnd(b) + 2
FollowingDay(b) == WindowEnd(b) + 1
HasEnough(b) == bf[b].inserted >= MaxInserts \/ bf[b].asked + Cardinality(Selected) > MaxAsked

\* The window is saved: the next one, or the part has done enough, or the range is done.
WindowDone(b) ==
  /\ bf[b].pc = "save" /\ bf[b].list = {}
  /\ job' = Running(WindowEnd(b))
  /\ Put(b, IF FollowingDay(b) > LastDay THEN [bf[b] EXCEPT !.pc = "complete"]
            ELSE [bf[b] EXCEPT !.pc = IF HasEnough(b) THEN "hand over" ELSE "fetch", !.win = FollowingDay(b)])
  /\ UNCHANGED <<storeVars, parts, brought, refused, redelivered, faults>>

Total(b) ==
  [inserted |-> bf[b].msg.inserted + bf[b].inserted, errors |-> bf[b].msg.errors + bf[b].errors,
   truncated |-> bf[b].msg.truncated + bf[b].truncated]

HandOver(b) ==
  /\ bf[b].pc = "hand over" /\ bf[b].msg.part < MaxParts
  /\ parts' = parts (+) SetToBag({[from |-> bf[b].win, part |-> bf[b].msg.part + 1, inserted |-> Total(b).inserted,
                                   errors |-> Total(b).errors, truncated |-> Total(b).truncated]})
  /\ Put(b, [bf[b] EXCEPT !.pc = "ack"])
  /\ UNCHANGED <<storeVars, job, brought, refused, redelivered, faults>>

Complete(b) ==
  /\ bf[b].pc = "complete"
  /\ job' = [status |-> "complete", done |-> job.done, inserted |-> Total(b).inserted,
             errors |-> Total(b).errors, truncated |-> Total(b).truncated]
  /\ Put(b, [bf[b] EXCEPT !.pc = "ack"])
  /\ UNCHANGED <<storeVars, parts, brought, refused, redelivered, faults>>

EndFailed(b) == job' = [job EXCEPT !.status = "failed"] /\ Put(b, [bf[b] EXCEPT !.pc = "ack"])

TooManyParts(b) ==
  /\ bf[b].pc = "hand over" /\ bf[b].msg.part >= MaxParts
  /\ EndFailed(b)
  /\ UNCHANGED <<storeVars, parts, brought, refused, redelivered, faults>>

\* A D1 error on a chunk or a send that fails ends the job; nothing is retried.
Fail(b) ==
  /\ bf[b].pc \in {"insert", "hand over"} /\ Fault
  /\ EndFailed(b)
  /\ UNCHANGED <<storeVars, parts, brought, refused, redelivered>>

AckPart(b) ==
  /\ bf[b].pc = "ack"
  /\ Put(b, Resting)
  /\ UNCHANGED <<storeVars, parts, job, brought, refused, redelivered, faults>>

DiePart(b) ==
  /\ bf[b].pc # "idle" /\ Fault
  /\ parts' = parts (+) SetToBag({bf[b].msg}) /\ Put(b, Resting) /\ redelivered' = TRUE
  /\ UNCHANGED <<storeVars, job, brought, refused>>

BackfillNext ==
  \E b \in Runners :
    \/ Take(b) \/ FetchWindow(b) \/ Filter(b) \/ InsertChunk(b) \/ WindowDone(b) \/ HandOver(b)
    \/ Complete(b) \/ TooManyParts(b) \/ Fail(b) \/ AckPart(b) \/ DiePart(b)

-----------------------------------------------------------------------------
(* Properties.                                                              *)

Wanted == {a \in Articles : ReturnedBy[a] \cap Selected # {}}

\* A job that ends complete, with no refused span and no day over the cap, covered its
\* range: every article is stored, through whatever windows, splits, parts and repeated
\* deliveries; one that the backfill brought is filed under each ticker that returned it
\* (unless a request was refused on the way); and it claims no more than was stored.
CompleteIsTrue ==
  (job.status = "complete" /\ job.errors = 0 /\ job.truncated = 0) =>
    /\ Wanted \subseteq articles
    /\ ~refused => \A a \in brought : \A t \in Selected \cap ReturnedBy[a] : <<a, t>> \in filed
    /\ job.inserted <= Cardinality(brought)
    /\ ~redelivered => job.done = LastDay
=============================================================================

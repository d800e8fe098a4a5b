----------------------------- MODULE LiveEngine -----------------------------
(***************************************************************************)
(* The live trading engine around RunStore: the ANALYZE consumers          *)
(* (llm-worker.js, graph/pipeline.js), which take one news item through    *)
(* the agents and the portfolio stage, and the exit_check consumer of the  *)
(* 15-minute cron (graph/entry_fill.js, then graph/exit_check.js).  Every  *)
(* await is a step boundary: they run concurrently on the same tables, and *)
(* a process may die, or throw, between any two steps.  The queue delivers *)
(* a message again after that; the exit check just runs at its next tick.  *)
(*                                                                         *)
(* A news item commits at its own publication time, asOf, not at the wall  *)
(* clock `now`; a pending entry commits at its fill bar's open.            *)
(*                                                                         *)
(* D_Change, just before a definition D, is D with a plausible bug in it;  *)
(* README.md says what these are for.                                      *)
(***************************************************************************)
EXTENDS RunStore

CONSTANTS
  Items,            \* ANALYZE messages: a news item for one ticker
  ThesisOf,         \* item -> the thesis id its ticker and publication time give
  Consumers,        \* concurrent ANALYZE consumers (max_concurrency)
  MaxDeliveries,    \* the first delivery and the retries (max_retries)
  MaxFaults,        \* bound: process deaths and throws in a behaviour
  HoldLimit,        \* config.maxPositionHoldDays, in instants
  FillExpiry,       \* PENDING_ENTRY_EXPIRY_MS, in instants
  Markets,          \* the possible price paths: the instant each position's level is touched
  LateNews,         \* an item may still be in the queue when its instant is over
  StalePrices,      \* an entry price may be stale: the thesis waits as a pending entry
  Pauses,           \* the operator may pause trading or disable a ticker
  ReflectionFails   \* the reflection's LLM call may fail

ASSUME ThesisOfAssumption == ThesisOf \in Injection(Items, ThesisIds)
ASSUME ClockAssumption == \E last \in Instants : Instants = 1 .. last
ASSUME MarketsAssumption == Markets \subseteq [ThesisIds -> Nat]
ASSUME LimitsAssumption == {MaxDeliveries, MaxFaults, HoldLimit, FillExpiry} \subseteq Nat
ASSUME SwitchesAssumption == {LateNews, StalePrices, Pauses, ReflectionFails} \subseteq BOOLEAN

ExitCheck == "exit_check"
ASSUME ConsumersAssumption == ExitCheck \notin Consumers
Processes == Consumers \cup {ExitCheck}

VARIABLES
  now,           \* the wall clock
  touchedAt,     \* per position, the instant its stop or target is first touched
  checkpoints,   \* pipeline_checkpoints, per item: none, "traded" with the thesis, or "done"
  inbox,         \* per item: where its message is, and its deliveries so far
  proc,          \* the local state of each process, lost when it dies
  faults         \* process deaths and throws so far

engineVars == <<now, touchedAt, checkpoints, inbox, proc, faults>>
vars == <<storeVars, engineVars>>

LastInstant == CHOOSE t \in Instants : \A u \in Instants : u <= t

NoCheckpoint == [stage |-> "none", thesis |-> NoThesis]

\* item: the message being worked on; id: the thesis to commit, {} in the exit check of
\* the whole book; asOf: the instant of both; existing: the ticker's open position as it
\* was read; stopped: the exit walk closed it; folded: the completion marker went with
\* the commit; tick: the cron message's asOf; pending: the pending entries it listed;
\* todo: the positions the current loop has still to visit; closing: the close that this
\* process made and has to settle.
Idle == [pc |-> "idle", item |-> {}, id |-> {}, asOf |-> 0, existing |-> {}, stopped |-> FALSE,
         folded |-> FALSE, tick |-> 0, pending |-> {}, todo |-> {}, closing |-> {}]

Goto(p, pc) == proc' = [proc EXCEPT ![p].pc = pc]
The(S) == CHOOSE x \in S : TRUE
ItemOf(p) == The(proc[p].item)
IdOf(p) == The(proc[p].id)
\* The pipeline commits the checkpointed thesis, a fill the decision's.
ThesisFor(p) == IF p = ExitCheck THEN decisions[IdOf(p)].thesis ELSE checkpoints[ItemOf(p)].thesis

MarkDone(i) == checkpoints' = [checkpoints EXCEPT ![i].stage = "done"]

-----------------------------------------------------------------------------
(* Settlement: an LLM call writes the reflection, then the outcome is       *)
(* stored; a failed call is logged and leaves no outcome.                   *)
SettleOutcome_Now(id, closedAt, reason) ==
  \/ RecordDecisionOutcome(id, now, reason)
  \/ ReflectionFails /\ UNCHANGED storeVars
SettleOutcome(id, closedAt, reason) ==
  \/ RecordDecisionOutcome(id, closedAt, reason)
  \/ ReflectionFails /\ UNCHANGED storeVars

-----------------------------------------------------------------------------
(* checkOpenPositionExits, by the exit check for the whole book or, stops   *)
(* first, by a process about to flip a position, for that ticker.  Bars are *)
(* not stored: the instant a level is touched stands for them.              *)

DueAt(id) == positions[id].openedAt + HoldLimit
WalkUntil(id, asOf) == IF DueAt(id) <= asOf THEN DueAt(id) ELSE asOf
\* The walk starts at the cursor, or the opening, and stops at asOf, or where the time exit
\* is due.
WalkedTo(id) ==
  IF positions[id].lastCheckedAt = 0 THEN positions[id].openedAt ELSE positions[id].lastCheckedAt
IsTouched_Strictly(id, asOf) == WalkedTo(id) < touchedAt[id] /\ touchedAt[id] < WalkUntil(id, asOf)
IsTouched(id, asOf) == WalkedTo(id) < touchedAt[id] /\ touchedAt[id] <= WalkUntil(id, asOf)

\* A due exit fills at a bar's open once the position is due, or waits for such a bar.
TimeExitInstants_Unbounded(id, asOf) == {t \in Instants : DueAt(id) <= t}
TimeExitInstants(id, asOf) == {t \in Instants : DueAt(id) <= t /\ t <= asOf}
MayStayOpen_Forever(id, asOf) == TRUE
MayStayOpen(id, asOf) == asOf <= DueAt(id) + FillExpiry

StartExits(p) ==
  /\ proc[p].pc = "exits"
  /\ LET open == OpenPositionsAsOf(positions, proc[p].asOf)
     IN  proc' = [proc EXCEPT ![p].pc = "exiting",
                              ![p].todo = IF proc[p].id = {} THEN open
                                          ELSE {q \in open : TickerOf(q) = TickerOf(IdOf(p))}]
  /\ UNCHANGED <<storeVars, now, touchedAt, checkpoints, inbox, faults>>

\* Only the call that closed the row settles it, and counts it as stopped.
CloseAndSettle(p, id, closedAt, reason) ==
  /\ ClosePosition(id, closedAt, reason)
  /\ proc' = [proc EXCEPT ![p].todo = @ \ {id},
                          ![p].stopped = @ \/ (IsOpen(positions, id) /\ id \in proc[p].existing),
                          ![p].closing = IF IsOpen(positions, id)
                                         THEN {[id |-> id, at |-> closedAt, reason |-> reason]} ELSE {}]
ExitPosition(p, id) ==
  /\ proc[p].pc = "exiting" /\ proc[p].closing = {} /\ id \in proc[p].todo
  /\ LET asOf == proc[p].asOf IN
     \/ IsTouched(id, asOf) /\ CloseAndSettle(p, id, touchedAt[id], "stop_or_target")
     \/ /\ ~IsTouched(id, asOf) /\ DueAt(id) <= asOf
        /\ \E at \in TimeExitInstants(id, asOf) : CloseAndSettle(p, id, at, "time_based")
     \* Nothing fires: the cursor moves.
     \/ /\ ~IsTouched(id, asOf) /\ MayStayOpen(id, asOf)
        /\ AdvancePositionCheck(id, WalkUntil(id, asOf))
        /\ proc' = [proc EXCEPT ![p].todo = @ \ {id}]
  /\ UNCHANGED <<now, touchedAt, checkpoints, inbox, faults>>

SettleExit(p) ==
  /\ proc[p].pc = "exiting"
  /\ \E close \in proc[p].closing : SettleOutcome(close.id, close.at, close.reason)
  /\ proc' = [proc EXCEPT ![p].closing = {}]
  /\ UNCHANGED <<now, touchedAt, checkpoints, inbox, faults>>

EndExits(p) ==
  /\ proc[p].pc = "exiting" /\ proc[p].todo = {} /\ proc[p].closing = {}
  /\ IF proc[p].id = {} THEN proc' = [proc EXCEPT ![p] = Idle] ELSE Goto(p, "commit")
  /\ UNCHANGED <<storeVars, now, touchedAt, checkpoints, inbox, faults>>

-----------------------------------------------------------------------------
(* The commit and the settlement of what it replaced; the pipeline and the  *)
(* fill do both the same way.                                               *)

\* Stops first, if the read position is another thesis that the rule does not hold.
AfterReading_NoWalk(existing, id, thesis) == "commit"
AfterReading(existing, id, thesis) ==
  IF \E q \in existing : q # id /\ ~HeldBy(thesis, positions[q]) THEN "exits" ELSE "commit"

\* The marker goes with the commit when no position was there to be replaced.
Folds_Always(p) == p # ExitCheck
Folds(p) == p # ExitCheck /\ proc[p].existing = {} /\ ~proc[p].stopped
Commitment(p, breakerTripped) ==
  [id |-> IdOf(p), asOf |-> proc[p].asOf, thesis |-> ThesisFor(p), breakerTripped |-> breakerTripped]
\* A fill passes no breaker window: its breaker was decided at signal time.
Commitments(p) == {Commitment(p, breakerTripped) : breakerTripped \in {FALSE, p # ExitCheck}}
CommitDecision(p) ==
  /\ proc[p].pc = "commit"
  /\ \E c \in Commitments(p) : CommitThesis(c)
  /\ IF Folds(p) THEN MarkDone(ItemOf(p)) ELSE UNCHANGED checkpoints
  /\ proc' = [proc EXCEPT ![p].pc = "committed", ![p].folded = Folds(p)]
  /\ UNCHANGED <<now, touchedAt, inbox, faults>>

FindReplaced(p) ==
  /\ proc[p].pc = "committed"
  /\ proc' = [proc EXCEPT ![p].pc = "settling",
                          ![p].todo = UnsettledReplaced(TickerOf(IdOf(p)), proc[p].asOf)]
  /\ UNCHANGED <<storeVars, now, touchedAt, checkpoints, inbox, faults>>

SettleReplaced(p, id) ==
  /\ proc[p].pc = "settling" /\ id \in proc[p].todo
  /\ SettleOutcome(id, positions[id].closedAt, positions[id].reason)
  /\ proc' = [proc EXCEPT ![p].todo = @ \ {id}]
  /\ UNCHANGED <<now, touchedAt, checkpoints, inbox, faults>>

EndSettling(p) ==
  /\ proc[p].pc = "settling" /\ proc[p].todo = {}
  /\ IF p = ExitCheck
     THEN /\ proc' = [proc EXCEPT ![p] = [Idle EXCEPT !.pc = "fills", !.tick = proc[p].tick,
                                                      !.pending = proc[p].pending]]
          /\ UNCHANGED checkpoints
     ELSE /\ IF proc[p].folded THEN UNCHANGED checkpoints ELSE MarkDone(ItemOf(p))
          /\ Goto(p, "ack")
  /\ UNCHANGED <<storeVars, now, touchedAt, inbox, faults>>

-----------------------------------------------------------------------------
(* An ANALYZE consumer w.                                                   *)

\* resumeFrom decides where a delivery starts; a finished run is only acknowledged.
ResumePc_NoAck(i) == CASE checkpoints[i].stage = "none" -> "agents"
                       [] checkpoints[i].stage = "traded" -> "portfolio"
                       [] checkpoints[i].stage = "done" -> "idle"
ResumePc(i) == CASE checkpoints[i].stage = "none" -> "agents"
                 [] checkpoints[i].stage = "traded" -> "portfolio"
                 [] checkpoints[i].stage = "done" -> "ack"
Receive(w, i) ==
  /\ proc[w].pc = "idle"
  /\ inbox[i].state = "queued"
  /\ DecidedAt(ThesisOf[i]) <= now
  /\ \/ /\ inbox' = [inbox EXCEPT ![i] = [state |-> "held", tries |-> @.tries + 1]]
        /\ proc' = [proc EXCEPT ![w] = [Idle EXCEPT !.pc = ResumePc(i), !.item = {i}, !.id = {ThesisOf[i]},
                                                    !.asOf = DecidedAt(ThesisOf[i])]]
     \* Trading or LLM calls paused, or the ticker disabled: acknowledged, never run.
     \/ /\ Pauses
        /\ inbox' = [inbox EXCEPT ![i].state = "acked"]
        /\ UNCHANGED proc
  /\ UNCHANGED <<storeVars, now, touchedAt, checkpoints, faults>>

\* The agents' stages up to the "traded" checkpoint; or the price-impact gate ends the
\* run, its decision and the marker in one batch.
Agents(w) ==
  /\ proc[w].pc = "agents"
  /\ \/ \E thesis \in Theses :
          /\ checkpoints' = [checkpoints EXCEPT ![ItemOf(w)] = [stage |-> "traded", thesis |-> thesis]]
          /\ Goto(w, "portfolio")
          /\ UNCHANGED storeVars
     \/ /\ "skipped_irrelevant" \in DirectStatuses
        /\ InsertTradeDecision(IdOf(w), NoThesis, "skipped_irrelevant")
        /\ MarkDone(ItemOf(w))
        /\ Goto(w, "ack")
  /\ UNCHANGED <<now, touchedAt, inbox, faults>>

ReadBook(w) ==
  /\ proc[w].pc = "portfolio"
  /\ \E existing \in OpenPositionForTickerAsOf(TickerOf(IdOf(w)), proc[w].asOf) :
       proc' = [proc EXCEPT ![w].pc = "gates", ![w].existing = existing]
  /\ UNCHANGED <<storeVars, now, touchedAt, checkpoints, inbox, faults>>

\* Risk, the portfolio manager, the range and trend filters and the price: a decision
\* without a position, its marker in the same batch; or on to the commit.
Gates(w) ==
  /\ proc[w].pc = "gates"
  /\ \/ \E status \in DirectStatuses \ {"skipped_irrelevant"} :
          /\ status = "pending_entry" => StalePrices
          /\ InsertTradeDecision(IdOf(w), ThesisFor(w), status)
          /\ MarkDone(ItemOf(w))
          /\ Goto(w, "ack")
     \/ /\ ~BreachesCeiling(positions, Commitment(w, FALSE))
        /\ Goto(w, AfterReading(proc[w].existing, IdOf(w), ThesisFor(w)))
        /\ UNCHANGED <<storeVars, checkpoints>>
  /\ UNCHANGED <<now, touchedAt, inbox, faults>>

Ack(w) ==
  /\ proc[w].pc = "ack"
  /\ inbox' = [inbox EXCEPT ![ItemOf(w)].state = "acked"]
  /\ proc' = [proc EXCEPT ![w] = Idle]
  /\ UNCHANGED <<storeVars, now, touchedAt, checkpoints, faults>>

\* A death, or a throw that reaches the handler: message.retry, or the dead-letter queue.
Fail(w) ==
  /\ proc[w].pc # "idle" /\ faults < MaxFaults
  /\ inbox' = [inbox EXCEPT ![ItemOf(w)].state =
                IF inbox[ItemOf(w)].tries < MaxDeliveries THEN "queued" ELSE "dead"]
  /\ proc' = [proc EXCEPT ![w] = Idle]
  /\ faults' = faults + 1
  /\ UNCHANGED <<storeVars, now, touchedAt, checkpoints>>

-----------------------------------------------------------------------------
(* The exit_check consumer: fillPendingEntries, then the exits of the book. *)

ExitCheckTick ==
  /\ proc[ExitCheck].pc = "idle"
  /\ proc' = [proc EXCEPT ![ExitCheck] =
                [Idle EXCEPT !.pc = "fills", !.tick = now, !.pending = PendingEntriesAsOf(now)]]
  /\ UNCHANGED <<storeVars, now, touchedAt, checkpoints, inbox, faults>>

NextPending(d) ==
  /\ proc[ExitCheck].pc = "fills"
  /\ d \in proc[ExitCheck].pending
  /\ \A e \in proc[ExitCheck].pending : DecidedAt(d) <= DecidedAt(e)

\* The first bar that opened at or after the decision, has closed by the tick, and
\* opened before the entry expired.
FillInstants_Lookahead(d, tick) ==
  {t \in Instants : DecidedAt(d) <= t /\ t < DecidedAt(d) + FillExpiry}
FillInstants(d, tick) ==
  {t \in Instants : DecidedAt(d) <= t /\ t <= tick /\ t < DecidedAt(d) + FillExpiry}
Fill(d, openedAt) ==
  /\ NextPending(d)
  /\ openedAt \in FillInstants(d, proc[ExitCheck].tick)
  /\ \E existing \in OpenPositionForTickerAsOf(TickerOf(d), openedAt) :
       proc' = [proc EXCEPT ![ExitCheck].pc = AfterReading(existing, d, decisions[d].thesis),
                            ![ExitCheck].id = {d}, ![ExitCheck].asOf = openedAt,
                            ![ExitCheck].existing = existing, ![ExitCheck].pending = @ \ {d}]
  /\ UNCHANGED <<storeVars, now, touchedAt, checkpoints, inbox, faults>>

\* No such bar: the entry expires, or waits for the next tick.
NoFill(d) ==
  /\ NextPending(d)
  /\ IF DecidedAt(d) + FillExpiry <= proc[ExitCheck].tick THEN ExpirePendingEntry(d) ELSE UNCHANGED storeVars
  /\ proc' = [proc EXCEPT ![ExitCheck].pending = @ \ {d}]
  /\ UNCHANGED <<now, touchedAt, checkpoints, inbox, faults>>

BookExits == [Idle EXCEPT !.pc = "exits", !.asOf = proc[ExitCheck].tick, !.tick = proc[ExitCheck].tick]
EndFills ==
  /\ proc[ExitCheck].pc = "fills" /\ proc[ExitCheck].pending = {}
  /\ proc' = [proc EXCEPT ![ExitCheck] = BookExits]
  /\ UNCHANGED <<storeVars, now, touchedAt, checkpoints, inbox, faults>>

\* A throw in the fills is logged and the exit check still runs; a throw in the exit
\* check, or a death, ends the tick.
ExitCheckFails ==
  /\ proc[ExitCheck].pc # "idle" /\ faults < MaxFaults
  /\ \/ /\ proc[ExitCheck].pc = "fills" \/ proc[ExitCheck].id # {}
        /\ proc' = [proc EXCEPT ![ExitCheck] = BookExits]
     \/ proc' = [proc EXCEPT ![ExitCheck] = Idle]
  /\ faults' = faults + 1
  /\ UNCHANGED <<storeVars, now, touchedAt, checkpoints, inbox>>

-----------------------------------------------------------------------------
\* Without LateNews every item is finished before the clock leaves its instant.
Tick ==
  /\ now < LastInstant
  /\ LateNews \/ \A i \in Items : DecidedAt(ThesisOf[i]) <= now => inbox[i].state \in {"acked", "dead"}
  /\ now' = now + 1
  /\ UNCHANGED <<storeVars, touchedAt, checkpoints, inbox, proc, faults>>

EngineInit ==
  /\ Init
  /\ now = 1
  /\ touchedAt \in Markets
  /\ checkpoints = [i \in Items |-> NoCheckpoint]
  /\ inbox = [i \in Items |-> [state |-> "queued", tries |-> 0]]
  /\ proc = [p \in Processes |-> Idle]
  /\ faults = 0

SharedStep(p) ==
  \/ StartExits(p) \/ SettleExit(p) \/ EndExits(p)
  \/ CommitDecision(p) \/ FindReplaced(p) \/ EndSettling(p)
  \/ \E id \in ThesisIds : ExitPosition(p, id) \/ SettleReplaced(p, id)
ConsumerStep(w) ==
  \/ SharedStep(w)
  \/ Agents(w) \/ ReadBook(w) \/ Gates(w) \/ Ack(w)
  \/ \E i \in Items : Receive(w, i)
ExitCheckStep ==
  \/ SharedStep(ExitCheck)
  \/ ExitCheckTick \/ EndFills
  \/ \E d \in ThesisIds : NoFill(d) \/ \E openedAt \in Instants : Fill(d, openedAt)

EngineNext ==
  \/ \E w \in Consumers : ConsumerStep(w) \/ Fail(w)
  \/ ExitCheckStep \/ ExitCheckFails
  \/ Tick

EngineSpec == EngineInit /\ [][EngineNext]_vars

\* The queues deliver what they hold, an invocation runs on, and cron ticks recur.
Fairness == WF_vars(Tick) /\ WF_vars(ExitCheckStep) /\ \A w \in Consumers : WF_vars(ConsumerStep(w))
FairEngineSpec == EngineSpec /\ Fairness

-----------------------------------------------------------------------------
(* Properties.                                                              *)

\* The engine's processes keep the store's contract, so what RunStore shows of any
\* callers holds of these.
EngineKeepsStoreContract == Spec

\* Every position is the one its decision says was opened, and it opened at a bar that was
\* there: the fill of a pending entry looks at no bar of the future.
PositionIsDecided ==
  \A id \in ThesisIds : HasRow(positions, id) =>
    /\ decisions[id] = [status |-> "opened", thesis |-> positions[id].thesis]
    /\ positions[id].openedAt <= now

\* The completion marker says the truth: the run has left its decision, and a commit that
\* took the marker with it replaced nothing that its process would have to settle.
DoneIsDone ==
  /\ \A i \in Items : checkpoints[i].stage = "done" => decisions[ThesisOf[i]].status # "none"
  /\ \A w \in Consumers : proc[w].pc = "committed" /\ proc[w].folded =>
       UnsettledReplaced(TickerOf(IdOf(w)), proc[w].asOf) = {}

\* Touched while it was open, before the hold limit, at or before `until`.
TouchedInLife(id, until) ==
  /\ positions[id].openedAt < touchedAt[id]
  /\ touchedAt[id] <= WalkUntil(id, until)

\* The cursor never passes a stop or target that has not closed the position, whoever walked.
NoTouchSkipped ==
  \A id \in ThesisIds : IsOpen(positions, id) => ~TouchedInLife(id, positions[id].lastCheckedAt)

\* Stops first: no position whose level was touched is flipped at a later price.
StopsFirst ==
  \A id \in ThesisIds : positions[id].reason \in ReplacedReasons => ~TouchedInLife(id, positions[id].closedAt)

\* In the history the table keeps, no ticker has two positions at one instant.
NoOverlap ==
  \A p, q \in ThesisIds : \A t \in Instants :
    /\ IsOpenAsOf(positions, p, t) /\ IsOpenAsOf(positions, q, t)
    /\ TickerOf(p) = TickerOf(q)
    => p = q

\* At no instant of that history does the book exceed the portfolio's risk ceilings.
CeilingHolds ==
  \A t \in Instants : LET open == OpenPositionsAsOf(positions, t) IN
    /\ ExposureOf(positions, open) <= MaxPortfolioRisk
    /\ StopRiskOf(positions, open) <= MaxStopRisk

\* A replaced position is settled, also when the process that replaced it dies.
ReplacedIsSettled ==
  \A id \in ThesisIds : positions[id].reason \in ReplacedReasons ~> memory[id] # NoMemory

\* A pending entry is filled or expires.
PendingIsResolved ==
  \A id \in ThesisIds : decisions[id].status = "pending_entry" ~> decisions[id].status # "pending_entry"

\* No position stays open for ever, also when its ticker has no bars to fill an exit at.
PositionIsClosed ==
  \A id \in ThesisIds : IsOpen(positions, id) ~> ~IsOpen(positions, id)

\* A message is acknowledged or ends in the dead-letter queue.
MessageIsDisposed ==
  \A i \in Items : inbox[i].state = "held" ~> inbox[i].state \in {"acked", "dead"}
=============================================================================

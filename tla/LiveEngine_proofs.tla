-------------------------- MODULE LiveEngine_proofs --------------------------
(***************************************************************************)
(* For any items, consumers, prices, delays, faults and deliveries, and    *)
(* with every switch of LiveEngine on or off: the engine keeps the store's *)
(* contract, so that it implements RunStore and has all that               *)
(* RunStore_proofs shows of any callers; no cursor passes a touched stop;  *)
(* and until the first fault no position stands without its decision.      *)
(*                                                                         *)
(* The contract rests on three facts.  An item is in the hands of one      *)
(* consumer, and a run that left a pending entry is done, so that only the *)
(* exit check commits it.  A row that is there before its commit was put   *)
(* there by an earlier attempt, from the same checkpoint.  And a closed    *)
(* row stays as it is, so that what a process read of it, to settle it, is *)
(* still true when it does.                                                *)
(*                                                                         *)
(* Four more properties need the items to be finished in the order of      *)
(* their instants, no stale price and a positive hold (~LateNews,          *)
(* ~StalePrices, HoldLimit > 0), where TLC checks them too.  Every commit  *)
(* is then at the wall clock's instant (Punctual), so that the rows of a   *)
(* ticker follow one another (RowsInOrder) and what a consumer read before *)
(* it waited is still true when it uses it (ReadOK).  OrderInv is the      *)
(* inductive invariant; DoneIsDone, StopsFirst, NoOverlap and CeilingHolds *)
(* are read off it.                                                        *)
(***************************************************************************)
EXTENDS LiveEngine, RunStore_proofs

PreCommit == {"portfolio", "gates", "exits", "exiting", "commit"}
Pcs == PreCommit \cup {"idle", "agents", "committed", "settling", "ack", "fills"}
ProcType ==
  [pc : Pcs, item : SUBSET Items, id : SUBSET ThesisIds, asOf : Instants \cup {0}, existing : SUBSET ThesisIds,
   stopped : BOOLEAN, folded : BOOLEAN, tick : Instants \cup {0}, pending : SUBSET ThesisIds,
   todo : SUBSET ThesisIds, closing : SUBSET [id : ThesisIds, at : Instants, reason : CloseReasons]]

EngineType ==
  /\ now \in Instants
  /\ touchedAt \in [ThesisIds -> Nat]
  /\ checkpoints \in [Items -> [stage : {"none", "traded", "done"}, thesis : Theses \cup {NoThesis}]]
  /\ inbox \in [Items -> [state : {"queued", "held", "acked", "dead"}, tries : Nat]]
  /\ proc \in [Processes -> ProcType]

IsPending(id) == decisions[id].status = "pending_entry"

\* A row has left its decision, and a decision that waits says what to commit.
RowsDecided ==
  \A id \in ThesisIds :
    /\ HasRow(positions, id) => decisions[id].status \notin {"none", "pending_entry"}
    /\ IsPending(id) => decisions[id].thesis \in Theses

\* What an item's checkpoint says of its rows.
CheckpointOK(i) ==
  /\ IsPending(ThesisOf[i]) => checkpoints[i].stage = "done"
  /\ checkpoints[i].stage = "traded" => checkpoints[i].thesis \in Theses
  /\ HasRow(positions, ThesisOf[i]) /\ checkpoints[i].stage # "done" =>
       /\ checkpoints[i].stage = "traded"
       /\ positions[ThesisOf[i]].thesis = checkpoints[i].thesis
       /\ positions[ThesisOf[i]].openedAt = DecidedAt(ThesisOf[i])
CheckpointsOK == \A i \in Items : CheckpointOK(i)

\* A consumer holds one item, and nobody else holds it.
Holds(w, i) ==
  /\ proc[w].item = {i} /\ proc[w].id = {ThesisOf[i]} /\ proc[w].asOf = DecidedAt(ThesisOf[i])
  /\ proc[w].pc # "idle" /\ inbox[i].state = "held"
  /\ proc[w].pc = "agents" => checkpoints[i].stage = "none"
  /\ proc[w].pc \in PreCommit => checkpoints[i].stage = "traded"
ConsumerOK(w) == IF proc[w].pc = "idle" THEN proc[w].item = {} ELSE \E i \in Items : Holds(w, i)
Apart == \A v, w \in Consumers : v # w => proc[v].item \cap proc[w].item = {}

\* The exit check commits pending entries, each once, at or after its decision.
Fills(d) == proc[ExitCheck].id = {d} /\ IsPending(d) /\ DecidedAt(d) <= proc[ExitCheck].asOf
ExitCheckOK ==
  LET e == proc[ExitCheck] IN
  /\ e.pc # "idle" => e.tick \in Instants
  /\ e.pc \in {"exits", "exiting", "commit", "committed", "settling"} => e.asOf \in Instants
  /\ \A d \in e.pending : IsPending(d)
  /\ e.pc = "commit" => e.id # {}
  /\ e.pc \in {"exits", "exiting", "commit"} /\ e.id # {} => \E d \in ThesisIds \ e.pending : Fills(d)

\* What a process has still to visit is there, and what it has to settle is closed.
PlanOK(p) ==
  /\ proc[p].pc = "exiting" =>
       \A q \in proc[p].todo : HasRow(positions, q) /\ positions[q].openedAt <= proc[p].asOf
  /\ proc[p].pc = "settling" => \A q \in proc[p].todo : positions[q].state = "closed"
  /\ \A c \in proc[p].closing : /\ positions[c.id].state = "closed"
                                /\ positions[c.id].closedAt = c.at /\ positions[c.id].reason = c.reason

CursorOK ==
  \A id \in ThesisIds : IsOpen(positions, id) /\ positions[id].lastCheckedAt # 0 =>
    positions[id].openedAt <= positions[id].lastCheckedAt

EngineInv ==
  /\ EngineType /\ RowsDecided /\ CheckpointsOK /\ Apart /\ ExitCheckOK /\ CursorOK
  /\ \A w \in Consumers : ConsumerOK(w)
  /\ \A p \in Processes : PlanOK(p)

-----------------------------------------------------------------------------
LEMMA TheOne == \A x : The({x}) = x
  BY DEF The

LEMMA Clock == LastInstant \in Instants /\ \A t \in Nat : 1 <= t /\ t <= LastInstant => t \in Instants
<1>1. PICK last \in Instants : Instants = 1 .. last
  BY ClockAssumption
<1>2. last \in Nat /\ \A u \in Instants : u <= last
  BY <1>1, InstantsAssumption
<1>3. LastInstant \in Instants /\ \A u \in Instants : u <= LastInstant
  BY <1>2 DEF LastInstant
<1>4. QED  BY <1>1, <1>2, <1>3

\* The instants have no gap.
LEMMA Between == \A t \in Instants, u \in Nat : 1 <= u /\ u <= t => u \in Instants
<1>1. PICK last \in Instants : Instants = 1 .. last
  BY ClockAssumption
<1>2. QED  BY <1>1, InstantsAssumption

LEMMA ThesisOfFacts ==
  /\ \A i \in Items : ThesisOf[i] \in ThesisIds /\ DecidedAt(ThesisOf[i]) \in Instants
  /\ \A i, j \in Items : ThesisOf[i] = ThesisOf[j] => i = j
  BY ThesisOfAssumption, ThesisIdsAssumption DEF Injection, IsInjective, DecidedAt

-----------------------------------------------------------------------------
(* What the steps do to the store: each is a call of RunStore, or none.     *)

\* Who is about to commit may.
LEMMA CommitIsAllowed ==
  ASSUME StoreInv, EngineInv, NEW p \in Processes, proc[p].pc = "commit", NEW c \in Commitments(p)
  PROVE  c \in Commits /\ MayCommit(c) /\ c.id = IdOf(p)
<1>1. PICK b \in {FALSE, p # ExitCheck} : c = Commitment(p, b)
  BY DEF Commitments
<1>2. CASE p # ExitCheck
  <2>1. PICK i \in Items : Holds(p, i)
    BY <1>2 DEF EngineInv, ConsumerOK, Processes
  <2>2. /\ c = [id |-> ThesisOf[i], asOf |-> DecidedAt(ThesisOf[i]), thesis |-> checkpoints[i].thesis, breakerTripped |-> b]
        /\ IdOf(p) = ThesisOf[i]
    BY <1>1, <1>2, <2>1, TheOne DEF Commitment, IdOf, ItemOf, ThesisFor, Holds
  <2>3. CheckpointOK(i) /\ checkpoints[i].stage = "traded"
    BY <2>1 DEF EngineInv, CheckpointsOK, Holds, PreCommit
  <2>4. b \in BOOLEAN
    OBVIOUS
  <2>5. c \in Commits
    BY <2>2, <2>3, <2>4, ThesisOfFacts DEF Commits, CheckpointOK
  <2>6. DecidedAt(ThesisOf[i]) \in Nat
    BY ThesisOfFacts, InstantsAssumption
  <2>7. QED  BY <2>2, <2>3, <2>5, <2>6 DEF MayCommit, CheckpointOK, IsPending
<1>3. CASE p = ExitCheck
  <2>1. PICK d \in ThesisIds : Fills(d)
    BY <1>3 DEF EngineInv, ExitCheckOK
  <2>2. /\ c = [id |-> d, asOf |-> proc[ExitCheck].asOf, thesis |-> decisions[d].thesis, breakerTripped |-> b]
        /\ IdOf(p) = d
    BY <1>1, <1>3, <2>1, TheOne DEF Commitment, IdOf, ThesisFor, Fills
  <2>3. decisions[d].thesis \in Theses /\ ~HasRow(positions, d)
    BY <2>1 DEF EngineInv, RowsDecided, Fills, IsPending
  <2>4. proc[ExitCheck].asOf \in Instants /\ DecidedAt(d) <= proc[ExitCheck].asOf
    BY <1>3, <2>1 DEF EngineInv, ExitCheckOK, Fills
  <2>5. c \in Commits
    BY <2>2, <2>3, <2>4 DEF Commits
  <2>6. proc[ExitCheck].asOf \in Nat /\ DecidedAt(d) \in Nat
    BY <2>4, InstantsAssumption, ThesisIdsAssumption DEF DecidedAt
  <2>7. QED  BY <2>2, <2>3, <2>4, <2>5, <2>6 DEF MayCommit
<1>4. QED  BY <1>2, <1>3

\* A close, a check or a settlement of the exit walk is a call that the contract allows; a
\* call for a row that has closed since changes nothing.
LEMMA ClosedCall ==
  ASSUME StoreInv, NEW id \in ThesisIds, NEW at, NEW reason, ~IsOpen(positions, id)
  PROVE  /\ ClosePosition(id, at, reason) => UNCHANGED storeVars
         /\ AdvancePositionCheck(id, at) => UNCHANGED storeVars
  BY DEF StoreInv, TypeOK, IsOpen, ClosePosition, AdvancePositionCheck, storeVars

LEMMA RowFacts ==
  ASSUME StoreInv, NEW id \in ThesisIds, IsOpen(positions, id)
  PROVE  /\ positions[id].openedAt \in Instants /\ positions[id].openedAt \in Nat
         /\ positions[id].lastCheckedAt \in Nat /\ HasRow(positions, id)
<1>1. positions[id] \in RowType
  BY DEF StoreInv, TypeOK
<1>2. positions[id].openedAt \in Instants /\ positions[id].lastCheckedAt \in Instants \cup {0}
  BY <1>1 DEF RowType, StoreInv, RowShape, IsOpen
<1>3. positions[id].openedAt \in Nat /\ positions[id].lastCheckedAt \in Nat
  BY <1>2, InstantsAssumption
<1>4. HasRow(positions, id)
  BY DEF IsOpen, HasRow
<1>5. QED  BY <1>2, <1>3, <1>4

LEMMA WalkFacts ==
  ASSUME StoreInv, EngineInv, NEW id \in ThesisIds, IsOpen(positions, id), NEW asOf \in Instants,
         positions[id].openedAt <= asOf
  PROVE  /\ DueAt(id) \in Nat /\ positions[id].openedAt <= DueAt(id)
         /\ WalkUntil(id, asOf) \in Instants /\ WalkUntil(id, asOf) \in Nat
         /\ positions[id].openedAt <= WalkUntil(id, asOf)
         /\ WalkedTo(id) \in Nat /\ positions[id].openedAt <= WalkedTo(id)
<1>1. /\ positions[id].openedAt \in Instants /\ positions[id].openedAt \in Nat
      /\ positions[id].lastCheckedAt \in Nat
  BY RowFacts
<1>2. asOf \in Nat /\ HoldLimit \in Nat
  BY InstantsAssumption, LimitsAssumption
<1>3. DueAt(id) \in Nat /\ positions[id].openedAt <= DueAt(id) /\ 1 <= positions[id].openedAt
  BY <1>1, <1>2, InstantsAssumption DEF DueAt
<1>4. WalkUntil(id, asOf) \in Instants /\ positions[id].openedAt <= WalkUntil(id, asOf)
  BY <1>1, <1>2, <1>3, Between DEF WalkUntil
<1>5. WalkedTo(id) \in Nat /\ positions[id].openedAt <= WalkedTo(id)
  BY <1>1 DEF WalkedTo, EngineInv, CursorOK
<1>6. QED  BY <1>3, <1>4, <1>5, InstantsAssumption

\* A visit of the exit walk closes an open row at an instant of its life, or moves its cursor.
VisitCloses(p, id) ==
  \E at \in Nat, reason \in {"stop_or_target", "time_based"} :
    /\ CloseAndSettle(p, id, at, reason)
    /\ IsOpen(positions, id) => at \in Instants /\ positions[id].openedAt <= at
VisitMoves(p, id) ==
  /\ ~IsTouched(id, proc[p].asOf)
  /\ AdvancePositionCheck(id, WalkUntil(id, proc[p].asOf))
  /\ proc' = [proc EXCEPT ![p].todo = @ \ {id}]

LEMMA Visit ==
  ASSUME StoreInv, EngineInv, NEW p \in Processes, NEW id \in ThesisIds, ExitPosition(p, id)
  PROVE  /\ HasRow(positions, id) /\ positions[id].openedAt <= proc[p].asOf /\ proc[p].asOf \in Instants
         /\ VisitCloses(p, id) \/ VisitMoves(p, id)
<1> DEFINE asOf == proc[p].asOf
<1>1. proc[p].pc = "exiting" /\ id \in proc[p].todo
  BY DEF ExitPosition
<1>2. HasRow(positions, id) /\ positions[id].openedAt <= asOf
  BY <1>1 DEF EngineInv, PlanOK
<1>3. asOf \in Instants
  <2>1. CASE p = ExitCheck
    BY <1>1, <2>1 DEF EngineInv, ExitCheckOK
  <2>2. CASE p # ExitCheck
    BY <1>1, <2>2, ThesisOfFacts DEF EngineInv, ConsumerOK, Holds, Processes
  <2>3. QED  BY <2>1, <2>2
<1>4. IsOpen(positions, id) => /\ DueAt(id) \in Nat /\ positions[id].openedAt <= DueAt(id)
                               /\ WalkUntil(id, asOf) \in Instants /\ WalkUntil(id, asOf) \in Nat
                               /\ WalkedTo(id) \in Nat /\ positions[id].openedAt <= WalkedTo(id)
                               /\ positions[id].openedAt \in Nat
  BY <1>2, <1>3, WalkFacts, RowFacts
<1>5. CASE IsTouched(id, asOf) /\ CloseAndSettle(p, id, touchedAt[id], "stop_or_target")
  <2>1. touchedAt[id] \in Nat
    BY DEF EngineInv, EngineType
  <2>2. IsOpen(positions, id) => touchedAt[id] \in Instants /\ positions[id].openedAt <= touchedAt[id]
    BY <1>4, <1>5, <2>1, Between DEF IsTouched
  <2>3. VisitCloses(p, id)
    BY <1>5, <2>1, <2>2 DEF VisitCloses
  <2>4. QED  BY <1>2, <1>3, <2>3
<1>6. CASE \E at \in TimeExitInstants(id, asOf) : CloseAndSettle(p, id, at, "time_based")
  <2>1. PICK at \in TimeExitInstants(id, asOf) : CloseAndSettle(p, id, at, "time_based")
    BY <1>6
  <2>2. at \in Instants /\ at \in Nat /\ DueAt(id) <= at
    BY <2>1, InstantsAssumption DEF TimeExitInstants
  <2>3. IsOpen(positions, id) => positions[id].openedAt <= at
    BY <1>4, <2>2
  <2>4. VisitCloses(p, id)
    BY <2>1, <2>2, <2>3 DEF VisitCloses
  <2>5. QED  BY <1>2, <1>3, <2>4
<1>7. CASE VisitMoves(p, id)
  BY <1>2, <1>3, <1>7
<1>8. QED  BY <1>5, <1>6, <1>7 DEF ExitPosition, VisitMoves

LEMMA ExitIsCall ==
  ASSUME StoreInv, EngineInv, NEW p \in Processes, NEW id \in ThesisIds, ExitPosition(p, id)
  PROVE  Close \/ Check \/ UNCHANGED storeVars
<1>1. CASE ~IsOpen(positions, id)
  BY <1>1, ClosedCall DEF ExitPosition, CloseAndSettle
<1>2. CASE IsOpen(positions, id) /\ VisitCloses(p, id)
  <2>1. {"stop_or_target", "time_based"} \subseteq CloseReasons \ ReplacedReasons
    BY DEF CloseReasons, ReplacedReasons
  <2>2. QED  BY <1>2, <2>1, Visit DEF VisitCloses, CloseAndSettle, Close
<1>3. CASE IsOpen(positions, id) /\ VisitMoves(p, id)
  BY <1>3, Visit, WalkFacts DEF VisitMoves, Check
<1>4. QED  BY <1>1, <1>2, <1>3, Visit

LEMMA SettlementIsCall ==
  ASSUME StoreInv, EngineInv, NEW p \in Processes,
         SettleExit(p) \/ \E id \in ThesisIds : SettleReplaced(p, id)
  PROVE  Settle \/ UNCHANGED storeVars
<1>1. CASE SettleExit(p)
  <2>1. PICK close \in proc[p].closing : SettleOutcome(close.id, close.at, close.reason)
    BY <1>1 DEF SettleExit
  <2>2. /\ close.id \in ThesisIds /\ positions[close.id].state = "closed"
        /\ positions[close.id].closedAt = close.at /\ positions[close.id].reason = close.reason
    BY <2>1 DEF EngineInv, EngineType, ProcType, PlanOK
  <2>3. QED  BY <2>1, <2>2 DEF SettleOutcome, Settle
<1>2. CASE \E id \in ThesisIds : SettleReplaced(p, id)
  BY <1>2 DEF SettleReplaced, SettleOutcome, Settle, EngineInv, PlanOK
<1>3. QED  BY <1>1, <1>2

LEMMA DecisionIsCall ==
  ASSUME StoreInv, EngineInv, NEW w \in Consumers, Agents(w) \/ Gates(w)
  PROVE  Decide \/ UNCHANGED storeVars
<1>1. proc[w].pc \in {"agents", "gates"}
  BY DEF Agents, Gates
<1>2. PICK i \in Items : Holds(w, i)
  BY <1>1 DEF EngineInv, ConsumerOK
<1>3. IdOf(w) = ThesisOf[i] /\ IdOf(w) \in ThesisIds
  <2>1. proc[w].id = {ThesisOf[i]}
    BY <1>2 DEF Holds
  <2>2. QED  BY <2>1, TheOne, ThesisOfFacts DEF IdOf
<1>4. CASE Agents(w)
  BY <1>3, <1>4 DEF Agents, Decide
<1>5. CASE Gates(w)
  <2>1. ThesisFor(w) = checkpoints[i].thesis
    BY <1>2, TheOne, ConsumersAssumption DEF ThesisFor, ItemOf, Holds
  <2>2. checkpoints[i].stage = "traded"
    BY <1>2, <1>5 DEF Holds, Gates, PreCommit
  <2>3. ThesisFor(w) \in Theses
    BY <2>1, <2>2 DEF EngineInv, CheckpointsOK, CheckpointOK
  <2>4. ThesisFor(w) # NoThesis
    BY <2>3, ThesesAssumption DEF ThesisType, Directions, NoThesis
  <2>5. QED  BY <1>3, <1>5, <2>3, <2>4 DEF Gates, Decide
<1>6. QED  BY <1>4, <1>5

LEMMA StepIsCall == StoreInv /\ EngineInv /\ [EngineNext]_vars => [Next]_storeVars
<1> SUFFICES ASSUME StoreInv, EngineInv, [EngineNext]_vars PROVE [Next]_storeVars
  OBVIOUS
<1>1. ASSUME NEW p \in Processes, SharedStep(p) PROVE [Next]_storeVars
  <2>1. CASE StartExits(p) \/ EndExits(p) \/ FindReplaced(p) \/ EndSettling(p)
    BY <2>1 DEF StartExits, EndExits, FindReplaced, EndSettling, storeVars
  <2>2. CASE CommitDecision(p)
    <3>1. proc[p].pc = "commit" /\ \E c \in Commitments(p) : CommitThesis(c)
      BY <2>2 DEF CommitDecision
    <3>2. QED  BY <3>1, CommitIsAllowed DEF Next, Commit
  <2>3. CASE SettleExit(p) \/ \E id \in ThesisIds : SettleReplaced(p, id)
    BY <2>3, SettlementIsCall DEF Next
  <2>4. CASE \E id \in ThesisIds : ExitPosition(p, id)
    BY <2>4, ExitIsCall DEF Next
  <2>5. QED  BY <1>1, <2>1, <2>2, <2>3, <2>4 DEF SharedStep
<1>2. ASSUME NEW w \in Consumers, ConsumerStep(w) PROVE [Next]_storeVars
  <2>1. CASE Agents(w) \/ Gates(w)
    BY <2>1, DecisionIsCall DEF Next
  <2>2. CASE ReadBook(w) \/ Ack(w) \/ \E i \in Items : Receive(w, i)
    BY <2>2 DEF ReadBook, Ack, Receive, storeVars
  <2>3. QED  BY <1>1, <1>2, <2>1, <2>2 DEF ConsumerStep, Processes
<1>3. CASE ExitCheckStep
  <2>1. CASE ExitCheckTick \/ EndFills \/ \E d \in ThesisIds, openedAt \in Instants : Fill(d, openedAt)
    BY <2>1 DEF ExitCheckTick, EndFills, Fill, storeVars
  <2>2. CASE \E d \in ThesisIds : NoFill(d)
    BY <2>2 DEF NoFill, Next, Expire, storeVars
  <2>3. QED  BY <1>1, <1>3, <2>1, <2>2 DEF ExitCheckStep, Processes
<1>4. CASE (\E w \in Consumers : Fail(w)) \/ ExitCheckFails \/ Tick \/ UNCHANGED vars
  BY <1>4 DEF Fail, ExitCheckFails, Tick, vars, storeVars
<1>5. QED  BY <1>2, <1>3, <1>4 DEF EngineNext

-----------------------------------------------------------------------------
(* EngineInv is inductive.                                                  *)

LEMMA EngineInvInit == EngineInit => EngineInv
<1> SUFFICES ASSUME EngineInit PROVE EngineInv
  OBVIOUS
<1>1. Idle \in ProcType
  BY DEF Idle, ProcType, Pcs
<1>2. 1 \in Instants
  <2>1. PICK last \in Instants : Instants = 1 .. last
    BY ClockAssumption
  <2>2. QED  BY <2>1, InstantsAssumption
<1>3. EngineType
  BY <1>1, <1>2, MarketsAssumption DEF EngineInit, EngineType, NoCheckpoint
<1>4. \A id \in ThesisIds : positions[id] = NoRow /\ decisions[id] = NoDecision
  BY DEF EngineInit, Init
<1>5. RowsDecided /\ CursorOK
  BY <1>4 DEF RowsDecided, CursorOK, HasRow, IsOpen, IsPending, NoRow, NoDecision
<1>6. CheckpointsOK
  BY <1>4, ThesisOfFacts DEF EngineInit, CheckpointsOK, CheckpointOK, HasRow, IsPending, NoRow, NoDecision, NoCheckpoint
<1>7. \A p \in Processes : proc[p] = Idle
  BY DEF EngineInit
<1>8. Apart /\ ExitCheckOK /\ (\A w \in Consumers : ConsumerOK(w)) /\ (\A p \in Processes : PlanOK(p))
  BY <1>7 DEF Apart, ExitCheckOK, ConsumerOK, PlanOK, Idle, Processes
<1>9. QED  BY <1>3, <1>5, <1>6, <1>8 DEF EngineInv

\* A row stays once it is there, and a closed one stays as it is.
RowsKept ==
  \A q \in ThesisIds :
    /\ HasRow(positions, q) => /\ HasRow(positions', q)
                               /\ positions'[q].thesis = positions[q].thesis
                               /\ positions'[q].openedAt = positions[q].openedAt
    /\ positions[q].state = "closed" => positions'[q] = positions[q]

LEMMA StoreKeepsRows == StoreInv /\ [Next]_storeVars => RowsKept
<1> SUFFICES ASSUME StoreInv, [Next]_storeVars PROVE RowsKept
  OBVIOUS
<1>1. CASE Next
  <2>1. ClosedRowsStay
    BY <1>1, ClosedRowsStep
  <2>2. \A q \in ThesisIds : HasRow(positions, q) => HasRow(positions', q) /\ Stays(q)
    BY <1>1, RowsStay DEF StoreInv
  <2>3. QED  BY <2>1, <2>2 DEF RowsKept, ClosedRowsStay, Stays
<1>2. CASE UNCHANGED storeVars
  BY <1>2 DEF RowsKept, storeVars, HasRow
<1>3. QED  BY <1>1, <1>2

\* A commit touches its own row and decision, and rows it closes, and decides.
LEMMA CommitEffect ==
  ASSUME StoreInv, NEW c \in Commits, CommitThesis(c)
  PROVE  /\ \A q \in ThesisIds \ {c.id} : /\ HasRow(positions', q) => HasRow(positions, q)
                                          /\ decisions'[q] = decisions[q]
         /\ decisions'[c.id].status \notin {"none", "pending_entry"}
<1> DEFINE closed == CloseOld(positions, c)
<1>0. TypeOK /\ c.id \in ThesisIds
  BY DEF StoreInv, Commits
<1>1. /\ positions \in TableType /\ closed \in TableType
      /\ positions' = OpenNew(closed, c)
      /\ decisions' = [decisions EXCEPT ![c.id] = DecisionAfterCommit(@, Outcome(positions', c), c.thesis)]
  BY <1>0, CommitTables
<1>2. ASSUME NEW q \in ThesisIds \ {c.id}, HasRow(positions', q) PROVE HasRow(positions, q)
  <2>1. positions'[q] = closed[q]
    BY <1>1, OpenNewRow
  <2>2. closed[q] = positions[q] \/ IsOpen(positions, q)
    BY <1>1, CloseOldRow
  <2>3. QED  BY <1>2, <2>1, <2>2 DEF HasRow, IsOpen
<1>3. Outcome(positions', c) \notin {"none", "pending_entry"}
  BY DEF Outcome
<1>4. decisions[c.id] \in [status : Statuses \cup {"none"}, thesis : Theses \cup {NoThesis}]
  BY <1>0 DEF TypeOK
<1>5. decisions'[c.id].status \notin {"none", "pending_entry"}
  BY <1>0, <1>1, <1>3, <1>4 DEF DecisionAfterCommit, TypeOK
<1>6. \A q \in ThesisIds \ {c.id} : decisions'[q] = decisions[q]
  BY <1>0, <1>1 DEF TypeOK
<1>7. QED  BY <1>2, <1>5, <1>6

LEMMA RowsDecidedStep == StoreInv /\ RowsDecided /\ [Next]_storeVars => RowsDecided'
<1> SUFFICES ASSUME StoreInv, RowsDecided, [Next]_storeVars, NEW id \in ThesisIds
             PROVE  /\ HasRow(positions', id) => decisions'[id].status \notin {"none", "pending_entry"}
                    /\ IsPending(id)' => decisions'[id].thesis \in Theses
  BY DEF RowsDecided
<1>0. decisions[id] \in [status : Statuses \cup {"none"}, thesis : Theses \cup {NoThesis}]
  BY DEF StoreInv, TypeOK
<1>1. CASE Commit
  <2>1. PICK c \in Commits : CommitThesis(c)
    BY <1>1 DEF Commit
  <2>2. QED  BY <2>1, CommitEffect DEF RowsDecided, IsPending
<1>2. CASE Close \/ Check
  <2>1. decisions'[id] = decisions[id] /\ (HasRow(positions', id) => HasRow(positions, id))
    BY <1>2 DEF Close, Check, ClosePosition, AdvancePositionCheck, StoreInv, TypeOK, HasRow
  <2>2. QED  BY <2>1 DEF RowsDecided, IsPending
<1>3. CASE Decide
  <2>1. PICK d \in ThesisIds, status \in DirectStatuses, thesis \in Theses \cup {NoThesis} :
          /\ thesis = NoThesis <=> status = "skipped_irrelevant"
          /\ InsertTradeDecision(d, thesis, status)
    BY <1>3 DEF Decide
  <2>2. positions' = positions
    BY <2>1 DEF InsertTradeDecision
  <2>3. \/ decisions'[id] = decisions[id]
        \/ decisions[id].status = "none" /\ decisions'[id] = [status |-> status, thesis |-> thesis]
    BY <2>1 DEF InsertTradeDecision, StoreInv, TypeOK
  <2>4. status = "pending_entry" => thesis \in Theses
    BY <2>1
  <2>5. QED  BY <2>2, <2>3, <2>4 DEF RowsDecided, IsPending, HasRow
<1>4. CASE Expire
  <2>1. positions' = positions
    BY <1>4 DEF Expire, ExpirePendingEntry
  <2>2. decisions'[id] = decisions[id] \/ decisions'[id].status = "skipped_no_fill"
    BY <1>0, <1>4 DEF Expire, ExpirePendingEntry, StoreInv, TypeOK
  <2>3. QED  BY <2>1, <2>2 DEF RowsDecided, IsPending, HasRow
<1>5. CASE Settle \/ UNCHANGED storeVars
  BY <1>5 DEF Settle, RecordDecisionOutcome, storeVars, RowsDecided, IsPending, HasRow
<1>6. QED  BY <1>1, <1>2, <1>3, <1>4, <1>5 DEF Next

-----------------------------------------------------------------------------
(* Types.                                                                   *)

LEMMA AtWork ==
  ASSUME EngineInv, NEW w \in Consumers, proc[w].pc # "idle"
  PROVE  \E i \in Items : /\ Holds(w, i) /\ ItemOf(w) = i /\ IdOf(w) = ThesisOf[i]
                          /\ ThesisFor(w) = checkpoints[i].thesis
                          /\ \A v \in Consumers \ {w} : proc[v].item # {i}
<1>1. PICK i \in Items : Holds(w, i)
  BY DEF EngineInv, ConsumerOK
<1>2. proc[w].item = {i} /\ proc[w].id = {ThesisOf[i]}
  BY <1>1 DEF Holds
<1>3. ItemOf(w) = i /\ IdOf(w) = ThesisOf[i]
  BY <1>2, TheOne DEF ItemOf, IdOf
<1>4. \A v \in Consumers \ {w} : proc[v].item # {i}
  BY <1>2 DEF EngineInv, Apart
<1>5. ThesisFor(w) = checkpoints[i].thesis
  BY <1>3, ConsumersAssumption DEF ThesisFor
<1>6. QED  BY <1>1, <1>3, <1>4, <1>5

CheckpointType == [stage : {"none", "traded", "done"}, thesis : Theses \cup {NoThesis}]

LEMMA MarkDoneType ==
  ASSUME EngineType, NEW i \in Items, MarkDone(i)
  PROVE  checkpoints' \in [Items -> CheckpointType]
  BY DEF MarkDone, EngineType, CheckpointType

LEMMA SharedType ==
  ASSUME StoreInv, EngineInv, NEW p \in Processes, SharedStep(p)
  PROVE  EngineType'
<1>0. EngineType /\ proc[p] \in ProcType
  BY DEF EngineInv, EngineType
<1>1. CASE StartExits(p)
  <2>1. PICK todo \in SUBSET ThesisIds : proc' = [proc EXCEPT ![p].pc = "exiting", ![p].todo = todo]
    BY <1>1 DEF StartExits, OpenPositionsAsOf
  <2>2. proc' \in [Processes -> ProcType]
    BY <1>0, <2>1 DEF EngineType, ProcType, Pcs, PreCommit
  <2>3. QED  BY <1>0, <1>1, <2>2 DEF StartExits, EngineType
<1>2. CASE SettleExit(p)
  BY <1>0, <1>2 DEF SettleExit, EngineType, ProcType
<1>3. CASE EndExits(p)
  <2>1. PICK r \in ProcType : proc' = [proc EXCEPT ![p] = r]
    <3>1. Idle \in ProcType /\ [proc[p] EXCEPT !.pc = "commit"] \in ProcType
      BY <1>0 DEF Idle, ProcType, Pcs, PreCommit
    <3>2. QED  BY <1>3, <3>1 DEF EndExits, Goto
  <2>2. QED  BY <1>0, <1>3, <2>1 DEF EndExits, EngineType
<1>4. ASSUME p # ExitCheck, proc[p].pc # "idle" PROVE ItemOf(p) \in Items
  BY <1>4, AtWork DEF Processes
<1>6. CASE CommitDecision(p)
  <2>1. checkpoints' \in [Items -> CheckpointType]
    BY <1>0, <1>4, <1>6, MarkDoneType DEF CommitDecision, Folds, EngineType, CheckpointType
  <2>2. Folds(p) \in BOOLEAN
    BY DEF Folds
  <2>3. proc' \in [Processes -> ProcType]
    BY <1>0, <1>6, <2>2 DEF CommitDecision, EngineType, ProcType, Pcs
  <2>4. QED  BY <1>0, <1>6, <2>1, <2>3 DEF CommitDecision, EngineType, CheckpointType
<1>7. CASE FindReplaced(p)
  BY <1>0, <1>7 DEF FindReplaced, EngineType, ProcType, Pcs, UnsettledReplaced
<1>8. CASE EndSettling(p)
  <2>1. checkpoints' \in [Items -> CheckpointType]
    BY <1>0, <1>4, <1>8, MarkDoneType DEF EndSettling, EngineType, CheckpointType
  <2>2. PICK r \in ProcType : proc' = [proc EXCEPT ![p] = r]
    <3>1. /\ [Idle EXCEPT !.pc = "fills", !.tick = proc[p].tick, !.pending = proc[p].pending] \in ProcType
          /\ [proc[p] EXCEPT !.pc = "ack"] \in ProcType
      BY <1>0 DEF Idle, ProcType, Pcs
    <3>2. QED  BY <1>8, <3>1 DEF EndSettling, Goto
  <2>3. QED  BY <1>0, <1>8, <2>1, <2>2 DEF EndSettling, EngineType, CheckpointType
<1>9. ASSUME NEW id \in ThesisIds, SettleReplaced(p, id) PROVE EngineType'
  BY <1>0, <1>9 DEF SettleReplaced, EngineType, ProcType
<1>10. ASSUME NEW id \in ThesisIds, ExitPosition(p, id) PROVE EngineType'
  <2>1. CASE VisitCloses(p, id)
    <3>1. PICK at \in Nat, reason \in {"stop_or_target", "time_based"} :
            CloseAndSettle(p, id, at, reason) /\ (IsOpen(positions, id) => at \in Instants)
      BY <2>1 DEF VisitCloses
    <3>2. PICK stopped \in BOOLEAN, closing \in SUBSET [id : ThesisIds, at : Instants, reason : CloseReasons] :
            proc' = [proc EXCEPT ![p].todo = @ \ {id}, ![p].stopped = stopped, ![p].closing = closing]
      <4> DEFINE closing ==
            IF IsOpen(positions, id) THEN {[id |-> id, at |-> at, reason |-> reason]} ELSE {}
          stopped == proc[p].stopped \/ (IsOpen(positions, id) /\ id \in proc[p].existing)
      <4>1. closing \in SUBSET [id : ThesisIds, at : Instants, reason : CloseReasons]
        BY <3>1 DEF CloseReasons
      <4>2. stopped \in BOOLEAN
        OBVIOUS
      <4>3. proc' = [proc EXCEPT ![p].todo = @ \ {id}, ![p].stopped = stopped, ![p].closing = closing]
        BY <1>0, <3>1 DEF CloseAndSettle, ProcType, EngineType
      <4>4. QED  BY <4>1, <4>2, <4>3
    <3>3. [proc[p] EXCEPT !.todo = @ \ {id}, !.stopped = stopped, !.closing = closing] \in ProcType
      BY <1>0 DEF ProcType
    <3>4. \E rec \in ProcType : proc' = [proc EXCEPT ![p] = rec]
      BY <1>0, <3>2, <3>3 DEF EngineType
    <3>5. proc' \in [Processes -> ProcType]
      BY <1>0, <3>4 DEF EngineType
    <3>6. QED  BY <1>0, <1>10, <3>5 DEF ExitPosition, EngineType
  <2>2. CASE VisitMoves(p, id)
    BY <1>0, <1>10, <2>2 DEF VisitMoves, ExitPosition, EngineType, ProcType
  <2>3. QED  BY <1>10, <2>1, <2>2, Visit
<1>11. QED  BY <1>1, <1>2, <1>3, <1>6, <1>7, <1>8, <1>9, <1>10 DEF SharedStep

LEMMA ConsumerType ==
  ASSUME StoreInv, EngineInv, NEW w \in Consumers, ConsumerStep(w) \/ Fail(w)
  PROVE  EngineType'
<1>0. EngineType /\ proc[w] \in ProcType /\ w \in Processes
  BY DEF EngineInv, EngineType, Processes
<1>1. Idle \in ProcType
  BY DEF Idle, ProcType, Pcs
<1>2. proc[w].pc # "idle" => ItemOf(w) \in Items
  BY AtWork
<1>3. CASE SharedStep(w)
  BY <1>0, <1>3, SharedType
<1>4. CASE Agents(w)
  <2>1. checkpoints' \in [Items -> CheckpointType]
    BY <1>0, <1>2, <1>4 DEF Agents, MarkDone, EngineType, CheckpointType
  <2>2. PICK pc \in {"portfolio", "ack"} : Goto(w, pc)
    BY <1>4 DEF Agents
  <2>3. proc' \in [Processes -> ProcType]
    BY <1>0, <2>2 DEF Goto, EngineType, ProcType, Pcs, PreCommit
  <2>4. QED  BY <1>0, <1>4, <2>1, <2>3 DEF Agents, EngineType, CheckpointType
<1>5. CASE ReadBook(w)
  <2>1. PICK existing \in OpenPositionForTickerAsOf(TickerOf(IdOf(w)), proc[w].asOf) :
          proc' = [proc EXCEPT ![w].pc = "gates", ![w].existing = existing]
    BY <1>5 DEF ReadBook
  <2>2. existing \subseteq ThesisIds
    BY <2>1 DEF OpenPositionForTickerAsOf, OpenPositionsAsOf
  <2>3. proc' \in [Processes -> ProcType]
    BY <1>0, <2>1, <2>2 DEF EngineType, ProcType, Pcs, PreCommit
  <2>4. QED  BY <1>0, <1>5, <2>3 DEF ReadBook, EngineType
<1>6. CASE Gates(w)
  <2>1. checkpoints' \in [Items -> CheckpointType]
    BY <1>0, <1>2, <1>6, MarkDoneType DEF Gates, EngineType, CheckpointType
  <2>2. PICK pc \in {"ack", "exits", "commit"} : Goto(w, pc)
    BY <1>6 DEF Gates, AfterReading
  <2>3. proc' \in [Processes -> ProcType]
    BY <1>0, <2>2 DEF Goto, EngineType, ProcType, Pcs, PreCommit
  <2>4. QED  BY <1>0, <1>6, <2>1, <2>3 DEF Gates, EngineType, CheckpointType
<1>7. CASE Ack(w)
  BY <1>0, <1>1, <1>7 DEF Ack, EngineType
<1>8. ASSUME NEW i \in Items, Receive(w, i) PROVE EngineType'
  <2>1. ThesisOf[i] \in ThesisIds /\ DecidedAt(ThesisOf[i]) \in Instants
    BY ThesisOfFacts
  <2>2. ResumePc(i) \in Pcs
    BY <1>0 DEF ResumePc, EngineType, Pcs, PreCommit
  <2>3. [Idle EXCEPT !.pc = ResumePc(i), !.item = {i}, !.id = {ThesisOf[i]}, !.asOf = DecidedAt(ThesisOf[i])] \in ProcType
    BY <1>1, <2>1, <2>2 DEF ProcType
  <2>4. proc' \in [Processes -> ProcType]
    BY <1>0, <1>8, <2>3 DEF Receive, EngineType
  <2>5. inbox' \in [Items -> [state : {"queued", "held", "acked", "dead"}, tries : Nat]]
    BY <1>0, <1>8 DEF Receive, EngineType
  <2>6. QED  BY <1>0, <1>8, <2>4, <2>5 DEF Receive, EngineType
<1>9. CASE Fail(w)
  <2>1. proc' \in [Processes -> ProcType]
    BY <1>0, <1>1, <1>9 DEF Fail, EngineType
  <2>2. inbox' \in [Items -> [state : {"queued", "held", "acked", "dead"}, tries : Nat]]
    BY <1>0, <1>9 DEF Fail, EngineType
  <2>3. QED  BY <1>0, <1>9, <2>1, <2>2 DEF Fail, EngineType
<1>10. QED  BY <1>3, <1>4, <1>5, <1>6, <1>7, <1>8, <1>9 DEF ConsumerStep

LEMMA FillMoves ==
  ASSUME NEW d \in ThesisIds, NEW openedAt \in Instants, Fill(d, openedAt)
  PROVE  \E pc \in {"exits", "commit"}, existing \in SUBSET ThesisIds :
           proc' = [proc EXCEPT ![ExitCheck].pc = pc, ![ExitCheck].id = {d}, ![ExitCheck].asOf = openedAt,
                                ![ExitCheck].existing = existing, ![ExitCheck].pending = @ \ {d}]
<1>1. \A e \in OpenPositionForTickerAsOf(TickerOf(d), openedAt) : e \in SUBSET ThesisIds
  BY DEF OpenPositionForTickerAsOf, OpenPositionsAsOf
<1>2. \A e : AfterReading(e, d, decisions[d].thesis) \in {"exits", "commit"}
  BY DEF AfterReading
<1>3. QED  BY <1>1, <1>2 DEF Fill

LEMMA ExitCheckType ==
  ASSUME StoreInv, EngineInv, ExitCheckStep \/ ExitCheckFails \/ Tick
  PROVE  EngineType'
<1>0. EngineType /\ proc[ExitCheck] \in ProcType /\ ExitCheck \in Processes
  BY DEF EngineInv, EngineType, Processes
<1>1. Idle \in ProcType /\ BookExits \in ProcType
  BY <1>0 DEF Idle, BookExits, ProcType, Pcs, PreCommit
<1>2. CASE SharedStep(ExitCheck)
  BY <1>0, <1>2, SharedType
<1>3. CASE ExitCheckTick
  <2>1. PendingEntriesAsOf(now) \subseteq ThesisIds
    BY DEF PendingEntriesAsOf
  <2>2. [Idle EXCEPT !.pc = "fills", !.tick = now, !.pending = PendingEntriesAsOf(now)] \in ProcType
    BY <1>0, <1>1, <2>1 DEF ProcType, EngineType, Pcs
  <2>3. proc' \in [Processes -> ProcType]
    BY <1>0, <1>3, <2>2 DEF ExitCheckTick, EngineType
  <2>4. QED  BY <1>0, <1>3, <2>3 DEF ExitCheckTick, EngineType
<1>4. CASE EndFills \/ ExitCheckFails
  <2>1. proc' \in [Processes -> ProcType]
    BY <1>0, <1>1, <1>4 DEF EndFills, ExitCheckFails, EngineType
  <2>2. QED  BY <1>0, <1>4, <2>1 DEF EndFills, ExitCheckFails, EngineType
<1>5. ASSUME NEW d \in ThesisIds, NoFill(d) PROVE EngineType'
  BY <1>0, <1>5 DEF NoFill, EngineType, ProcType
<1>6. ASSUME NEW d \in ThesisIds, NEW openedAt \in Instants, Fill(d, openedAt) PROVE EngineType'
  <2>1. PICK pc \in {"exits", "commit"}, existing \in SUBSET ThesisIds :
          proc' = [proc EXCEPT ![ExitCheck].pc = pc, ![ExitCheck].id = {d}, ![ExitCheck].asOf = openedAt,
                               ![ExitCheck].existing = existing, ![ExitCheck].pending = @ \ {d}]
    BY <1>6, FillMoves
  <2> DEFINE e == proc[ExitCheck]
             r == [e EXCEPT !.pc = pc, !.id = {d}, !.asOf = openedAt, !.existing = existing,
                            !.pending = e.pending \ {d}]
  <2>2. r \in ProcType
    BY <1>0 DEF ProcType, Pcs, PreCommit
  <2>3. proc' = [proc EXCEPT ![ExitCheck] = r]
    BY <1>0, <2>1 DEF EngineType
  <2>4. proc' \in [Processes -> ProcType]
    BY <1>0, <2>2, <2>3 DEF EngineType
  <2>5. QED  BY <1>0, <1>6, <2>4 DEF Fill, EngineType
<1>7. CASE Tick
  <2>1. now + 1 \in Instants
    BY <1>7, Clock, InstantsAssumption DEF Tick, EngineInv, EngineType
  <2>2. QED  BY <1>0, <1>7, <2>1 DEF Tick, EngineType
<1>8. QED  BY <1>2, <1>3, <1>4, <1>5, <1>6, <1>7 DEF ExitCheckStep

-----------------------------------------------------------------------------
(* Decisions and checkpoints.                                               *)

\* The steps of the exits and of settlements leave the decisions, and open nothing.
WalkStep(p) ==
  \/ StartExits(p) \/ SettleExit(p) \/ EndExits(p) \/ FindReplaced(p) \/ EndSettling(p)
  \/ \E id \in ThesisIds : ExitPosition(p, id) \/ SettleReplaced(p, id)

LEMMA WalkKeepsDecisions ==
  ASSUME StoreInv, NEW p \in Processes, WalkStep(p)
  PROVE  /\ decisions' = decisions
         /\ \A q \in ThesisIds : HasRow(positions', q) => HasRow(positions, q)
<1>1. CASE StartExits(p) \/ EndExits(p) \/ FindReplaced(p) \/ EndSettling(p)
  BY <1>1 DEF StartExits, EndExits, FindReplaced, EndSettling, storeVars, HasRow
<1>2. CASE SettleExit(p) \/ \E id \in ThesisIds : SettleReplaced(p, id)
  BY <1>2 DEF SettleExit, SettleReplaced, SettleOutcome, RecordDecisionOutcome, storeVars, HasRow
<1>3. ASSUME NEW id \in ThesisIds, ExitPosition(p, id)
      PROVE  decisions' = decisions /\ \A q \in ThesisIds : HasRow(positions', q) => HasRow(positions, q)
  <2>1. \/ \E at, reason : ClosePosition(id, at, reason)
        \/ \E at : AdvancePositionCheck(id, at)
    BY <1>3 DEF ExitPosition, CloseAndSettle
  <2>2. ASSUME NEW at, NEW reason, ClosePosition(id, at, reason)
        PROVE  decisions' = decisions /\ \A q \in ThesisIds : HasRow(positions', q) => HasRow(positions, q)
    BY <2>2 DEF ClosePosition, StoreInv, TypeOK, HasRow
  <2>3. ASSUME NEW at, AdvancePositionCheck(id, at)
        PROVE  decisions' = decisions /\ \A q \in ThesisIds : HasRow(positions', q) => HasRow(positions, q)
    BY <2>3 DEF AdvancePositionCheck, StoreInv, TypeOK, HasRow
  <2>4. QED  BY <2>1, <2>2, <2>3
<1>4. QED  BY <1>1, <1>2, <1>3 DEF WalkStep

\* No consumer changes a decision that is pending.
LEMMA ConsumersLeavePending ==
  ASSUME StoreInv, EngineInv, NEW w \in Consumers, ConsumerStep(w) \/ Fail(w), NEW d \in ThesisIds, IsPending(d)
  PROVE  decisions'[d] = decisions[d]
<1>0. w \in Processes
  BY DEF Processes
<1>1. CASE WalkStep(w)
  BY <1>0, <1>1, WalkKeepsDecisions
<1>2. CASE CommitDecision(w)
  <2>1. PICK c \in Commitments(w) : proc[w].pc = "commit" /\ CommitThesis(c)
    BY <1>2 DEF CommitDecision
  <2>2. PICK i \in Items : Holds(w, i) /\ IdOf(w) = ThesisOf[i]
    BY <2>1, AtWork
  <2>3. c \in Commits /\ c.id = ThesisOf[i]
    BY <1>0, <2>1, <2>2, CommitIsAllowed
  <2>4. checkpoints[i].stage = "traded"
    BY <2>1, <2>2 DEF Holds, PreCommit
  <2>5. d # ThesisOf[i]
    BY <2>4 DEF EngineInv, CheckpointsOK, CheckpointOK
  <2>6. QED  BY <2>1, <2>3, <2>5, CommitEffect
<1>3. CASE Agents(w) \/ Gates(w)
  <2>1. \/ UNCHANGED decisions
        \/ \E id, thesis, status : InsertTradeDecision(id, thesis, status)
    BY <1>3 DEF Agents, Gates, storeVars
  <2>2. QED  BY <2>1 DEF InsertTradeDecision, IsPending, StoreInv, TypeOK
<1>4. CASE ReadBook(w) \/ Ack(w) \/ Fail(w) \/ \E i \in Items : Receive(w, i)
  BY <1>4 DEF ReadBook, Ack, Fail, Receive, storeVars
<1>5. QED  BY <1>1, <1>2, <1>3, <1>4 DEF ConsumerStep, SharedStep, WalkStep

\* An item's checkpoint stays true when its row and decision get no new claim.
LEMMA CheckpointKept ==
  ASSUME EngineInv, RowsKept, NEW i \in Items,
         IsPending(ThesisOf[i])' => IsPending(ThesisOf[i]),
         HasRow(positions', ThesisOf[i]) => HasRow(positions, ThesisOf[i]),
         checkpoints'[i] = checkpoints[i]
  PROVE  CheckpointOK(i)'
<1>1. CheckpointOK(i) /\ ThesisOf[i] \in ThesisIds
  BY ThesisOfFacts DEF EngineInv, CheckpointsOK
<1>2. HasRow(positions, ThesisOf[i]) =>
        /\ positions'[ThesisOf[i]].thesis = positions[ThesisOf[i]].thesis
        /\ positions'[ThesisOf[i]].openedAt = positions[ThesisOf[i]].openedAt
  BY <1>1 DEF RowsKept
<1>3. QED  BY <1>1, <1>2 DEF CheckpointOK

LEMMA DoneIsOK ==
  ASSUME EngineType, NEW i \in Items, MarkDone(i)
  PROVE  /\ CheckpointOK(i)'
         /\ \A j \in Items \ {i} : checkpoints'[j] = checkpoints[j]
<1>1. checkpoints'[i].stage = "done"
  BY DEF MarkDone, EngineType
<1>2. QED  BY <1>1 DEF CheckpointOK, MarkDone, EngineType

LEMMA CommitKeepsCheckpoints ==
  ASSUME StoreInv, EngineInv, RowsKept, NEW p \in Processes, CommitDecision(p), NEW i \in Items
  PROVE  CheckpointOK(i)'
<1>0. EngineType /\ CheckpointOK(i) /\ ThesisOf[i] \in ThesisIds
  BY ThesisOfFacts DEF EngineInv, CheckpointsOK
<1>1. PICK c \in Commitments(p) : proc[p].pc = "commit" /\ CommitThesis(c)
  BY DEF CommitDecision
<1>2. c \in Commits /\ MayCommit(c) /\ c.id = IdOf(p)
  BY <1>1, CommitIsAllowed
<1>3. CASE p = ExitCheck
  <2>1. checkpoints' = checkpoints
    BY <1>3 DEF CommitDecision, Folds
  <2>2. PICK d \in ThesisIds : Fills(d)
    BY <1>1, <1>3 DEF EngineInv, ExitCheckOK
  <2>3. c.id = d /\ IsPending(d)
    <3>1. proc[p].id = {d}
      BY <1>3, <2>2 DEF Fills
    <3>2. QED  BY <1>2, <2>2, <3>1, TheOne DEF IdOf, Fills
  <2>4. CASE ThesisOf[i] = d
    <3>1. checkpoints'[i].stage = "done"
      BY <1>0, <2>1, <2>3, <2>4 DEF CheckpointOK
    <3>2. QED  BY <3>1 DEF CheckpointOK
  <2>5. CASE ThesisOf[i] # d
    BY <1>0, <1>1, <1>2, <2>1, <2>3, <2>5, CommitEffect, CheckpointKept DEF IsPending
  <2>6. QED  BY <2>4, <2>5
<1>4. CASE p # ExitCheck
  <2>1. PICK j \in Items : /\ Holds(p, j) /\ ItemOf(p) = j /\ IdOf(p) = ThesisOf[j]
                           /\ ThesisFor(p) = checkpoints[j].thesis
    BY <1>1, <1>4, AtWork DEF Processes
  <2>2. MarkDone(j) \/ checkpoints' = checkpoints
    BY <2>1 DEF CommitDecision
  <2>3. CASE i # j
    <3>1. checkpoints'[i] = checkpoints[i]
      BY <1>0, <2>2, <2>3, DoneIsOK
    <3>2. ThesisOf[i] # c.id
      BY <1>2, <2>1, <2>3, ThesisOfFacts
    <3>3. QED  BY <1>0, <1>1, <1>2, <3>1, <3>2, CommitEffect, CheckpointKept DEF IsPending
  <2>4. CASE i = j /\ MarkDone(j)
    BY <1>0, <2>4, DoneIsOK
  <2>5. CASE i = j /\ checkpoints' = checkpoints
    <3>1. checkpoints[i].stage = "traded"
      BY <1>1, <2>1, <2>5 DEF Holds, PreCommit
    <3>2. ~IsPending(ThesisOf[i])'
      BY <1>1, <1>2, <2>1, <2>5, CommitEffect DEF IsPending
    <3>3. c.thesis = checkpoints[i].thesis /\ c.asOf = DecidedAt(ThesisOf[i])
      BY <2>1, <2>5 DEF Commitments, Commitment, Holds
    <3>4. HasRow(positions', ThesisOf[i]) =>
            /\ positions'[ThesisOf[i]].thesis = checkpoints[i].thesis
            /\ positions'[ThesisOf[i]].openedAt = DecidedAt(ThesisOf[i])
      <4>1. CASE HasRow(positions, ThesisOf[i])
        BY <1>0, <3>1, <4>1 DEF CheckpointOK, RowsKept
      <4>2. CASE ~HasRow(positions, ThesisOf[i]) /\ HasRow(positions', ThesisOf[i])
        <5>1. positions'[c.id] = NewRow(c)
          BY <1>1, <1>2, <2>1, <2>5, <4>2, CommitOwnRow DEF StoreInv
        <5>2. QED  BY <1>2, <2>1, <2>5, <3>3, <5>1 DEF NewRow
      <4>3. QED  BY <4>1, <4>2
    <3>5. QED  BY <1>0, <2>5, <3>1, <3>2, <3>4 DEF CheckpointOK
  <2>6. QED  BY <2>2, <2>3, <2>4, <2>5
<1>5. QED  BY <1>3, <1>4

LEMMA CheckpointsStep ==
  ASSUME StoreInv, EngineInv, RowsKept, [EngineNext]_vars
  PROVE  CheckpointsOK'
<1> SUFFICES ASSUME NEW i \in Items PROVE CheckpointOK(i)'
  BY DEF CheckpointsOK
<1>0. EngineType /\ CheckpointOK(i) /\ ThesisOf[i] \in ThesisIds
  BY ThesisOfFacts DEF EngineInv, CheckpointsOK
<1>1. ASSUME NEW p \in Processes, SharedStep(p) PROVE CheckpointOK(i)'
  <2>1. CASE CommitDecision(p)
    BY <2>1, CommitKeepsCheckpoints
  <2>2. CASE WalkStep(p)
    <3>1. decisions' = decisions /\ (HasRow(positions', ThesisOf[i]) => HasRow(positions, ThesisOf[i]))
      BY <1>0, <2>2, WalkKeepsDecisions
    <3>2. CASE checkpoints' = checkpoints
      BY <3>1, <3>2, CheckpointKept DEF IsPending
    <3>3. CASE EndSettling(p) /\ p # ExitCheck /\ MarkDone(ItemOf(p))
      <4>1. PICK j \in Items : ItemOf(p) = j
        BY <3>3, AtWork DEF EndSettling, Processes
      <4>2. MarkDone(j)
        BY <3>3, <4>1
      <4>3. CASE i = j
        BY <1>0, <4>2, <4>3, DoneIsOK
      <4>4. CASE i # j
        <5>1. checkpoints'[i] = checkpoints[i]
          BY <1>0, <4>2, <4>4, DoneIsOK
        <5>2. QED  BY <3>1, <5>1, CheckpointKept DEF IsPending
      <4>5. QED  BY <4>3, <4>4
    <3>4. QED
      BY <2>2, <3>2, <3>3 DEF WalkStep, StartExits, SettleExit, EndExits, FindReplaced, EndSettling,
                              ExitPosition, SettleReplaced
  <2>3. QED  BY <1>1, <2>1, <2>2 DEF SharedStep, WalkStep
<1>2. ASSUME NEW w \in Consumers, Agents(w) \/ Gates(w) PROVE CheckpointOK(i)'
  <2>1. PICK j \in Items : Holds(w, j) /\ ItemOf(w) = j /\ IdOf(w) = ThesisOf[j]
    BY <1>2, AtWork DEF Agents, Gates
  <2>2. positions' = positions
    BY <1>2 DEF Agents, Gates, InsertTradeDecision, storeVars
  <2>3. \A q \in ThesisIds \ {ThesisOf[j]} : decisions'[q] = decisions[q]
    BY <1>2, <2>1 DEF Agents, Gates, InsertTradeDecision, storeVars, StoreInv, TypeOK
  <2>4. CASE MarkDone(j)
    <3>1. CASE i = j
      BY <1>0, <2>4, <3>1, DoneIsOK
    <3>2. CASE i # j
      <4>1. checkpoints'[i] = checkpoints[i] /\ ThesisOf[i] # ThesisOf[j]
        BY <1>0, <2>4, <3>2, DoneIsOK, ThesisOfFacts
      <4>2. QED  BY <1>0, <2>2, <2>3, <4>1, CheckpointKept DEF IsPending, HasRow
    <3>3. QED  BY <3>1, <3>2
  <2>5. CASE \E thesis \in Theses : /\ checkpoints' = [checkpoints EXCEPT ![j] = [stage |-> "traded", thesis |-> thesis]]
                                    /\ proc[w].pc = "agents" /\ UNCHANGED storeVars
    <3>1. CASE i = j
      <4>1. checkpoints[i].stage = "none"
        BY <2>1, <2>5, <3>1 DEF Holds
      <4>2. ~HasRow(positions, ThesisOf[i]) /\ ~IsPending(ThesisOf[i])
        BY <1>0, <4>1 DEF CheckpointOK
      <4>3. ~HasRow(positions', ThesisOf[i]) /\ ~IsPending(ThesisOf[i])'
        BY <2>5, <4>2 DEF storeVars, HasRow, IsPending
      <4>4. checkpoints'[i].stage = "traded" /\ checkpoints'[i].thesis \in Theses
        BY <1>0, <2>5, <3>1 DEF EngineType
      <4>5. QED  BY <4>3, <4>4 DEF CheckpointOK
    <3>2. CASE i # j
      <4>1. checkpoints'[i] = checkpoints[i]
        BY <1>0, <2>5, <3>2 DEF EngineType
      <4>2. QED  BY <2>5, <4>1, CheckpointKept DEF storeVars, IsPending, HasRow
    <3>3. QED  BY <3>1, <3>2
  <2>6. CASE UNCHANGED <<storeVars, checkpoints>>
    BY <2>6, CheckpointKept DEF storeVars, IsPending, HasRow
  <2>7. QED  BY <1>2, <2>1, <2>4, <2>5, <2>6 DEF Agents, Gates
<1>3. ASSUME NEW d \in ThesisIds, NoFill(d) PROVE CheckpointOK(i)'
  <2>1. positions' = positions /\ checkpoints' = checkpoints
    BY <1>3 DEF NoFill, ExpirePendingEntry, storeVars
  <2>2. IsPending(ThesisOf[i])' => IsPending(ThesisOf[i])
    BY <1>0, <1>3 DEF NoFill, ExpirePendingEntry, storeVars, IsPending, StoreInv, TypeOK
  <2>3. QED  BY <2>1, <2>2, CheckpointKept DEF HasRow
<1>4. CASE UNCHANGED <<storeVars, checkpoints>>
  BY <1>4, CheckpointKept DEF storeVars, IsPending, HasRow
<1>5. ASSUME NEW w \in Consumers, ConsumerStep(w) \/ Fail(w) PROVE CheckpointOK(i)'
  <2>1. CASE ReadBook(w) \/ Ack(w) \/ Fail(w) \/ \E j \in Items : Receive(w, j)
    BY <1>4, <2>1 DEF ReadBook, Ack, Fail, Receive
  <2>2. QED  BY <1>1, <1>2, <1>5, <2>1 DEF ConsumerStep, Processes
<1>6. CASE ExitCheckStep \/ ExitCheckFails \/ Tick \/ UNCHANGED vars
  <2>1. CASE ExitCheckTick \/ EndFills \/ ExitCheckFails \/ Tick \/ UNCHANGED vars
             \/ \E d \in ThesisIds, openedAt \in Instants : Fill(d, openedAt)
    BY <1>4, <2>1 DEF ExitCheckTick, EndFills, ExitCheckFails, Tick, Fill, vars, engineVars
  <2>2. QED  BY <1>1, <1>3, <1>6, <2>1 DEF ExitCheckStep, Processes
<1>7. QED  BY <1>5, <1>6 DEF EngineNext

-----------------------------------------------------------------------------
(* The consumers.                                                           *)

\* What a consumer's step may do to what others hold: nothing.
LEMMA OtherHolds ==
  ASSUME EngineInv, NEW v \in Consumers, NEW i \in Items,
         proc'[v] = proc[v], Holds(v, i), inbox'[i].state = "held", checkpoints'[i].stage = checkpoints[i].stage
  PROVE  ConsumerOK(v)'
  BY DEF ConsumerOK, Holds

LEMMA OthersKeptByConsumer ==
  ASSUME StoreInv, EngineInv, NEW w \in Consumers, ConsumerStep(w) \/ Fail(w),
         NEW v \in Consumers \ {w}
  PROVE  ConsumerOK(v)' /\ proc'[v] = proc[v]
<1>0. EngineType /\ v \in Processes /\ w \in Processes /\ w # ExitCheck
  BY ConsumersAssumption DEF EngineInv, Processes
<1>1. proc'[v] = proc[v]
  BY <1>0 DEF ConsumerStep, SharedStep, Fail, StartExits, SettleExit, EndExits, CommitDecision, FindReplaced,
              EndSettling, ExitPosition, CloseAndSettle, SettleReplaced, Agents, ReadBook, Gates, Ack, Receive, Goto, EngineType
<1>2. CASE proc[v].pc = "idle"
  BY <1>1, <1>2 DEF EngineInv, ConsumerOK
<1>3. CASE proc[v].pc # "idle"
  <2>1. PICK i \in Items : Holds(v, i) /\ \A u \in Consumers \ {v} : proc[u].item # {i}
    BY <1>3, AtWork
  <2>2. inbox[i].state = "held" /\ proc[w].item # {i}
    BY <2>1 DEF Holds
  <2>3. CASE \E j \in Items : Receive(w, j)
    <3>1. PICK j \in Items : Receive(w, j)
      BY <2>3
    <3>2. j # i
      BY <2>2, <3>1 DEF Receive
    <3>3. inbox'[i] = inbox[i] /\ checkpoints' = checkpoints
      BY <1>0, <3>1, <3>2 DEF Receive, EngineType
    <3>4. QED  BY <1>1, <2>1, <2>2, <3>3, OtherHolds
  <2>4. CASE ~\E j \in Items : Receive(w, j)
    <3>1. proc[w].pc # "idle"
      BY <2>4 DEF ConsumerStep, SharedStep, Fail, StartExits, SettleExit, EndExits, CommitDecision, FindReplaced,
                  EndSettling, ExitPosition, SettleReplaced, Agents, ReadBook, Gates, Ack
    <3>2. PICK j \in Items : ItemOf(w) = j /\ Holds(w, j)
      BY <3>1, AtWork
    <3>3. j # i
      BY <2>2, <3>2 DEF Holds
    <3>4. inbox' = inbox \/ \E state : inbox' = [inbox EXCEPT ![j].state = state]
      BY <2>4, <3>2 DEF ConsumerStep, SharedStep, Fail, StartExits, SettleExit, EndExits, CommitDecision, FindReplaced,
                  EndSettling, ExitPosition, SettleReplaced, Agents, ReadBook, Gates, Ack
    <3>5. inbox'[i] = inbox[i]
      BY <1>0, <3>3, <3>4 DEF EngineType
    <3>6. \/ checkpoints' = checkpoints
          \/ \E thesis : checkpoints' = [checkpoints EXCEPT ![j] = [stage |-> "traded", thesis |-> thesis]]
          \/ MarkDone(j)
      BY <2>4, <3>2 DEF ConsumerStep, SharedStep, Fail, StartExits, SettleExit, EndExits, CommitDecision, FindReplaced,
                  EndSettling, ExitPosition, SettleReplaced, Agents, ReadBook, Gates, Ack
    <3>7. checkpoints'[i] = checkpoints[i]
      BY <1>0, <3>3, <3>6 DEF MarkDone, EngineType
    <3>8. QED  BY <1>1, <2>1, <2>2, <3>5, <3>7, OtherHolds
  <2>5. QED  BY <2>3, <2>4
<1>4. QED  BY <1>1, <1>2, <1>3

SameWork(p) ==
  /\ proc'[p].item = proc[p].item /\ proc'[p].id = proc[p].id
  /\ proc'[p].asOf = proc[p].asOf /\ proc'[p].pc = proc[p].pc
  /\ proc'[p].tick = proc[p].tick /\ proc'[p].pending = proc[p].pending

LEMMA ExitKeepsWork ==
  ASSUME StoreInv, EngineInv, NEW p \in Processes, NEW id \in ThesisIds, ExitPosition(p, id)
  PROVE  SameWork(p) /\ proc[p].pc = "exiting"
<1>0. EngineType /\ proc[p] \in ProcType
  BY DEF EngineInv, EngineType
<1>1. ASSUME VisitMoves(p, id) PROVE SameWork(p)
  <2>1. proc' = [proc EXCEPT ![p].todo = @ \ {id}]
    BY <1>1 DEF VisitMoves
  <2>2. QED  BY <1>0, <2>1 DEF EngineType, ProcType, SameWork
<1>2. ASSUME NEW at, NEW reason, CloseAndSettle(p, id, at, reason) PROVE SameWork(p)
  BY <1>0, <1>2 DEF SameWork, CloseAndSettle, EngineType, ProcType
<1>3. VisitCloses(p, id) \/ VisitMoves(p, id)
  BY Visit
<1>4. VisitCloses(p, id) => \E at, reason : CloseAndSettle(p, id, at, reason)
  BY DEF VisitCloses
<1>5. QED  BY <1>1, <1>2, <1>3, <1>4 DEF ExitPosition

LEMMA OwnStep ==
  ASSUME StoreInv, EngineInv, NEW w \in Consumers, ConsumerStep(w) \/ Fail(w)
  PROVE  /\ ConsumerOK(w)'
         /\ \/ proc'[w].item \subseteq proc[w].item
            \/ \E i \in Items : proc[w].pc = "idle" /\ proc'[w].item = {i} /\ inbox[i].state = "queued"
<1>0. /\ EngineType /\ EngineType' /\ w \in Processes /\ w # ExitCheck /\ proc[w] \in ProcType /\ proc'[w] \in ProcType
      /\ "ack" \notin PreCommit /\ "agents" \notin PreCommit
  BY ConsumerType, ConsumersAssumption DEF EngineInv, EngineType, Processes, PreCommit
<1>1. CASE Ack(w) \/ Fail(w)
  <2>1. proc'[w] = Idle
    BY <1>0, <1>1 DEF Ack, Fail, EngineType
  <2>2. QED  BY <2>1 DEF ConsumerOK, Idle
<1>2. ASSUME NEW i \in Items, Receive(w, i)
      PROVE  /\ ConsumerOK(w)'
             /\ proc'[w].item \subseteq proc[w].item
                  \/ (proc[w].pc = "idle" /\ proc'[w].item = {i} /\ inbox[i].state = "queued")
  <2>1. CASE proc' = proc
    BY <1>2, <2>1 DEF EngineInv, Receive, ConsumerOK
  <2>2. CASE proc' # proc
    <3>1. /\ proc'[w] = [Idle EXCEPT !.pc = ResumePc(i), !.item = {i}, !.id = {ThesisOf[i]}, !.asOf = DecidedAt(ThesisOf[i])]
          /\ inbox'[i].state = "held" /\ checkpoints' = checkpoints /\ inbox[i].state = "queued"
          /\ proc[w].pc = "idle"
      BY <1>0, <1>2, <2>2 DEF Receive, EngineType
    <3>2. /\ ResumePc(i) = "agents" => checkpoints[i].stage = "none"
          /\ ResumePc(i) \in PreCommit => checkpoints[i].stage = "traded"
      BY <1>0 DEF ResumePc, PreCommit, EngineType
    <3>3. Holds(w, i)'
      <4>1. ResumePc(i) # "idle"
        BY <1>0 DEF ResumePc, EngineType
      <4>2. QED  BY <3>1, <3>2, <4>1 DEF Holds, Idle
    <3>4. ConsumerOK(w)'
      BY <3>3 DEF ConsumerOK, Holds
    <3>5. QED  BY <3>1, <3>4 DEF Idle
  <2>3. QED  BY <2>1, <2>2
<1>3. CASE ~(Ack(w) \/ Fail(w) \/ \E i \in Items : Receive(w, i))
  <2>1. proc[w].pc # "idle"
    BY <1>3 DEF ConsumerStep, SharedStep, StartExits, SettleExit, EndExits, CommitDecision, FindReplaced,
                EndSettling, ExitPosition, SettleReplaced, Agents, ReadBook, Gates
  <2>2. PICK i \in Items : Holds(w, i) /\ ItemOf(w) = i
    BY <2>1, AtWork
  <2>3. /\ proc[w].item = {i} /\ proc[w].id = {ThesisOf[i]} /\ proc[w].asOf = DecidedAt(ThesisOf[i])
        /\ inbox[i].state = "held"
        /\ proc[w].pc \in PreCommit => checkpoints[i].stage = "traded"
    BY <2>2 DEF Holds
  <2>4. inbox' = inbox
    BY <1>3 DEF ConsumerStep, SharedStep, StartExits, SettleExit, EndExits, CommitDecision, FindReplaced,
                EndSettling, ExitPosition, SettleReplaced, Agents, ReadBook, Gates
  <2> DEFINE GoesOn ==
               /\ proc'[w].item = proc[w].item /\ proc'[w].id = proc[w].id /\ proc'[w].asOf = proc[w].asOf
               /\ proc'[w].pc \notin {"idle", "agents"}
               /\ proc'[w].pc \in PreCommit => checkpoints'[i].stage = "traded"
  <2>5. GoesOn
    <3>1. CASE StartExits(w)
      BY <1>0, <2>3, <3>1 DEF StartExits, EngineType, ProcType, PreCommit
    <3>2. CASE SettleExit(w)
      BY <1>0, <2>3, <3>2 DEF SettleExit, EngineType, ProcType, PreCommit
    <3>3. CASE EndExits(w)
      <4>1. proc' = [proc EXCEPT ![w].pc = "commit"] /\ checkpoints' = checkpoints /\ proc[w].pc = "exiting"
        BY <2>3, <3>3 DEF EndExits, Goto
      <4>2. QED  BY <1>0, <2>3, <4>1 DEF EngineType, ProcType, PreCommit
    <3>4. CASE CommitDecision(w)
      <4>1. "committed" \notin PreCommit
        BY DEF PreCommit
      <4>2. QED  BY <1>0, <3>4, <4>1 DEF CommitDecision, EngineType, ProcType
    <3>5. CASE FindReplaced(w)
      <4>1. "settling" \notin PreCommit
        BY DEF PreCommit
      <4>2. QED  BY <1>0, <3>5, <4>1 DEF FindReplaced, EngineType, ProcType
    <3>6. CASE EndSettling(w)
      BY <1>0, <3>6 DEF EndSettling, Goto, EngineType, ProcType
    <3>7. ASSUME NEW id \in ThesisIds, ExitPosition(w, id) PROVE GoesOn
      <4>1. SameWork(w) /\ proc[w].pc = "exiting" /\ checkpoints' = checkpoints
        BY <1>0, <3>7, ExitKeepsWork DEF ExitPosition
      <4>2. QED  BY <2>3, <4>1 DEF SameWork, PreCommit
    <3>8. ASSUME NEW id \in ThesisIds, SettleReplaced(w, id) PROVE GoesOn
      BY <1>0, <3>8 DEF SettleReplaced, EngineType, ProcType, PreCommit
    <3>9. CASE Agents(w)
      BY <1>0, <2>2, <3>9 DEF Agents, Goto, EngineType, ProcType, PreCommit
    <3>10. CASE ReadBook(w)
      BY <1>0, <2>3, <3>10 DEF ReadBook, EngineType, ProcType, PreCommit
    <3>11. CASE Gates(w)
      <4>1. CASE Goto(w, "ack")
        BY <1>0, <4>1 DEF Goto, EngineType, ProcType
      <4>2. CASE checkpoints' = checkpoints /\ \E pc \in {"exits", "commit"} : Goto(w, pc)
        BY <1>0, <2>3, <3>11, <4>2 DEF Gates, Goto, EngineType, ProcType, PreCommit
      <4>3. QED  BY <3>11, <4>1, <4>2 DEF Gates, AfterReading
    <3>12. QED
      BY <1>3, <3>1, <3>2, <3>3, <3>4, <3>5, <3>6, <3>7, <3>8, <3>9, <3>10, <3>11 DEF ConsumerStep, SharedStep
  <2>6. QED  BY <2>3, <2>4, <2>5 DEF ConsumerOK, Holds
<1>4. QED  BY <1>1, <1>2, <1>3

\* The exit check and the clock leave the consumers alone.
LEMMA ConsumersUndisturbed ==
  ASSUME EngineInv, ExitCheckStep \/ ExitCheckFails \/ Tick \/ UNCHANGED vars
  PROVE  /\ inbox' = inbox /\ checkpoints' = checkpoints
         /\ \A w \in Consumers : proc'[w] = proc[w]
<1>0. EngineType
  BY DEF EngineInv
<1>1. inbox' = inbox /\ checkpoints' = checkpoints
  BY DEF ExitCheckStep, ExitCheckFails, Tick, vars, engineVars, SharedStep, StartExits, SettleExit, EndExits,
         CommitDecision, Folds, FindReplaced, EndSettling, ExitPosition, SettleReplaced, ExitCheckTick, EndFills, NoFill, Fill
<1>2. ASSUME NEW w \in Consumers PROVE proc'[w] = proc[w]
  <2>1. w # ExitCheck
    BY ConsumersAssumption
  <2>2. CASE SharedStep(ExitCheck)
    BY <1>0, <2>1, <2>2 DEF SharedStep, StartExits, SettleExit, EndExits, Goto, CommitDecision, FindReplaced,
         EndSettling, ExitPosition, CloseAndSettle, SettleReplaced, EngineType, Processes
  <2>3. CASE ExitCheckTick \/ EndFills \/ ExitCheckFails \/ Tick \/ UNCHANGED vars
    BY <1>0, <2>1, <2>3 DEF ExitCheckTick, EndFills, ExitCheckFails, Tick, vars, engineVars, EngineType, Processes
  <2>4. ASSUME NEW d \in ThesisIds, NoFill(d) PROVE proc'[w] = proc[w]
    BY <1>0, <2>1, <2>4 DEF NoFill, EngineType, Processes
  <2>5. ASSUME NEW d \in ThesisIds, NEW openedAt \in Instants, Fill(d, openedAt) PROVE proc'[w] = proc[w]
    <3>1. \E pc, existing : proc' = [proc EXCEPT ![ExitCheck].pc = pc, ![ExitCheck].id = {d},
            ![ExitCheck].asOf = openedAt, ![ExitCheck].existing = existing, ![ExitCheck].pending = @ \ {d}]
      BY <2>5 DEF Fill
    <3>2. QED  BY <1>0, <2>1, <3>1 DEF EngineType, Processes
  <2>6. QED  BY <2>2, <2>3, <2>4, <2>5 DEF ExitCheckStep
<1>3. QED  BY <1>1, <1>2

LEMMA ConsumersStep ==
  ASSUME StoreInv, EngineInv, [EngineNext]_vars
  PROVE  Apart' /\ \A w \in Consumers : ConsumerOK(w)'
<1>1. CASE ExitCheckStep \/ ExitCheckFails \/ Tick \/ UNCHANGED vars
  <2>1. Apart'
    BY <1>1, ConsumersUndisturbed DEF EngineInv, Apart
  <2>2. ASSUME NEW w \in Consumers PROVE ConsumerOK(w)'
    BY <1>1, ConsumersUndisturbed DEF EngineInv, ConsumerOK, Holds
  <2>3. QED  BY <2>1, <2>2
<1>2. ASSUME NEW w \in Consumers, ConsumerStep(w) \/ Fail(w)
      PROVE  Apart' /\ \A v \in Consumers : ConsumerOK(v)'
  <2>1. ConsumerOK(w)' /\ \A v \in Consumers \ {w} : ConsumerOK(v)' /\ proc'[v] = proc[v]
    BY <1>2, OwnStep, OthersKeptByConsumer
  <2>2. ASSUME NEW v \in Consumers \ {w} PROVE proc'[w].item \cap proc'[v].item = {}
    <3>1. CASE proc'[w].item \subseteq proc[w].item
      BY <2>1, <3>1 DEF EngineInv, Apart
    <3>2. CASE \E i \in Items : proc'[w].item = {i} /\ inbox[i].state = "queued"
      <4>1. ConsumerOK(v)
        BY DEF EngineInv
      <4>2. proc[v].item = {} \/ \E j \in Items : proc[v].item = {j} /\ inbox[j].state = "held"
        BY <4>1 DEF ConsumerOK, Holds
      <4>3. QED  BY <2>1, <3>2, <4>2
    <3>3. QED  BY <1>2, <3>1, <3>2, OwnStep
  <2>3. Apart'
    <3> SUFFICES ASSUME NEW u \in Consumers, NEW v \in Consumers, u # v
                 PROVE  proc'[u].item \cap proc'[v].item = {}
      BY DEF Apart
    <3>1. CASE u # w /\ v # w
      BY <2>1, <3>1 DEF EngineInv, Apart
    <3>2. QED  BY <2>2, <3>1
  <2>4. QED  BY <2>1, <2>3
<1>3. QED  BY <1>1, <1>2 DEF EngineNext

-----------------------------------------------------------------------------
(* The exit check.                                                          *)

LEMMA ExitCheckUndisturbed ==
  ASSUME StoreInv, EngineInv, NEW w \in Consumers, ConsumerStep(w) \/ Fail(w)
  PROVE  ExitCheckOK'
<1>0. EngineType /\ w # ExitCheck /\ proc[ExitCheck] \in ProcType
  BY ConsumersAssumption DEF EngineInv, EngineType, Processes
<1>1. proc'[ExitCheck] = proc[ExitCheck]
  BY <1>0 DEF ConsumerStep, SharedStep, Fail, StartExits, SettleExit, EndExits, CommitDecision, FindReplaced,
              EndSettling, ExitPosition, CloseAndSettle, SettleReplaced, Agents, ReadBook, Gates, Ack, Receive, Goto,
              EngineType, Processes
<1>2. \A d \in ThesisIds : IsPending(d) => IsPending(d)'
  BY ConsumersLeavePending DEF IsPending
<1>3. proc[ExitCheck].pending \subseteq ThesisIds
  BY <1>0 DEF ProcType
<1>4. \A d \in ThesisIds : Fills(d) => Fills(d)'
  BY <1>1, <1>2 DEF Fills
<1>5. QED  BY <1>1, <1>2, <1>3, <1>4 DEF EngineInv, ExitCheckOK

\* While decisions stay, so do the promises about the pending ones.
LEMMA ExitCheckStays ==
  ASSUME EngineInv, decisions' = decisions,
         LET e == proc[ExitCheck]  f == proc'[ExitCheck] IN
           /\ f.tick = e.tick /\ f.pending = e.pending /\ f.id = e.id /\ f.asOf = e.asOf
           /\ e.pc # "idle"
           /\ f.pc \in {"exits", "exiting"} => e.pc \in {"exits", "exiting"}
           /\ f.pc = "commit" => e.pc = "exiting" /\ e.id # {}
           /\ f.pc \in {"committed", "settling"} => e.pc \in {"committed", "settling"}
  PROVE  ExitCheckOK'
<1>1. \A d : Fills(d)' <=> Fills(d)
  BY DEF Fills, IsPending
<1>2. \A d : IsPending(d)' <=> IsPending(d)
  BY DEF IsPending
<1>3. QED  BY <1>1, <1>2 DEF EngineInv, ExitCheckOK

LEMMA ExitCheckShared ==
  ASSUME StoreInv, EngineInv, SharedStep(ExitCheck)
  PROVE  ExitCheckOK'
<1>0. EngineType /\ ExitCheck \in Processes /\ proc[ExitCheck] \in ProcType
  BY DEF EngineInv, EngineType, Processes
<1>1. WalkStep(ExitCheck) => decisions' = decisions
  BY <1>0, WalkKeepsDecisions
<1>2. CASE StartExits(ExitCheck)
  BY <1>0, <1>1, <1>2, ExitCheckStays DEF StartExits, WalkStep, EngineType, ProcType
<1>3. CASE SettleExit(ExitCheck)
  BY <1>0, <1>1, <1>3, ExitCheckStays DEF SettleExit, WalkStep, EngineType, ProcType
<1>4. CASE EndExits(ExitCheck)
  <2>1. CASE proc[ExitCheck].id = {}
    <3>1. proc'[ExitCheck] = Idle
      BY <1>0, <1>4, <2>1 DEF EndExits, EngineType
    <3>2. QED  BY <3>1 DEF ExitCheckOK, Idle
  <2>2. CASE proc[ExitCheck].id # {}
    <3>1. proc' = [proc EXCEPT ![ExitCheck].pc = "commit"] /\ proc[ExitCheck].pc = "exiting"
      BY <1>4, <2>2 DEF EndExits, Goto
    <3>2. decisions' = decisions
      BY <1>1, <1>4 DEF WalkStep
    <3>3. QED  BY <1>0, <2>2, <3>1, <3>2, ExitCheckStays DEF EngineType, ProcType
  <2>3. QED  BY <2>1, <2>2
<1>5. CASE CommitDecision(ExitCheck)
  <2>1. PICK c \in Commitments(ExitCheck) : proc[ExitCheck].pc = "commit" /\ CommitThesis(c)
    BY <1>5 DEF CommitDecision
  <2>2. c \in Commits /\ c.id = IdOf(ExitCheck)
    BY <1>0, <2>1, CommitIsAllowed
  <2>3. PICK d \in ThesisIds \ proc[ExitCheck].pending : Fills(d)
    BY <2>1 DEF EngineInv, ExitCheckOK
  <2>4. c.id = d
    <3>1. proc[ExitCheck].id = {d}
      BY <2>3 DEF Fills
    <3>2. QED  BY <2>2, <3>1, TheOne DEF IdOf
  <2>5. \A q \in ThesisIds \ {d} : decisions'[q] = decisions[q]
    BY <2>1, <2>2, <2>4, CommitEffect
  <2>6. LET f == proc'[ExitCheck] IN
          /\ f.pc = "committed" /\ f.tick = proc[ExitCheck].tick /\ f.asOf = proc[ExitCheck].asOf
          /\ f.pending = proc[ExitCheck].pending
    BY <1>0, <1>5 DEF CommitDecision, EngineType, ProcType
  <2>7. \A q \in proc[ExitCheck].pending : IsPending(q)'
    BY <1>0, <2>3, <2>5 DEF EngineInv, ExitCheckOK, IsPending, ProcType
  <2>8. QED  BY <2>1, <2>6, <2>7 DEF EngineInv, ExitCheckOK
<1>6. CASE FindReplaced(ExitCheck)
  BY <1>0, <1>1, <1>6, ExitCheckStays DEF FindReplaced, WalkStep, EngineType, ProcType
<1>7. CASE EndSettling(ExitCheck)
  <2>1. /\ proc'[ExitCheck] = [Idle EXCEPT !.pc = "fills", !.tick = proc[ExitCheck].tick, !.pending = proc[ExitCheck].pending]
        /\ proc[ExitCheck].pc = "settling"
    BY <1>0, <1>7 DEF EndSettling, EngineType
  <2>2. decisions' = decisions
    BY <1>1, <1>7 DEF WalkStep
  <2>3. QED  BY <2>1, <2>2 DEF EngineInv, ExitCheckOK, Idle, IsPending
<1>8. ASSUME NEW id \in ThesisIds, SettleReplaced(ExitCheck, id) PROVE ExitCheckOK'
  BY <1>0, <1>1, <1>8, ExitCheckStays DEF SettleReplaced, WalkStep, EngineType, ProcType
<1>9. ASSUME NEW id \in ThesisIds, ExitPosition(ExitCheck, id) PROVE ExitCheckOK'
  <2>1. SameWork(ExitCheck) /\ proc[ExitCheck].pc = "exiting"
    BY <1>0, <1>9, ExitKeepsWork
  <2>2. decisions' = decisions
    BY <1>1, <1>9 DEF WalkStep
  <2>3. QED  BY <2>1, <2>2, ExitCheckStays DEF SameWork
<1>10. QED  BY <1>2, <1>3, <1>4, <1>5, <1>6, <1>7, <1>8, <1>9 DEF SharedStep

LEMMA ExitCheckOwn ==
  ASSUME StoreInv, EngineInv, ExitCheckStep \/ ExitCheckFails \/ Tick \/ UNCHANGED vars
  PROVE  ExitCheckOK'
<1>0. EngineType /\ ExitCheck \in Processes /\ proc[ExitCheck] \in ProcType
  BY DEF EngineInv, EngineType, Processes
<1>1. CASE SharedStep(ExitCheck)
  BY <1>1, ExitCheckShared
<1>2. CASE ExitCheckTick
  <2>1. proc'[ExitCheck] = [Idle EXCEPT !.pc = "fills", !.tick = now, !.pending = PendingEntriesAsOf(now)]
    BY <1>0, <1>2 DEF ExitCheckTick, EngineType
  <2>2. decisions' = decisions
    BY <1>2 DEF ExitCheckTick, storeVars
  <2>3. QED  BY <1>0, <2>1, <2>2 DEF ExitCheckOK, Idle, PendingEntriesAsOf, IsPending, EngineType
<1>3. CASE EndFills \/ ExitCheckFails
  <2>1. proc[ExitCheck].pc # "idle" /\ (proc'[ExitCheck] = BookExits \/ proc'[ExitCheck] = Idle)
    BY <1>0, <1>3 DEF EndFills, ExitCheckFails, EngineType
  <2>2. proc[ExitCheck].tick \in Instants
    BY <2>1 DEF EngineInv, ExitCheckOK
  <2>3. LET f == proc'[ExitCheck] IN
          /\ f.pending = {} /\ f.id = {}
          /\ f.pc = "idle" \/ (f.pc = "exits" /\ f.tick \in Instants /\ f.asOf \in Instants)
    <3>1. CASE proc'[ExitCheck] = BookExits
      BY <2>2, <3>1 DEF BookExits, Idle
    <3>2. CASE proc'[ExitCheck] = Idle
      BY <3>2 DEF Idle
    <3>3. QED  BY <2>1, <3>1, <3>2
  <2>4. QED  BY <2>3 DEF ExitCheckOK
<1>4. ASSUME NEW d \in ThesisIds, NoFill(d) PROVE ExitCheckOK'
  <2>1. LET f == proc'[ExitCheck] IN f.pc = "fills" /\ f.tick = proc[ExitCheck].tick /\ f.pending = proc[ExitCheck].pending \ {d}
    BY <1>0, <1>4 DEF NoFill, NextPending, EngineType, ProcType
  <2>2. \A q \in ThesisIds \ {d} : decisions'[q] = decisions[q]
    BY <1>4 DEF NoFill, ExpirePendingEntry, storeVars, StoreInv, TypeOK
  <2>3. proc[ExitCheck].pc = "fills" /\ proc[ExitCheck].pending \subseteq ThesisIds
    BY <1>0, <1>4 DEF NoFill, NextPending, ProcType
  <2>4. QED  BY <2>1, <2>2, <2>3 DEF EngineInv, ExitCheckOK, IsPending
<1>5. ASSUME NEW d \in ThesisIds, NEW openedAt \in Instants, Fill(d, openedAt) PROVE ExitCheckOK'
  <2>1. PICK pc \in {"exits", "commit"}, existing \in SUBSET ThesisIds :
          proc' = [proc EXCEPT ![ExitCheck].pc = pc, ![ExitCheck].id = {d}, ![ExitCheck].asOf = openedAt,
                               ![ExitCheck].existing = existing, ![ExitCheck].pending = @ \ {d}]
    BY <1>5, FillMoves
  <2>2. LET f == proc'[ExitCheck] IN
          /\ f.pc = pc /\ f.id = {d} /\ f.asOf = openedAt /\ f.tick = proc[ExitCheck].tick
          /\ f.pending = proc[ExitCheck].pending \ {d}
    BY <1>0, <2>1 DEF EngineType, ProcType
  <2>3. /\ proc[ExitCheck].pc = "fills" /\ d \in proc[ExitCheck].pending /\ DecidedAt(d) <= openedAt
        /\ decisions' = decisions
    BY <1>5 DEF Fill, NextPending, FillInstants, storeVars
  <2>4. Fills(d)'
    BY <2>2, <2>3 DEF EngineInv, ExitCheckOK, Fills, IsPending
  <2>5. QED  BY <2>2, <2>3, <2>4 DEF EngineInv, ExitCheckOK, IsPending
<1>6. CASE Tick \/ UNCHANGED vars
  BY <1>6 DEF Tick, vars, engineVars, storeVars, EngineInv, ExitCheckOK, Fills, IsPending
<1>7. QED  BY <1>1, <1>2, <1>3, <1>4, <1>5, <1>6 DEF ExitCheckStep

-----------------------------------------------------------------------------
(* What the processes plan, and the cursors.                                *)

LEMMA PlanStays ==
  ASSUME StoreInv, EngineType, RowsKept, NEW p \in Processes, PlanOK(p),
         proc'[p].pc = "exiting" => proc[p].pc = "exiting" /\ proc'[p].asOf = proc[p].asOf,
         proc'[p].pc = "settling" => proc[p].pc = "settling",
         proc'[p].todo \subseteq proc[p].todo, proc'[p].closing \subseteq proc[p].closing
  PROVE  PlanOK(p)'
<1>1. proc[p].todo \subseteq ThesisIds /\ \A c \in proc[p].closing : c.id \in ThesisIds
  BY DEF EngineType, ProcType
<1>2. proc'[p].pc = "exiting" =>
        \A q \in proc'[p].todo : HasRow(positions', q) /\ positions'[q].openedAt <= proc'[p].asOf
  BY <1>1 DEF PlanOK, RowsKept
<1>3. proc'[p].pc = "settling" => \A q \in proc'[p].todo : positions'[q].state = "closed"
  BY <1>1 DEF PlanOK, RowsKept
<1>4. \A c \in proc'[p].closing : /\ positions'[c.id].state = "closed"
                                  /\ positions'[c.id].closedAt = c.at /\ positions'[c.id].reason = c.reason
  BY <1>1 DEF PlanOK, RowsKept
<1>5. QED  BY <1>2, <1>3, <1>4 DEF PlanOK

LEMMA PlanShared ==
  ASSUME StoreInv, EngineInv, RowsKept, NEW p \in Processes, SharedStep(p)
  PROVE  PlanOK(p)'
<1>0. EngineType /\ proc[p] \in ProcType /\ PlanOK(p)
  BY DEF EngineInv, EngineType
<1>1. CASE StartExits(p)
  <2>1. /\ proc'[p].asOf = proc[p].asOf /\ proc'[p].pc = "exiting" /\ proc'[p].closing = proc[p].closing
        /\ proc'[p].todo \subseteq OpenPositionsAsOf(positions, proc[p].asOf)
    BY <1>0, <1>1 DEF StartExits, EngineType, ProcType
  <2>2. positions' = positions
    BY <1>1 DEF StartExits, storeVars
  <2>3. QED  BY <1>0, <2>1, <2>2 DEF PlanOK, OpenPositionsAsOf, IsOpenAsOf, HasRow
<1>2. CASE SettleExit(p)
  BY <1>0, <1>2, PlanStays DEF SettleExit, EngineType, ProcType
<1>3. CASE EndExits(p)
  <2>1. proc'[p] = Idle \/ (proc'[p].pc = "commit" /\ proc'[p].todo = proc[p].todo /\ proc'[p].closing = proc[p].closing)
    <3>1. CASE proc[p].id = {}
      BY <1>0, <1>3, <3>1 DEF EndExits, EngineType
    <3>2. CASE proc[p].id # {}
      <4>1. proc' = [proc EXCEPT ![p].pc = "commit"]
        BY <1>3, <3>2 DEF EndExits, Goto
      <4>2. QED  BY <1>0, <4>1 DEF EngineType, ProcType
    <3>3. QED  BY <3>1, <3>2
  <2>2. CASE proc'[p] = Idle
    BY <2>2 DEF PlanOK, Idle
  <2>3. QED  BY <1>0, <2>1, <2>2, PlanStays
<1>4. CASE CommitDecision(p)
  <2>1. proc'[p].pc = "committed" /\ proc'[p].todo = proc[p].todo /\ proc'[p].closing = proc[p].closing
    BY <1>0, <1>4 DEF CommitDecision, EngineType, ProcType
  <2>2. QED  BY <1>0, <2>1, PlanStays
<1>5. CASE FindReplaced(p)
  <2>1. /\ proc'[p].pc = "settling" /\ proc'[p].closing = proc[p].closing
        /\ proc'[p].todo = UnsettledReplaced(TickerOf(IdOf(p)), proc[p].asOf)
    BY <1>0, <1>5 DEF FindReplaced, EngineType, ProcType
  <2>2. positions' = positions
    BY <1>5 DEF FindReplaced, storeVars
  <2>3. QED  BY <1>0, <2>1, <2>2 DEF PlanOK, UnsettledReplaced
<1>6. CASE EndSettling(p)
  <2>1. CASE p = ExitCheck
    <3>1. proc'[p] = [Idle EXCEPT !.pc = "fills", !.tick = proc[ExitCheck].tick, !.pending = proc[ExitCheck].pending]
      BY <1>0, <1>6, <2>1 DEF EndSettling, EngineType
    <3>2. QED  BY <3>1 DEF PlanOK, Idle
  <2>2. CASE p # ExitCheck
    <3>1. proc'[p].pc = "ack" /\ proc'[p].todo = proc[p].todo /\ proc'[p].closing = proc[p].closing
      BY <1>0, <1>6, <2>2 DEF EndSettling, Goto, EngineType, ProcType
    <3>2. QED  BY <1>0, <3>1, PlanStays
  <2>3. QED  BY <2>1, <2>2
<1>7. ASSUME NEW id \in ThesisIds, SettleReplaced(p, id) PROVE PlanOK(p)'
  BY <1>0, <1>7, PlanStays DEF SettleReplaced, EngineType, ProcType
<1>8. ASSUME NEW id \in ThesisIds, ExitPosition(p, id) PROVE PlanOK(p)'
  <2>0. SameWork(p) /\ proc[p].pc = "exiting"
    BY <1>8, ExitKeepsWork
  <2>1. CASE VisitMoves(p, id)
    <3>1. proc'[p].todo \subseteq proc[p].todo /\ proc'[p].closing = proc[p].closing
      <4>1. proc' = [proc EXCEPT ![p].todo = @ \ {id}]
        BY <2>1 DEF VisitMoves
      <4>2. QED  BY <1>0, <4>1 DEF EngineType, ProcType
    <3>2. QED  BY <1>0, <2>0, <3>1, PlanStays DEF SameWork
  <2>2. CASE VisitCloses(p, id)
    <3>1. PICK at \in Nat, reason \in {"stop_or_target", "time_based"} : CloseAndSettle(p, id, at, reason)
      BY <2>2 DEF VisitCloses
    <3>2. /\ proc'[p].todo \subseteq proc[p].todo
          /\ proc'[p].closing = IF IsOpen(positions, id) THEN {[id |-> id, at |-> at, reason |-> reason]} ELSE {}
      BY <1>0, <3>1 DEF CloseAndSettle, EngineType, ProcType
    <3>3. CASE ~IsOpen(positions, id)
      BY <1>0, <2>0, <3>2, <3>3, PlanStays DEF SameWork
    <3>4. CASE IsOpen(positions, id)
      <4>1. /\ positions'[id].state = "closed" /\ positions'[id].closedAt = at /\ positions'[id].reason = reason
        BY <3>1, <3>4 DEF CloseAndSettle, ClosePosition, StoreInv, TypeOK, RowType, IsOpen
      <4>2. \A c \in proc'[p].closing : /\ positions'[c.id].state = "closed"
                                        /\ positions'[c.id].closedAt = c.at /\ positions'[c.id].reason = c.reason
        BY <3>2, <3>4, <4>1
      <4>3. \A q \in proc'[p].todo : HasRow(positions', q) /\ positions'[q].openedAt <= proc'[p].asOf
        BY <1>0, <2>0, <3>2 DEF PlanOK, RowsKept, SameWork, ProcType
      <4>4. QED  BY <2>0, <4>2, <4>3 DEF PlanOK, SameWork
    <3>5. QED  BY <3>3, <3>4
  <2>3. QED  BY <1>8, <2>1, <2>2, Visit
<1>9. QED  BY <1>1, <1>2, <1>3, <1>4, <1>5, <1>6, <1>7, <1>8 DEF SharedStep

LEMMA PlanOfOthers ==
  ASSUME EngineInv, NEW w \in Consumers, ConsumerStep(w) \/ Fail(w), NEW p \in Processes \ {w}
  PROVE  proc'[p] = proc[p]
<1>0. EngineType /\ w \in Processes /\ w # ExitCheck
  BY ConsumersAssumption DEF EngineInv, Processes
<1>1. QED
  BY <1>0 DEF ConsumerStep, SharedStep, Fail, StartExits, SettleExit, EndExits, CommitDecision, FindReplaced,
              EndSettling, ExitPosition, CloseAndSettle, SettleReplaced, Agents, ReadBook, Gates, Ack, Receive, Goto, EngineType

LEMMA PlanOfConsumer ==
  ASSUME StoreInv, EngineInv, RowsKept, NEW w \in Consumers, ConsumerStep(w) \/ Fail(w)
  PROVE  PlanOK(w)'
<1>0. EngineType /\ w \in Processes /\ proc[w] \in ProcType /\ PlanOK(w)
  BY DEF EngineInv, EngineType, Processes
<1>1. CASE SharedStep(w)
  BY <1>0, <1>1, PlanShared
<1>2. CASE Agents(w) \/ Gates(w)
  <2>1. \A e, d, thesis : AfterReading(e, d, thesis) \in {"exits", "commit"}
    BY DEF AfterReading
  <2>2. PICK pc \in {"portfolio", "ack", "exits", "commit"} : proc' = [proc EXCEPT ![w].pc = pc]
    <3>1. Agents(w) => Goto(w, "portfolio") \/ Goto(w, "ack")
      BY DEF Agents
    <3>2. Gates(w) => Goto(w, "ack") \/ Goto(w, AfterReading(proc[w].existing, IdOf(w), ThesisFor(w)))
      BY DEF Gates
    <3>3. \E pc \in {"portfolio", "ack", "exits", "commit"} : Goto(w, pc)
      BY <1>2, <2>1, <3>1, <3>2
    <3>4. QED  BY <3>3 DEF Goto
  <2>3. proc'[w].pc = pc /\ proc'[w].todo = proc[w].todo /\ proc'[w].closing = proc[w].closing
    BY <1>0, <2>2 DEF EngineType, ProcType
  <2>4. QED  BY <1>0, <2>3, PlanStays
<1>3. CASE ReadBook(w)
  <2>1. PICK existing : proc' = [proc EXCEPT ![w].pc = "gates", ![w].existing = existing]
    BY <1>3 DEF ReadBook
  <2>2. proc'[w].pc = "gates" /\ proc'[w].todo = proc[w].todo /\ proc'[w].closing = proc[w].closing
    BY <1>0, <2>1 DEF EngineType, ProcType
  <2>3. QED  BY <1>0, <2>2, PlanStays
<1>4. CASE Ack(w) \/ Fail(w)
  <2>1. proc'[w] = Idle
    BY <1>0, <1>4 DEF Ack, Fail, EngineType
  <2>2. QED  BY <2>1 DEF PlanOK, Idle
<1>5. ASSUME NEW i \in Items, Receive(w, i) PROVE PlanOK(w)'
  <2>1. CASE UNCHANGED proc
    BY <1>0, <2>1, PlanStays
  <2>2. CASE ~UNCHANGED proc
    <3>1. proc' = [proc EXCEPT ![w] = [Idle EXCEPT !.pc = ResumePc(i), !.item = {i}, !.id = {ThesisOf[i]},
                                                   !.asOf = DecidedAt(ThesisOf[i])]]
      BY <1>5, <2>2 DEF Receive
    <3>2. proc'[w].todo = {} /\ proc'[w].closing = {}
      BY <1>0, <3>1 DEF EngineType, Idle
    <3>3. QED  BY <3>2 DEF PlanOK
  <2>3. QED  BY <2>1, <2>2
<1>6. QED  BY <1>1, <1>2, <1>3, <1>4, <1>5 DEF ConsumerStep

LEMMA PlanOfExitCheck ==
  ASSUME StoreInv, EngineInv, RowsKept, ExitCheckStep \/ ExitCheckFails
  PROVE  PlanOK(ExitCheck)'
<1>0. EngineType /\ ExitCheck \in Processes /\ proc[ExitCheck] \in ProcType /\ PlanOK(ExitCheck)
  BY DEF EngineInv, EngineType, Processes
<1>1. CASE SharedStep(ExitCheck)
  BY <1>0, <1>1, PlanShared
<1>2. CASE ExitCheckTick
  <2>1. proc'[ExitCheck] = [Idle EXCEPT !.pc = "fills", !.tick = now, !.pending = PendingEntriesAsOf(now)]
    BY <1>0, <1>2 DEF ExitCheckTick, EngineType
  <2>2. QED  BY <2>1 DEF PlanOK, Idle
<1>3. CASE EndFills \/ ExitCheckFails
  <2>1. proc'[ExitCheck] = BookExits \/ proc'[ExitCheck] = Idle
    BY <1>0, <1>3 DEF EndFills, ExitCheckFails, EngineType
  <2>2. proc'[ExitCheck].todo = {} /\ proc'[ExitCheck].closing = {}
    <3>1. BookExits.todo = {} /\ BookExits.closing = {}
      BY DEF BookExits, Idle
    <3>2. Idle.todo = {} /\ Idle.closing = {}
      BY DEF Idle
    <3>3. QED  BY <2>1, <3>1, <3>2
  <2>3. QED  BY <2>2 DEF PlanOK
<1>4. ASSUME NEW d \in ThesisIds, NoFill(d) PROVE PlanOK(ExitCheck)'
  <2>1. proc' = [proc EXCEPT ![ExitCheck].pending = @ \ {d}]
    BY <1>4 DEF NoFill
  <2>2. proc'[ExitCheck].pc = proc[ExitCheck].pc /\ proc'[ExitCheck].asOf = proc[ExitCheck].asOf
        /\ proc'[ExitCheck].todo = proc[ExitCheck].todo /\ proc'[ExitCheck].closing = proc[ExitCheck].closing
    BY <1>0, <2>1 DEF EngineType, ProcType
  <2>3. QED  BY <1>0, <2>2, PlanStays
<1>5. ASSUME NEW d \in ThesisIds, NEW openedAt \in Instants, Fill(d, openedAt) PROVE PlanOK(ExitCheck)'
  <2>1. PICK pc \in {"exits", "commit"}, existing \in SUBSET ThesisIds :
          proc' = [proc EXCEPT ![ExitCheck].pc = pc, ![ExitCheck].id = {d}, ![ExitCheck].asOf = openedAt,
                               ![ExitCheck].existing = existing, ![ExitCheck].pending = @ \ {d}]
    BY <1>5, FillMoves
  <2>2. proc'[ExitCheck].pc = pc
        /\ proc'[ExitCheck].todo = proc[ExitCheck].todo /\ proc'[ExitCheck].closing = proc[ExitCheck].closing
    BY <1>0, <2>1 DEF EngineType, ProcType
  <2>3. QED  BY <1>0, <2>2, PlanStays
<1>6. QED  BY <1>1, <1>2, <1>3, <1>4, <1>5 DEF ExitCheckStep

LEMMA PlansStep ==
  ASSUME StoreInv, EngineInv, RowsKept, [EngineNext]_vars, NEW p \in Processes
  PROVE  PlanOK(p)'
<1>0. EngineType /\ PlanOK(p) /\ (p \in Consumers \/ p = ExitCheck)
  BY DEF EngineInv, Processes
<1>1. proc'[p] = proc[p] => PlanOK(p)'
  BY <1>0, PlanStays
<1>2. ASSUME NEW w \in Consumers, ConsumerStep(w) \/ Fail(w) PROVE PlanOK(p)'
  BY <1>1, <1>2, PlanOfConsumer, PlanOfOthers
<1>3. CASE ExitCheckStep \/ ExitCheckFails
  BY <1>0, <1>1, <1>3, PlanOfExitCheck, ConsumersUndisturbed
<1>4. CASE Tick \/ UNCHANGED vars
  BY <1>1, <1>4 DEF Tick, vars, engineVars
<1>5. QED  BY <1>2, <1>3, <1>4 DEF EngineNext

\* A row that is open after a step is as it was, or new, or a visit moved its cursor.
LEMMA CursorMoves ==
  ASSUME StoreInv, EngineInv, [EngineNext]_vars, NEW id \in ThesisIds, IsOpen(positions', id)
  PROVE  \/ positions'[id] = positions[id]
         \/ positions'[id].lastCheckedAt = 0 /\ positions'[id].openedAt \in Instants
         \/ \E asOf \in Instants :
              /\ IsOpen(positions, id) /\ positions[id].openedAt <= asOf /\ ~IsTouched(id, asOf)
              /\ positions'[id].openedAt = positions[id].openedAt
              /\ positions'[id].lastCheckedAt = WalkUntil(id, asOf)
<1> DEFINE Moved == \E asOf \in Instants :
              /\ IsOpen(positions, id) /\ positions[id].openedAt <= asOf /\ ~IsTouched(id, asOf)
              /\ positions'[id].openedAt = positions[id].openedAt
              /\ positions'[id].lastCheckedAt = WalkUntil(id, asOf)
           New == positions'[id].lastCheckedAt = 0 /\ positions'[id].openedAt \in Instants
<1>0. TypeOK /\ RowShape /\ positions \in [ThesisIds -> RowType] /\ positions[id] \in RowType
  BY DEF StoreInv, TypeOK
<1>1. ASSUME NEW p \in Processes, CommitDecision(p) PROVE positions'[id] = positions[id] \/ New
  <2>1. PICK c \in Commitments(p) : proc[p].pc = "commit" /\ CommitThesis(c)
    BY <1>1 DEF CommitDecision
  <2>2. c \in Commits /\ MayCommit(c)
    BY <2>1, CommitIsAllowed
  <2>3. positions'[id] = positions[id] \/ Opens(id) \/ Closes(id)
    BY <1>0, <2>1, <2>2, CommitRow
  <2>4. Opens(id) => New
    BY DEF Opens, NewRow, Commits
  <2>5. ~Closes(id)
    BY DEF Closes, IsOpen
  <2>6. QED  BY <2>3, <2>4, <2>5
<1>2. ASSUME NEW p \in Processes, NEW q \in ThesisIds, ExitPosition(p, q) PROVE positions'[id] = positions[id] \/ Moved
  <2>1. CASE VisitCloses(p, q)
    <3>1. PICK at, reason : ClosePosition(q, at, reason)
      BY <2>1 DEF VisitCloses, CloseAndSettle
    <3>2. QED  BY <1>0, <3>1 DEF ClosePosition, IsOpen
  <2>2. CASE VisitMoves(p, q)
    <3>1. /\ HasRow(positions, q) /\ positions[q].openedAt <= proc[p].asOf /\ proc[p].asOf \in Instants
          /\ ~IsTouched(q, proc[p].asOf) /\ AdvancePositionCheck(q, WalkUntil(q, proc[p].asOf))
      BY <1>2, <2>2, Visit DEF VisitMoves
    <3>2. CASE q # id \/ ~(IsOpen(positions, id) /\ positions[id].lastCheckedAt < WalkUntil(q, proc[p].asOf))
      BY <1>0, <3>1, <3>2 DEF AdvancePositionCheck, IsOpen
    <3>3. CASE q = id /\ IsOpen(positions, id) /\ positions[id].lastCheckedAt < WalkUntil(q, proc[p].asOf)
      <4>1. positions'[id] = [positions[id] EXCEPT !.lastCheckedAt = WalkUntil(id, proc[p].asOf)]
        BY <1>0, <3>1, <3>3 DEF AdvancePositionCheck, IsOpen
      <4>2. positions'[id].openedAt = positions[id].openedAt /\ positions'[id].lastCheckedAt = WalkUntil(id, proc[p].asOf)
        BY <1>0, <4>1 DEF RowType
      <4>3. QED  BY <3>1, <3>3, <4>2
    <3>4. QED  BY <3>2, <3>3
  <2>3. QED  BY <1>2, <2>1, <2>2, Visit
<1>3. ASSUME NEW p \in Processes, SharedStep(p) PROVE positions'[id] = positions[id] \/ New \/ Moved
  <2>1. CASE StartExits(p) \/ EndExits(p) \/ FindReplaced(p) \/ EndSettling(p)
    BY <2>1 DEF StartExits, EndExits, FindReplaced, EndSettling, storeVars
  <2>2. CASE SettleExit(p) \/ \E q \in ThesisIds : SettleReplaced(p, q)
    BY <2>2 DEF SettleExit, SettleReplaced, SettleOutcome, RecordDecisionOutcome, storeVars
  <2>3. QED  BY <1>1, <1>2, <1>3, <2>1, <2>2 DEF SharedStep
<1>4. ASSUME NEW w \in Consumers, ConsumerStep(w) \/ Fail(w) PROVE positions'[id] = positions[id] \/ New \/ Moved
  <2>1. CASE SharedStep(w)
    BY <1>3, <2>1 DEF Processes
  <2>2. CASE Agents(w) \/ Gates(w) \/ ReadBook(w) \/ Ack(w) \/ Fail(w) \/ \E i \in Items : Receive(w, i)
    BY <2>2 DEF Agents, Gates, ReadBook, Ack, Fail, Receive, InsertTradeDecision, storeVars
  <2>3. QED  BY <1>4, <2>1, <2>2 DEF ConsumerStep
<1>5. CASE ExitCheckStep \/ ExitCheckFails
  <2>1. CASE SharedStep(ExitCheck)
    BY <1>3, <2>1 DEF Processes
  <2>2. CASE ExitCheckTick \/ EndFills \/ ExitCheckFails
    BY <2>2 DEF ExitCheckTick, EndFills, ExitCheckFails, storeVars
  <2>3. CASE \E d \in ThesisIds : NoFill(d) \/ \E openedAt \in Instants : Fill(d, openedAt)
    BY <2>3 DEF NoFill, Fill, ExpirePendingEntry, storeVars
  <2>4. QED  BY <1>5, <2>1, <2>2, <2>3 DEF ExitCheckStep
<1>6. CASE Tick \/ UNCHANGED vars
  BY <1>6 DEF Tick, vars, storeVars
<1>7. QED  BY <1>4, <1>5, <1>6 DEF EngineNext

LEMMA CursorStep == StoreInv /\ EngineInv /\ [EngineNext]_vars => CursorOK'
<1> SUFFICES ASSUME StoreInv, EngineInv, [EngineNext]_vars, NEW id \in ThesisIds,
                    IsOpen(positions', id), positions'[id].lastCheckedAt # 0
             PROVE  positions'[id].openedAt <= positions'[id].lastCheckedAt
  BY DEF CursorOK
<1>1. CASE positions'[id] = positions[id]
  BY <1>1 DEF EngineInv, CursorOK, IsOpen
<1>2. ASSUME NEW asOf \in Instants, IsOpen(positions, id), positions[id].openedAt <= asOf
      PROVE  positions[id].openedAt <= WalkUntil(id, asOf)
  BY <1>2, WalkFacts
<1>3. QED  BY <1>1, <1>2, CursorMoves

LEMMA EngineInvStep == StoreInv /\ EngineInv /\ [EngineNext]_vars => (StoreInv /\ EngineInv)'
<1> SUFFICES ASSUME StoreInv, EngineInv, [EngineNext]_vars PROVE StoreInv' /\ EngineInv'
  OBVIOUS
<1>1. [Next]_storeVars
  BY StepIsCall
<1>2. StoreInv' /\ RowsKept
  BY <1>1, StoreInvStep, StoreKeepsRows
<1>3. RowsDecided' /\ CheckpointsOK' /\ CursorOK'
  BY <1>1, <1>2, RowsDecidedStep, CheckpointsStep, CursorStep DEF EngineInv
<1>4. Apart' /\ \A w \in Consumers : ConsumerOK(w)'
  BY ConsumersStep
<1>5. \A p \in Processes : PlanOK(p)'
  BY <1>2, PlansStep
<1>6. EngineType' /\ ExitCheckOK'
  <2>1. ASSUME NEW w \in Consumers, ConsumerStep(w) \/ Fail(w) PROVE EngineType' /\ ExitCheckOK'
    BY <2>1, ConsumerType, ExitCheckUndisturbed
  <2>2. CASE ExitCheckStep \/ ExitCheckFails \/ Tick
    BY <2>2, ExitCheckType, ExitCheckOwn
  <2>3. CASE UNCHANGED vars
    <3>1. EngineType'
      BY <2>3 DEF vars, engineVars, EngineInv, EngineType
    <3>2. QED  BY <2>3, <3>1, ExitCheckOwn
  <2>4. QED  BY <2>1, <2>2, <2>3 DEF EngineNext
<1>7. QED  BY <1>2, <1>3, <1>4, <1>5, <1>6 DEF EngineInv

LEMMA EngineInvHolds == EngineSpec => [](StoreInv /\ EngineInv)
<1>1. EngineInit => StoreInv /\ EngineInv
  BY StoreInvInit, EngineInvInit DEF EngineInit
<1>2. QED  BY <1>1, EngineInvStep, PTL DEF EngineSpec

-----------------------------------------------------------------------------
\* The consumers and the exit check, however they interleave, die and retry, only ever call
\* the store as its contract allows (run_store.js): a commit is a thesis at its own instant,
\* or what a pending decision said, and repeats the row that an earlier attempt wrote; an
\* exit closes a row of its own time; an outcome is that of the close.  So the engine
\* implements RunStore, and every theorem of RunStore_proofs holds of it.
THEOREM EngineImplementsStore == EngineSpec => EngineKeepsStoreContract
<1>1. EngineInit => Init
  BY DEF EngineInit
<1>2. QED  BY <1>1, StepIsCall, EngineInvHolds, PTL DEF EngineSpec, EngineKeepsStoreContract, Spec

\* The incident commitThesis was written for, of the concurrent engine itself: no ticker
\* ever has two open positions, and the three tables tell one story.
THEOREM EngineBook == EngineSpec => [](OneOpenPerTicker /\ BookIsConsistent) /\ RowsAreFinal
  BY EngineImplementsStore, OneOpenPerTickerHolds, BookIsConsistentHolds, RowsAreFinalHolds, PTL
     DEF EngineKeepsStoreContract

\* Only the tick moves the clock, and nothing moves the prices.
LEMMA OnlyTheTick ==
  ASSUME [EngineNext]_vars
  PROVE  touchedAt' = touchedAt /\ (~Tick => now' = now)
<1>1. ASSUME NEW p \in Processes, SharedStep(p) PROVE touchedAt' = touchedAt /\ now' = now
  <2>1. ASSUME NEW id \in ThesisIds, ExitPosition(p, id) \/ SettleReplaced(p, id)
        PROVE  touchedAt' = touchedAt /\ now' = now
    BY <2>1 DEF ExitPosition, SettleReplaced
  <2>2. CASE StartExits(p) \/ SettleExit(p) \/ EndExits(p)
    BY <2>2 DEF StartExits, SettleExit, EndExits
  <2>3. CASE CommitDecision(p) \/ FindReplaced(p) \/ EndSettling(p)
    BY <2>3 DEF CommitDecision, FindReplaced, EndSettling
  <2>4. QED  BY <1>1, <2>1, <2>2, <2>3 DEF SharedStep
<1>2. ASSUME NEW w \in Consumers, ConsumerStep(w) \/ Fail(w) PROVE touchedAt' = touchedAt /\ now' = now
  <2>1. CASE SharedStep(w)
    BY <1>1, <2>1 DEF Processes
  <2>2. ASSUME NEW i \in Items, Receive(w, i) PROVE touchedAt' = touchedAt /\ now' = now
    BY <2>2 DEF Receive
  <2>3. CASE Agents(w) \/ ReadBook(w) \/ Gates(w) \/ Ack(w) \/ Fail(w)
    BY <2>3 DEF Agents, ReadBook, Gates, Ack, Fail
  <2>4. QED  BY <1>2, <2>1, <2>2, <2>3 DEF ConsumerStep
<1>3. ASSUME ExitCheckStep \/ ExitCheckFails PROVE touchedAt' = touchedAt /\ now' = now
  <2>1. CASE SharedStep(ExitCheck)
    BY <1>1, <2>1 DEF Processes
  <2>2. ASSUME NEW d \in ThesisIds, NoFill(d) \/ \E at \in Instants : Fill(d, at)
        PROVE  touchedAt' = touchedAt /\ now' = now
    BY <2>2 DEF NoFill, Fill
  <2>3. CASE ExitCheckTick \/ EndFills \/ ExitCheckFails
    BY <2>3 DEF ExitCheckTick, EndFills, ExitCheckFails
  <2>4. QED  BY <1>3, <2>1, <2>2, <2>3 DEF ExitCheckStep
<1>4. CASE Tick \/ UNCHANGED vars
  BY <1>4 DEF Tick, vars, engineVars
<1>5. QED  BY <1>2, <1>3, <1>4 DEF EngineNext

LEMMA NoTouchSkippedStep ==
  StoreInv /\ EngineInv /\ NoTouchSkipped /\ [EngineNext]_vars => NoTouchSkipped'
<1> SUFFICES ASSUME StoreInv, EngineInv, NoTouchSkipped, [EngineNext]_vars,
                    NEW id \in ThesisIds, IsOpen(positions', id)
             PROVE  ~TouchedInLife(id, positions[id].lastCheckedAt)'
  BY DEF NoTouchSkipped
<1>0. touchedAt' = touchedAt /\ touchedAt[id] \in Nat /\ HoldLimit \in Nat
  BY LimitsAssumption, OnlyTheTick DEF EngineInv, EngineType
<1>1. CASE positions'[id] = positions[id]
  BY <1>0, <1>1 DEF NoTouchSkipped, TouchedInLife, WalkUntil, DueAt, IsOpen
<1>2. CASE positions'[id].lastCheckedAt = 0 /\ positions'[id].openedAt \in Instants
  <2>1. positions'[id].openedAt \in Nat /\ 1 <= positions'[id].openedAt
    <3>1. \A t \in Instants : t \in Nat /\ 1 <= t
      BY InstantsAssumption
    <3>2. QED  BY <1>2, <3>1
  <2>2. QED  BY <1>0, <1>2, <2>1 DEF TouchedInLife, WalkUntil, DueAt
<1>3. ASSUME NEW asOf \in Instants, IsOpen(positions, id), positions[id].openedAt <= asOf, ~IsTouched(id, asOf),
             positions'[id].openedAt = positions[id].openedAt,
             positions'[id].lastCheckedAt = WalkUntil(id, asOf)
      PROVE  ~TouchedInLife(id, positions[id].lastCheckedAt)'
  <2>1. /\ DueAt(id) \in Nat /\ WalkUntil(id, asOf) \in Nat /\ asOf \in Nat
        /\ positions[id].openedAt \in Nat /\ positions[id].lastCheckedAt \in Nat
    BY <1>3, WalkFacts, RowFacts, InstantsAssumption
  <2>2. ~TouchedInLife(id, positions[id].lastCheckedAt)
    BY <1>3 DEF NoTouchSkipped
  <2>3. SUFFICES ASSUME positions[id].openedAt < touchedAt[id],
                        touchedAt[id] <= WalkUntil(id, WalkUntil(id, asOf))
                 PROVE  FALSE
    BY <1>0, <1>3 DEF TouchedInLife, WalkUntil, DueAt
  <2>4. touchedAt[id] <= WalkUntil(id, asOf) /\ touchedAt[id] <= DueAt(id)
    BY <1>0, <2>1, <2>3 DEF WalkUntil
  <2>5. touchedAt[id] <= WalkedTo(id)
    BY <1>0, <1>3, <2>1, <2>4 DEF IsTouched, WalkedTo
  <2>6. positions[id].lastCheckedAt # 0 /\ touchedAt[id] <= positions[id].lastCheckedAt
    BY <1>0, <2>1, <2>3, <2>5 DEF WalkedTo
  <2>7. touchedAt[id] <= WalkUntil(id, positions[id].lastCheckedAt)
    BY <1>0, <2>1, <2>4, <2>6 DEF WalkUntil
  <2>8. QED  BY <2>2, <2>3, <2>7 DEF TouchedInLife
<1>4. QED  BY <1>1, <1>2, <1>3, CursorMoves

\* The cursor never passes a stop or target that has not closed the position, whoever walked:
\* the tick's exit check, a consumer or a fill that checks stops before it flips a position
\* (exit_check.js), each from a book that it read steps ago.
THEOREM NoTouchSkippedHolds == EngineSpec => []NoTouchSkipped
<1>1. EngineInit => NoTouchSkipped
  BY DEF EngineInit, Init, NoTouchSkipped, IsOpen, NoRow
<1>2. QED  BY <1>1, NoTouchSkippedStep, EngineInvHolds, PTL DEF EngineSpec

-----------------------------------------------------------------------------
(* What a step may do to the tables, and to the process that takes it.      *)

\* The steps that write positions or decisions.
LEMMA StepKinds ==
  ASSUME [EngineNext]_vars
  PROVE  \/ \E p \in Processes : CommitDecision(p)
         \/ \E p \in Processes, id \in ThesisIds : ExitPosition(p, id)
         \/ \E w \in Consumers : Agents(w) \/ Gates(w)
         \/ \E d \in ThesisIds : NoFill(d)
         \/ positions' = positions /\ decisions' = decisions
<1>1. ASSUME NEW p \in Processes, SharedStep(p)
      PROVE  \/ CommitDecision(p)
             \/ \E id \in ThesisIds : ExitPosition(p, id)
             \/ positions' = positions /\ decisions' = decisions
  BY <1>1 DEF SharedStep, StartExits, SettleExit, EndExits, FindReplaced, EndSettling, SettleReplaced, SettleOutcome,
              RecordDecisionOutcome, storeVars
<1>2. ASSUME NEW w \in Consumers, ConsumerStep(w) \/ Fail(w), ~SharedStep(w), ~Agents(w), ~Gates(w)
      PROVE  positions' = positions /\ decisions' = decisions
  BY <1>2 DEF ConsumerStep, ReadBook, Ack, Receive, Fail, storeVars
<1>3. CASE ExitCheckStep /\ ~SharedStep(ExitCheck) /\ ~\E d \in ThesisIds : NoFill(d)
  BY <1>3 DEF ExitCheckStep, ExitCheckTick, EndFills, Fill, storeVars
<1>4. CASE ExitCheckFails \/ Tick \/ UNCHANGED vars
  BY <1>4 DEF ExitCheckFails, Tick, vars, storeVars
<1>5. Consumers \subseteq Processes /\ ExitCheck \in Processes
  BY DEF Processes
<1>6. QED  BY <1>1, <1>2, <1>3, <1>4, <1>5 DEF EngineNext

LEMMA MovesAlone ==
  ASSUME EngineInv, NEW w \in Consumers, ConsumerStep(w) \/ Fail(w), NEW q \in Processes \ {w}
  PROVE  proc'[q] = proc[q]
<1>0. EngineType
  BY DEF EngineInv
<1>1. QED
  BY <1>0 DEF ConsumerStep, SharedStep, Fail, StartExits, SettleExit, EndExits, CommitDecision, FindReplaced,
              EndSettling, ExitPosition, CloseAndSettle, SettleReplaced, Agents, ReadBook, Gates, Ack, Receive, Goto,
              EngineType, Processes

\* A commit is what a step that puts a new row into the table does.
PutBy(p, c) ==
  /\ CommitDecision(p) /\ CommitThesis(c) /\ c \in Commitments(p) /\ c \in Commits /\ MayCommit(c)
  /\ c.id = IdOf(p) /\ c.asOf = proc[p].asOf /\ c.thesis = ThesisFor(p) /\ proc[p].pc = "commit"

LEMMA CommitOf ==
  ASSUME StoreInv, EngineInv, NEW p \in Processes, CommitDecision(p)
  PROVE  \E c \in Commits : PutBy(p, c)
<1>1. PICK c \in Commitments(p) : proc[p].pc = "commit" /\ CommitThesis(c)
  BY DEF CommitDecision
<1>2. c \in Commits /\ MayCommit(c) /\ c.id = IdOf(p)
  BY <1>1, CommitIsAllowed
<1>3. c.asOf = proc[p].asOf /\ c.thesis = ThesisFor(p)
  BY <1>1 DEF Commitments, Commitment
<1>4. QED  BY <1>1, <1>2, <1>3 DEF PutBy

\* Where a new row comes from.
LEMMA RowIsNew ==
  ASSUME StoreInv, EngineInv, [EngineNext]_vars, NEW id \in ThesisIds,
         ~HasRow(positions, id), HasRow(positions', id)
  PROVE  \E p \in Processes, c \in Commits :
           /\ PutBy(p, c) /\ c.id = id /\ positions'[id] = NewRow(c) /\ CommitAllowed(positions, c)
           /\ OpenRowsOf(positions', TickerOf(id)) = {id}
           /\ decisions'[id] = DecisionAfterCommit(decisions[id], "opened", c.thesis)
<1>0. TypeOK /\ decisions \in [ThesisIds -> [status : Statuses \cup {"none"}, thesis : Theses \cup {NoThesis}]]
  BY DEF StoreInv, TypeOK
<1>1. PICK p \in Processes : CommitDecision(p)
  <2>1. ASSUME NEW p \in Processes, NEW q \in ThesisIds, ExitPosition(p, q) PROVE FALSE
    <3>1. WalkStep(p)
      BY <2>1 DEF WalkStep
    <3>2. QED  BY <3>1, WalkKeepsDecisions
  <2>2. ASSUME NEW w \in Consumers, Agents(w) \/ Gates(w) PROVE FALSE
    BY <2>2 DEF Agents, Gates, InsertTradeDecision, storeVars, HasRow
  <2>3. ASSUME NEW d \in ThesisIds, NoFill(d) PROVE FALSE
    BY <2>3 DEF NoFill, ExpirePendingEntry, storeVars, HasRow
  <2>4. QED  BY <2>1, <2>2, <2>3, StepKinds DEF HasRow
<1>2. PICK c \in Commits : PutBy(p, c)
  BY <1>1, CommitOf
<1>3. c.id = id
  BY <1>2, CommitEffect DEF PutBy
<1>4. /\ positions'[id] = NewRow(c) /\ OpenRowsOf(positions', TickerOf(id)) = {id}
      /\ Outcome(positions', c) = "opened" /\ CommitAllowed(positions, c)
  BY <1>0, <1>2, <1>3, CommitOwnRow, NewRowIsOpened DEF PutBy
<1>5. decisions'[id] = DecisionAfterCommit(decisions[id], "opened", c.thesis)
  BY <1>0, <1>2, <1>3, <1>4, CommitTables DEF PutBy
<1>6. QED  BY <1>2, <1>3, <1>4, <1>5

\* What a process keeps of the times of its work, in the steps that both kinds take.
LEMMA SharedTimes ==
  ASSUME StoreInv, EngineInv, NEW p \in Processes, SharedStep(p)
  PROVE  /\ proc'[p].asOf = proc[p].asOf \/ proc'[p].asOf = 0
         /\ proc'[p].tick = proc[p].tick \/ proc'[p].tick = 0
<1>0. EngineType /\ proc[p] \in ProcType
  BY DEF EngineInv, EngineType
<1>1. CASE StartExits(p)
  BY <1>0, <1>1 DEF StartExits, EngineType, ProcType
<1>2. CASE SettleExit(p)
  BY <1>0, <1>2 DEF SettleExit, EngineType, ProcType
<1>3. CASE EndExits(p)
  BY <1>0, <1>3 DEF EndExits, Goto, Idle, EngineType, ProcType
<1>4. CASE CommitDecision(p)
  BY <1>0, <1>4 DEF CommitDecision, EngineType, ProcType
<1>5. CASE FindReplaced(p)
  BY <1>0, <1>5 DEF FindReplaced, EngineType, ProcType
<1>6. CASE EndSettling(p)
  <2>1. CASE p = ExitCheck
    <3>1. proc'[p] = [Idle EXCEPT !.pc = "fills", !.tick = proc[p].tick, !.pending = proc[p].pending]
      BY <1>0, <1>6, <2>1 DEF EndSettling, EngineType
    <3>2. QED  BY <3>1 DEF Idle
  <2>2. CASE p # ExitCheck
    <3>1. proc' = [proc EXCEPT ![p].pc = "ack"]
      BY <1>6, <2>2 DEF EndSettling, Goto
    <3>2. QED  BY <1>0, <3>1 DEF EngineType, ProcType
  <2>3. QED  BY <2>1, <2>2
<1>7. ASSUME NEW id \in ThesisIds, SettleReplaced(p, id)
      PROVE  proc'[p].asOf = proc[p].asOf /\ proc'[p].tick = proc[p].tick
  BY <1>0, <1>7 DEF SettleReplaced, EngineType, ProcType
<1>8. ASSUME NEW id \in ThesisIds, ExitPosition(p, id)
      PROVE  proc'[p].asOf = proc[p].asOf /\ proc'[p].tick = proc[p].tick
  BY <1>8, ExitKeepsWork DEF SameWork
<1>9. QED  BY <1>1, <1>2, <1>3, <1>4, <1>5, <1>6, <1>7, <1>8 DEF SharedStep

-----------------------------------------------------------------------------
(* Nobody is ahead of the clock.                                            *)

Timely(p) == proc[p].asOf <= now /\ proc[p].tick <= now
NotAhead ==
  /\ \A p \in Processes : Timely(p)
  /\ \A id \in ThesisIds : HasRow(positions, id) => positions[id].openedAt <= now

LEMMA InstantIsNat == \A t \in Instants \cup {0} : t \in Nat
  BY InstantsAssumption

LEMMA NowGrows ==
  ASSUME StoreInv, EngineInv, [EngineNext]_vars
  PROVE  now \in Nat /\ now' \in Nat /\ now <= now' /\ (now' # now => Tick)
<1>1. now \in Instants /\ now \in Nat
  BY InstantsAssumption DEF EngineInv, EngineType
<1>2. CASE Tick
  BY <1>1, <1>2 DEF Tick
<1>3. CASE ~Tick
  <2>1. now' = now
    BY <1>3, OnlyTheTick
  <2>2. QED  BY <1>1, <1>3, <2>1
<1>4. QED  BY <1>2, <1>3

LEMMA TimelyStep ==
  ASSUME StoreInv, EngineInv, [EngineNext]_vars, NEW p \in Processes, \A q \in Processes : Timely(q)
  PROVE  Timely(p)'
<1>0. /\ EngineType /\ proc[p] \in ProcType /\ Timely(p)
      /\ proc[p].asOf \in Nat /\ proc[p].tick \in Nat
  <2>1. EngineType /\ proc[p] \in ProcType
    BY DEF EngineInv, EngineType
  <2>2. proc[p].asOf \in Instants \cup {0} /\ proc[p].tick \in Instants \cup {0}
    BY <2>1 DEF ProcType
  <2>3. QED  BY <2>1, <2>2, InstantIsNat
<1>1. now <= now' /\ now \in Nat /\ now' \in Nat
  BY NowGrows
<1>2. ASSUME proc'[p].asOf \in {proc[p].asOf, proc[p].tick, now, 0}, proc'[p].tick \in {proc[p].tick, now, 0}
      PROVE  Timely(p)'
  BY <1>0, <1>1, <1>2 DEF Timely
<1>3. CASE SharedStep(p)
  BY <1>2, <1>3, SharedTimes
<1>4. CASE proc'[p] = proc[p]
  BY <1>2, <1>4
<1>5. ASSUME NEW w \in Consumers, ConsumerStep(w) \/ Fail(w), p = w PROVE Timely(p)'
  <2>1. CASE Agents(p) \/ Gates(p)
    <3>1. \E pc : Goto(p, pc)
      BY <2>1 DEF Agents, Gates
    <3>2. QED  BY <1>0, <1>2, <3>1 DEF Goto, EngineType, ProcType
  <2>2. CASE ReadBook(p)
    BY <1>0, <1>2, <2>2 DEF ReadBook, EngineType, ProcType
  <2>3. CASE Ack(p) \/ Fail(p)
    BY <1>0, <1>2, <2>3 DEF Ack, Fail, Idle, EngineType
  <2>4. ASSUME NEW i \in Items, Receive(p, i) PROVE Timely(p)'
    <3>1. CASE proc' = proc
      BY <1>4, <3>1
    <3>2. CASE proc' # proc
      <4>1. /\ proc' = [proc EXCEPT ![p] = [Idle EXCEPT !.pc = ResumePc(i), !.item = {i}, !.id = {ThesisOf[i]},
                                                        !.asOf = DecidedAt(ThesisOf[i])]]
            /\ DecidedAt(ThesisOf[i]) <= now /\ now' = now
        BY <2>4, <3>2 DEF Receive
      <4>2. proc'[p].asOf = DecidedAt(ThesisOf[i]) /\ proc'[p].tick = 0
        BY <1>0, <4>1 DEF Idle, EngineType
      <4>3. QED  BY <1>0, <1>1, <4>1, <4>2 DEF Timely
    <3>3. QED  BY <3>1, <3>2
  <2>5. QED  BY <1>3, <1>5, <2>1, <2>2, <2>3, <2>4 DEF ConsumerStep
<1>6. CASE (ExitCheckStep \/ ExitCheckFails) /\ p = ExitCheck
  <2>1. CASE ExitCheckTick
    BY <1>0, <1>2, <1>6, <2>1 DEF ExitCheckTick, Idle, EngineType
  <2>2. CASE EndFills
    BY <1>0, <1>2, <1>6, <2>2 DEF EndFills, BookExits, Idle, EngineType
  <2>3. CASE ExitCheckFails
    <3>1. proc'[p] = BookExits \/ proc'[p] = Idle
      BY <1>0, <1>6, <2>3 DEF ExitCheckFails, EngineType
    <3>2. /\ BookExits.asOf = proc[ExitCheck].tick /\ BookExits.tick = proc[ExitCheck].tick
          /\ Idle.asOf = 0 /\ Idle.tick = 0
      BY DEF BookExits, Idle
    <3>3. QED  BY <1>2, <1>6, <3>1, <3>2
  <2>4. ASSUME NEW d \in ThesisIds, NoFill(d) PROVE Timely(p)'
    BY <1>0, <1>2, <1>6, <2>4 DEF NoFill, EngineType, ProcType
  <2>5. ASSUME NEW d \in ThesisIds, NEW openedAt \in Instants, Fill(d, openedAt) PROVE Timely(p)'
    <3>1. PICK pc \in {"exits", "commit"}, existing \in SUBSET ThesisIds :
            proc' = [proc EXCEPT ![ExitCheck].pc = pc, ![ExitCheck].id = {d}, ![ExitCheck].asOf = openedAt,
                                 ![ExitCheck].existing = existing, ![ExitCheck].pending = @ \ {d}]
      BY <2>5, FillMoves
    <3>2. proc'[p].asOf = openedAt /\ proc'[p].tick = proc[p].tick
      BY <1>0, <1>6, <3>1 DEF EngineType, ProcType
    <3>3. openedAt <= proc[p].tick /\ openedAt \in Nat
      BY <1>6, <2>5, InstantsAssumption DEF Fill, FillInstants
    <3>4. QED  BY <1>0, <1>1, <3>2, <3>3 DEF Timely
  <2>6. QED  BY <1>3, <1>6, <2>1, <2>2, <2>3, <2>4, <2>5 DEF ExitCheckStep
<1>7. CASE Tick \/ UNCHANGED vars
  BY <1>4, <1>7 DEF Tick, vars, engineVars
<1>8. ASSUME NEW w \in Consumers, ConsumerStep(w) \/ Fail(w), p # w PROVE proc'[p] = proc[p]
  BY <1>8, MovesAlone
<1>9. (ExitCheckStep \/ ExitCheckFails) /\ p # ExitCheck => proc'[p] = proc[p]
  BY ConsumersUndisturbed DEF Processes
<1>10. QED  BY <1>4, <1>5, <1>6, <1>7, <1>8, <1>9 DEF EngineNext

LEMMA NotAheadStep == StoreInv /\ EngineInv /\ NotAhead /\ [EngineNext]_vars => NotAhead'
<1> SUFFICES ASSUME StoreInv, EngineInv, NotAhead, [EngineNext]_vars PROVE NotAhead'
  OBVIOUS
<1>0. now \in Nat /\ now' \in Nat
  BY NowGrows
<1>1. now <= now'
  BY NowGrows
<1>2. ASSUME NEW id \in ThesisIds, HasRow(positions', id) PROVE positions'[id].openedAt <= now'
  <2>0. positions'[id].openedAt \in Nat
    <3>1. StoreInv'
      BY StepIsCall, StoreInvStep
    <3>2. positions'[id] \in RowType
      BY <3>1 DEF StoreInv, TypeOK
    <3>3. positions'[id].openedAt \in Instants \cup {0}
      BY <3>2 DEF RowType
    <3>4. QED  BY <3>3, InstantIsNat
  <2>1. CASE HasRow(positions, id)
    <3>1. positions'[id].openedAt = positions[id].openedAt
      BY <2>1, StepIsCall, StoreKeepsRows DEF RowsKept
    <3>2. positions[id].openedAt <= now
      BY <2>1 DEF NotAhead
    <3>3. QED  BY <1>0, <1>1, <2>0, <3>1, <3>2
  <2>2. CASE ~HasRow(positions, id)
    <3>1. PICK p \in Processes, c \in Commits : PutBy(p, c) /\ positions'[id] = NewRow(c)
      BY <1>2, <2>2, RowIsNew
    <3>2. positions'[id].openedAt = proc[p].asOf /\ proc[p].asOf <= now
      BY <3>1 DEF PutBy, NewRow, NotAhead, Timely
    <3>3. QED  BY <1>0, <1>1, <2>0, <3>2
  <2>3. QED  BY <2>1, <2>2
<1>3. \A p \in Processes : Timely(p)'
  BY TimelyStep DEF NotAhead
<1>4. QED  BY <1>2, <1>3 DEF NotAhead

LEMMA NotAheadHolds == EngineSpec => []NotAhead
<1>1. EngineInit => NotAhead
  <2> SUFFICES ASSUME EngineInit PROVE NotAhead
    OBVIOUS
  <2>1. \A p \in Processes : proc[p] = Idle
    BY DEF EngineInit
  <2>2. now = 1 /\ \A id \in ThesisIds : ~HasRow(positions, id)
    BY DEF EngineInit, Init, HasRow, NoRow
  <2>3. QED  BY <2>1, <2>2 DEF NotAhead, Timely, Idle
<1>2. QED  BY <1>1, NotAheadStep, EngineInvHolds, PTL DEF EngineSpec

-----------------------------------------------------------------------------
(* How a consumer goes on.                                                  *)

\* The step that each place in the work is reached by.
LEMMA Arrives ==
  ASSUME StoreInv, EngineInv, NEW w \in Consumers, ConsumerStep(w) \/ Fail(w)
  PROVE  LET pc == proc'[w].pc IN
         /\ pc = "agents" => \E i \in Items : Receive(w, i)
         /\ pc = "portfolio" => Agents(w) \/ \E i \in Items : Receive(w, i)
         /\ pc = "gates" => ReadBook(w)
         /\ pc = "exits" => Gates(w)
         /\ pc = "exiting" => StartExits(w) \/ SettleExit(w) \/ \E id \in ThesisIds : ExitPosition(w, id)
         /\ pc = "commit" => Gates(w) \/ EndExits(w)
         /\ pc = "committed" => CommitDecision(w)
         /\ pc = "settling" => FindReplaced(w) \/ \E id \in ThesisIds : SettleReplaced(w, id)
<1>0. EngineType /\ proc[w] \in ProcType /\ w \in Processes /\ w # ExitCheck
  BY ConsumersAssumption DEF EngineInv, EngineType, Processes
<1>1. StartExits(w) => proc'[w].pc = "exiting"
  BY <1>0 DEF StartExits, EngineType, ProcType
<1>2. SettleExit(w) => proc'[w].pc = "exiting"
  BY <1>0 DEF SettleExit, EngineType, ProcType
<1>3. EndExits(w) => proc'[w].pc \in {"idle", "commit"}
  BY <1>0 DEF EndExits, Goto, Idle, EngineType, ProcType
<1>4. CommitDecision(w) => proc'[w].pc = "committed"
  BY <1>0 DEF CommitDecision, EngineType, ProcType
<1>5. FindReplaced(w) => proc'[w].pc = "settling"
  BY <1>0 DEF FindReplaced, EngineType, ProcType
<1>6. EndSettling(w) => proc'[w].pc = "ack"
  BY <1>0 DEF EndSettling, Goto, EngineType, ProcType
<1>7. ASSUME NEW id \in ThesisIds, ExitPosition(w, id) PROVE proc'[w].pc = "exiting"
  BY <1>0, <1>7, ExitKeepsWork DEF SameWork
<1>8. ASSUME NEW id \in ThesisIds, SettleReplaced(w, id) PROVE proc'[w].pc = "settling"
  BY <1>0, <1>8 DEF SettleReplaced, EngineType, ProcType
<1>9. Agents(w) => proc'[w].pc \in {"portfolio", "ack"}
  BY <1>0 DEF Agents, Goto, EngineType, ProcType
<1>10. ReadBook(w) => proc'[w].pc = "gates"
  BY <1>0 DEF ReadBook, EngineType, ProcType
<1>11. Gates(w) => proc'[w].pc \in {"ack", "exits", "commit"}
  <2>1. Gates(w) => \E pc \in {"ack", "exits", "commit"} : Goto(w, pc)
    BY DEF Gates, AfterReading
  <2>2. QED  BY <1>0, <2>1 DEF Goto, EngineType, ProcType
<1>12. Ack(w) \/ Fail(w) => proc'[w].pc = "idle"
  BY <1>0 DEF Ack, Fail, Idle, EngineType
<1>13. ASSUME NEW i \in Items, Receive(w, i) PROVE proc'[w].pc \in {"idle", "agents", "portfolio", "ack"}
  <2>1. ResumePc(i) \in {"agents", "portfolio", "ack"}
    BY <1>0 DEF ResumePc, EngineType
  <2>2. proc' = proc \/ proc' = [proc EXCEPT ![w] = [Idle EXCEPT !.pc = ResumePc(i), !.item = {i},
                                                   !.id = {ThesisOf[i]}, !.asOf = DecidedAt(ThesisOf[i])]]
    BY <1>13 DEF Receive
  <2>3. (proc'[w] = proc[w] /\ proc[w].pc = "idle") \/ proc'[w].pc = ResumePc(i)
    <3>1. proc[w].pc = "idle"
      BY <1>13 DEF Receive
    <3>2. QED  BY <1>0, <2>2, <3>1 DEF EngineType, Idle
  <2>4. QED  BY <2>1, <2>3
<1>14. QED
  BY <1>1, <1>2, <1>3, <1>4, <1>5, <1>6, <1>7, <1>8, <1>9, <1>10, <1>11, <1>12, <1>13 DEF ConsumerStep, SharedStep

\* From its receipt to its end a consumer works on one item.
LEMMA OneWork ==
  ASSUME StoreInv, EngineInv, NEW w \in Consumers, ConsumerStep(w) \/ Fail(w),
         proc[w].pc # "idle", proc'[w].pc # "idle"
  PROVE  /\ proc'[w].item = proc[w].item /\ proc'[w].id = proc[w].id /\ proc'[w].asOf = proc[w].asOf
         /\ ItemOf(w)' = ItemOf(w) /\ IdOf(w)' = IdOf(w)
<1>1. PICK i \in Items : Holds(w, i)
  BY DEF EngineInv, ConsumerOK
<1>2. PICK j \in Items : Holds(w, j)'
  BY OwnStep DEF ConsumerOK
<1>3. proc'[w].item = {j} /\ proc[w].item = {i} /\ {j} \subseteq {i}
  BY <1>1, <1>2, OwnStep DEF Holds
<1>4. j = i
  BY <1>3
<1>5. proc'[w].item = proc[w].item /\ proc'[w].id = proc[w].id /\ proc'[w].asOf = proc[w].asOf
  BY <1>1, <1>2, <1>4 DEF Holds
<1>6. QED  BY <1>5 DEF ItemOf, IdOf

-----------------------------------------------------------------------------
(* The markers say the truth.                                               *)

Undecided(id) == decisions[id].status = "none"
MarkersTrue ==
  /\ \A i \in Items : checkpoints[i].stage = "done" => ~Undecided(ThesisOf[i])
  /\ \A w \in Consumers : proc[w].pc \in {"committed", "settling"} => ~Undecided(IdOf(w))

\* No call takes a decision away.
LEMMA StaysDecided ==
  ASSUME StoreInv, EngineInv, [EngineNext]_vars, NEW id \in ThesisIds, ~Undecided(id)
  PROVE  ~Undecided(id)'
<1>1. CASE UNCHANGED storeVars
  BY <1>1 DEF storeVars, Undecided
<1>2. CASE Next
  <2>1. DecisionStays(id)
    BY <1>2, DecisionsStep
  <2>2. QED  BY <2>1 DEF DecisionStays, Undecided, CommitStatuses
<1>3. QED  BY <1>1, <1>2, StepIsCall

\* Who decides something decides it.
LEMMA DecidesIt ==
  ASSUME StoreInv, EngineInv, NEW w \in Consumers, NEW thesis, NEW status \in DirectStatuses,
         InsertTradeDecision(IdOf(w), thesis, status), proc[w].pc # "idle"
  PROVE  decisions'[IdOf(w)].status # "none"
<1>1. IdOf(w) \in ThesisIds
  BY AtWork, ThesisOfFacts
<1>2. status # "none"
  BY DirectStatusesAssumption
<1>3. QED  BY <1>1, <1>2 DEF InsertTradeDecision, StoreInv, TypeOK, Undecided

LEMMA CommitDecides ==
  ASSUME StoreInv, EngineInv, NEW p \in Processes, CommitDecision(p)
  PROVE  decisions'[IdOf(p)].status \notin {"none", "pending_entry"}
<1>1. PICK c \in Commits : CommitThesis(c) /\ c.id = IdOf(p)
  BY CommitOf DEF PutBy
<1>2. QED  BY <1>1, CommitEffect

\* A consumer marks its own item, and only when it has decided it, now or before it settled.
LEMMA MarksItsOwn ==
  ASSUME StoreInv, EngineInv, NEW w \in Consumers, ConsumerStep(w) \/ Fail(w), NEW i \in Items,
         checkpoints'[i].stage = "done", checkpoints[i].stage # "done"
  PROVE  IdOf(w) = ThesisOf[i] /\ (decisions'[IdOf(w)].status # "none" \/ proc[w].pc = "settling")
<1>0. EngineType /\ w \in Processes
  BY DEF EngineInv, Processes
<1>1. CASE Agents(w) \/ Gates(w) \/ CommitDecision(w) \/ EndSettling(w)
  <2>1. PICK j \in Items : Holds(w, j) /\ ItemOf(w) = j /\ IdOf(w) = ThesisOf[j]
    BY <1>1, AtWork DEF Agents, Gates, CommitDecision, EndSettling
  <2>2. i = j
    <3>1. checkpoints' = checkpoints \/ MarkDone(j)
            \/ \E thesis : checkpoints' = [checkpoints EXCEPT ![j] = [stage |-> "traded", thesis |-> thesis]]
      BY <1>1, <2>1 DEF Agents, Gates, CommitDecision, EndSettling
    <3>2. QED  BY <1>0, <3>1 DEF MarkDone, EngineType
  <2>3. CASE Agents(w)
    <3>1. InsertTradeDecision(IdOf(w), NoThesis, "skipped_irrelevant") /\ "skipped_irrelevant" \in DirectStatuses
      BY <1>0, <2>1, <2>2, <2>3 DEF Agents, EngineType
    <3>2. QED  BY <2>1, <2>2, <2>3, <3>1, DecidesIt DEF Agents
  <2>4. CASE Gates(w)
    <3>1. \E status \in DirectStatuses : InsertTradeDecision(IdOf(w), ThesisFor(w), status)
      BY <2>4 DEF Gates
    <3>2. QED  BY <2>1, <2>2, <2>4, <3>1, DecidesIt DEF Gates
  <2>5. CASE CommitDecision(w)
    BY <1>0, <2>1, <2>2, <2>5, CommitDecides
  <2>6. CASE EndSettling(w)
    BY <2>1, <2>2, <2>6 DEF EndSettling
  <2>7. QED  BY <1>1, <2>3, <2>4, <2>5, <2>6
<1>2. CASE ~(Agents(w) \/ Gates(w) \/ CommitDecision(w) \/ EndSettling(w))
  <2>1. checkpoints' = checkpoints
    BY <1>2 DEF ConsumerStep, SharedStep, Fail, StartExits, SettleExit, EndExits, FindReplaced,
                ExitPosition, SettleReplaced, ReadBook, Ack, Receive
  <2>2. QED  BY <2>1
<1>3. QED  BY <1>1, <1>2

LEMMA MarkersStep == StoreInv /\ EngineInv /\ MarkersTrue /\ [EngineNext]_vars => MarkersTrue'
<1> SUFFICES ASSUME StoreInv, EngineInv, MarkersTrue, [EngineNext]_vars PROVE MarkersTrue'
  OBVIOUS
<1>1. \A i \in Items : checkpoints'[i] = checkpoints[i] /\ checkpoints[i].stage = "done" => ~Undecided(ThesisOf[i])'
  BY StaysDecided, ThesisOfFacts DEF MarkersTrue
<1>2. \A w \in Consumers : proc[w].pc \in {"committed", "settling"} => IdOf(w) \in ThesisIds /\ decisions'[IdOf(w)].status # "none"
  <2> SUFFICES ASSUME NEW w \in Consumers, proc[w].pc \in {"committed", "settling"}
               PROVE  IdOf(w) \in ThesisIds /\ decisions'[IdOf(w)].status # "none"
    OBVIOUS
  <2>1. IdOf(w) \in ThesisIds
    BY AtWork, ThesisOfFacts
  <2>2. PICK id \in ThesisIds : IdOf(w) = id
    BY <2>1
  <2>3. ~Undecided(id)'
    BY <2>2, StaysDecided DEF MarkersTrue
  <2>4. QED  BY <2>2, <2>3 DEF Undecided
<1>3. ASSUME NEW w \in Consumers, ConsumerStep(w) \/ Fail(w) PROVE MarkersTrue'
  <2>1. ASSUME NEW i \in Items, checkpoints'[i].stage = "done" PROVE ~Undecided(ThesisOf[i])'
    <3>1. CASE checkpoints[i].stage = "done"
      BY <3>1, StaysDecided, ThesisOfFacts DEF MarkersTrue
    <3>2. CASE checkpoints[i].stage # "done"
      BY <1>2, <1>3, <2>1, <3>2, MarksItsOwn DEF Undecided
    <3>3. QED  BY <3>1, <3>2
  <2>2. ASSUME NEW v \in Consumers \ {w}, proc'[v].pc \in {"committed", "settling"} PROVE ~Undecided(IdOf(v))'
    <3>1. proc'[v] = proc[v]
      BY <1>3, MovesAlone DEF Processes
    <3>2. IdOf(v)' = IdOf(v)
      BY <3>1 DEF IdOf
    <3>3. QED  BY <1>2, <2>2, <3>1, <3>2 DEF Undecided
  <2>3. ASSUME proc'[w].pc \in {"committed", "settling"} PROVE ~Undecided(IdOf(w))'
    <3>1. CASE CommitDecision(w)
      <4>1. decisions'[IdOf(w)].status # "none"
        BY <3>1, CommitDecides DEF Processes
      <4>2. IdOf(w)' = IdOf(w)
        BY <1>3, <2>3, <3>1, OneWork DEF CommitDecision
      <4>3. QED  BY <4>1, <4>2 DEF Undecided
    <3>2. CASE proc[w].pc \in {"committed", "settling"}
      <4>1. IdOf(w)' = IdOf(w)
        BY <1>3, <2>3, <3>2, OneWork
      <4>2. QED  BY <1>2, <3>2, <4>1 DEF Undecided
    <3>3. QED  BY <1>3, <2>3, <3>1, <3>2, Arrives DEF FindReplaced, SettleReplaced
  <2>4. QED  BY <2>1, <2>2, <2>3 DEF MarkersTrue
<1>4. CASE ExitCheckStep \/ ExitCheckFails \/ Tick \/ UNCHANGED vars
  <2>1. checkpoints' = checkpoints /\ \A w \in Consumers : proc'[w] = proc[w]
    BY <1>4, ConsumersUndisturbed
  <2>2. \A w \in Consumers : IdOf(w)' = IdOf(w)
    BY <2>1 DEF IdOf
  <2>3. QED  BY <1>1, <1>2, <2>1, <2>2 DEF MarkersTrue, Undecided
<1>5. QED  BY <1>3, <1>4 DEF EngineNext

LEMMA MarkersHold == EngineSpec => []MarkersTrue
<1>1. EngineInit => MarkersTrue
  BY ThesisOfFacts DEF EngineInit, MarkersTrue, NoCheckpoint, Idle, Processes
<1>2. QED  BY <1>1, MarkersStep, EngineInvHolds, PTL DEF EngineSpec

-----------------------------------------------------------------------------
(* Until a process fails, no item is decided twice.                         *)

LEMMA OneConsumer ==
  ASSUME EngineInv, NEW v \in Consumers, NEW w \in Consumers, proc[v].pc # "idle", proc[w].pc # "idle",
         IdOf(v) = IdOf(w)
  PROVE  v = w
<1>1. PICK i \in Items : Holds(v, i) /\ IdOf(v) = ThesisOf[i] /\ \A u \in Consumers \ {v} : proc[u].item # {i}
  BY AtWork
<1>2. PICK j \in Items : Holds(w, j) /\ IdOf(w) = ThesisOf[j]
  BY AtWork
<1>3. i = j
  BY <1>1, <1>2, ThesisOfFacts
<1>4. QED  BY <1>1, <1>2, <1>3 DEF Holds

\* The first decision of a thesis is its consumer's, on its way out.
LEMMA DecidedBy ==
  ASSUME StoreInv, EngineInv, [EngineNext]_vars, NEW id \in ThesisIds, Undecided(id), ~Undecided(id)'
  PROVE  \E w \in Consumers :
           /\ ConsumerStep(w) /\ IdOf(w) = id
           /\ proc[w].pc \in {"agents", "gates", "commit"} /\ proc'[w].pc \in {"ack", "committed"}
<1>0. EngineType /\ Consumers \subseteq Processes /\ ExitCheck \notin Consumers
  BY ConsumersAssumption DEF EngineInv, Processes
<1>1. ASSUME NEW p \in Processes, CommitDecision(p)
      PROVE  p \in Consumers /\ IdOf(p) = id /\ proc[p].pc = "commit" /\ proc'[p].pc = "committed"
  <2>1. PICK c \in Commits : PutBy(p, c)
    BY <1>1, CommitOf
  <2>2. c.id = id
    BY <2>1, CommitEffect DEF PutBy, Undecided
  <2>3. p # ExitCheck
    <3>1. SUFFICES ASSUME p = ExitCheck PROVE FALSE
      OBVIOUS
    <3>2. PICK d \in ThesisIds : Fills(d)
      BY <2>1, <3>1 DEF EngineInv, ExitCheckOK, PutBy
    <3>3. IdOf(p) = d
      BY <3>1, <3>2, TheOne DEF IdOf, Fills
    <3>4. QED  BY <2>1, <2>2, <3>2, <3>3 DEF PutBy, Fills, IsPending, Undecided
  <2>4. proc'[p].pc = "committed"
    BY <1>0, <1>1 DEF CommitDecision, EngineType, ProcType
  <2>5. QED  BY <2>1, <2>2, <2>3, <2>4 DEF PutBy, Processes
<1>2. ASSUME NEW p \in Processes, NEW q \in ThesisIds, ExitPosition(p, q) PROVE FALSE
  <2>1. WalkStep(p)
    BY <1>2 DEF WalkStep
  <2>2. QED  BY <2>1, WalkKeepsDecisions DEF Undecided
<1>3. ASSUME NEW w \in Consumers, Agents(w) \/ Gates(w)
      PROVE  IdOf(w) = id /\ proc[w].pc \in {"agents", "gates"} /\ proc'[w].pc = "ack"
  <2>1. proc[w].pc \in {"agents", "gates"}
    BY <1>3 DEF Agents, Gates
  <2>2. Goto(w, "ack") /\ \E thesis, status : InsertTradeDecision(IdOf(w), thesis, status)
    BY <1>3 DEF Agents, Gates, storeVars, Undecided
  <2>3. IdOf(w) = id
    BY <2>2 DEF InsertTradeDecision, StoreInv, TypeOK, Undecided
  <2>4. proc'[w].pc = "ack"
    BY <1>0, <2>2 DEF Goto, EngineType, ProcType
  <2>5. QED  BY <2>1, <2>3, <2>4
<1>4. ASSUME NEW d \in ThesisIds, NoFill(d) PROVE FALSE
  BY <1>4 DEF NoFill, ExpirePendingEntry, storeVars, Undecided, StoreInv, TypeOK
<1>5. QED
  BY <1>1, <1>2, <1>3, <1>4, StepKinds DEF Undecided, ConsumerStep, SharedStep

Fresh ==
  /\ \A i \in Items : inbox[i].state = "queued" => Undecided(ThesisOf[i])
  /\ \A w \in Consumers : proc[w].pc \in PreCommit \cup {"agents"} => Undecided(IdOf(w))
  /\ \A id \in ThesisIds : HasRow(positions, id) => decisions[id] = [status |-> "opened", thesis |-> positions[id].thesis]
FreshTillFault == faults \in Nat /\ (faults = 0 => Fresh)

\* Only a failure raises the count of them, and only a consumer's queues an item.
LEMMA FaultsGrow ==
  ASSUME EngineInv, [EngineNext]_vars, faults \in Nat
  PROVE  /\ faults' \in Nat
         /\ faults' = 0 => /\ faults = 0 /\ \A w \in Consumers : ~Fail(w)
                           /\ \A i \in Items : inbox'[i].state = "queued" => inbox[i].state = "queued"
<1>0. EngineType
  BY DEF EngineInv
<1>1. ASSUME NEW w \in Consumers, ConsumerStep(w)
      PROVE  faults' = faults /\ \A i \in Items : inbox'[i].state = "queued" => inbox[i].state = "queued"
  <2>1. ASSUME NEW i \in Items, Receive(w, i)
        PROVE  faults' = faults /\ \A j \in Items : inbox'[j].state = "queued" => inbox[j].state = "queued"
    BY <1>0, <2>1 DEF Receive, EngineType
  <2>2. CASE Ack(w)
    <3>1. PICK i \in Items : ItemOf(w) = i
      BY <2>2, AtWork DEF Ack
    <3>2. QED  BY <1>0, <2>2, <3>1 DEF Ack, EngineType
  <2>3. CASE ~Ack(w) /\ ~\E i \in Items : Receive(w, i)
    BY <1>1, <2>3 DEF ConsumerStep, SharedStep, StartExits, SettleExit, EndExits, CommitDecision, FindReplaced,
                      EndSettling, ExitPosition, SettleReplaced, Agents, ReadBook, Gates
  <2>4. QED  BY <2>1, <2>2, <2>3
<1>2. ASSUME NEW w \in Consumers, Fail(w) PROVE faults' = faults + 1
  BY <1>2 DEF Fail
<1>3. CASE ExitCheckFails
  BY <1>3 DEF ExitCheckFails
<1>4. CASE ExitCheckStep \/ Tick \/ UNCHANGED vars
  <2>1. faults' = faults
    BY <1>4 DEF ExitCheckStep, Tick, vars, engineVars, SharedStep, StartExits, SettleExit, EndExits, CommitDecision,
       FindReplaced, EndSettling, ExitPosition, SettleReplaced, ExitCheckTick, EndFills, NoFill, Fill
  <2>2. inbox' = inbox
    BY <1>4, ConsumersUndisturbed
  <2>3. ~\E w \in Consumers : Fail(w)
    BY <1>2, <2>1
  <2>4. QED  BY <2>1, <2>2, <2>3
<1>5. CASE \E w \in Consumers : ConsumerStep(w) /\ ~Fail(w)
  <2>1. faults' = faults /\ \A i \in Items : inbox'[i].state = "queued" => inbox[i].state = "queued"
    BY <1>1, <1>5
  <2>2. CASE \E w \in Consumers : Fail(w)
    BY <1>2, <2>1, <2>2
  <2>3. QED  BY <2>1, <2>2
<1>6. CASE \E w \in Consumers : Fail(w)
  BY <1>2, <1>6
<1>7. QED  BY <1>3, <1>4, <1>5, <1>6 DEF EngineNext

LEMMA FreshStep == StoreInv /\ EngineInv /\ FreshTillFault /\ [EngineNext]_vars => FreshTillFault'
<1> SUFFICES ASSUME StoreInv, EngineInv, FreshTillFault, [EngineNext]_vars, faults' = 0 PROVE Fresh'
  BY FaultsGrow DEF FreshTillFault
<1>0. /\ Fresh /\ EngineType /\ (\A w \in Consumers : ~Fail(w))
      /\ \A i \in Items : inbox'[i].state = "queued" => inbox[i].state = "queued"
  BY FaultsGrow DEF FreshTillFault, EngineInv
<1>1. ASSUME NEW i \in Items, inbox'[i].state = "queued" PROVE Undecided(ThesisOf[i])'
  <2>1. inbox[i].state = "queued" /\ Undecided(ThesisOf[i])
    BY <1>0, <1>1 DEF Fresh
  <2>2. SUFFICES ASSUME NEW w \in Consumers, proc[w].pc # "idle", IdOf(w) = ThesisOf[i] PROVE FALSE
    BY <2>1, DecidedBy, ThesisOfFacts
  <2>3. PICK j \in Items : Holds(w, j) /\ IdOf(w) = ThesisOf[j]
    BY <2>2, AtWork
  <2>4. QED  BY <2>1, <2>2, <2>3, ThesisOfFacts DEF Holds
<1>2. ASSUME NEW v \in Consumers, proc'[v].pc \in PreCommit \cup {"agents"} PROVE Undecided(IdOf(v))'
  <2>1. CASE \E i \in Items : Receive(v, i)
    <3>1. PICK i \in Items : Receive(v, i)
      BY <2>1
    <3>2. /\ inbox[i].state = "queued" /\ UNCHANGED storeVars
          /\ (proc' = proc /\ proc[v].pc = "idle") \/ proc'[v].id = {ThesisOf[i]}
      <4>1. inbox[i].state = "queued" /\ UNCHANGED storeVars /\ proc[v].pc = "idle"
        BY <3>1 DEF Receive
      <4>2. proc' = proc \/ proc'[v] = [Idle EXCEPT !.pc = ResumePc(i), !.item = {i}, !.id = {ThesisOf[i]},
                                                   !.asOf = DecidedAt(ThesisOf[i])]
        BY <1>0, <3>1 DEF Receive, EngineType, Processes
      <4>3. QED  BY <4>1, <4>2 DEF Idle
    <3>3. proc' # proc \/ proc[v].pc # "idle"
      BY <1>2 DEF PreCommit
    <3>4. IdOf(v)' = ThesisOf[i]
      BY <3>2, <3>3, TheOne DEF IdOf
    <3>5. Undecided(ThesisOf[i])'
      BY <1>0, <3>2 DEF Fresh, Undecided, storeVars
    <3>6. QED  BY <3>4, <3>5 DEF Undecided
  <2>2. ASSUME proc[v].pc \in PreCommit \cup {"agents"}, IdOf(v)' = IdOf(v) PROVE Undecided(IdOf(v))'
    <3>1. PICK id \in ThesisIds : IdOf(v) = id
      <4>1. proc[v].pc # "idle"
        BY <2>2 DEF PreCommit
      <4>2. QED  BY <4>1, AtWork, ThesisOfFacts
    <3>2. Undecided(id)
      BY <1>0, <2>2, <3>1 DEF Fresh
    <3>3. ASSUME NEW w \in Consumers, IdOf(w) = id, proc[w].pc # "idle", proc'[w].pc \in {"ack", "committed"} PROVE FALSE
      <4>1. w = v
        BY <2>2, <3>1, <3>3, OneConsumer DEF PreCommit
      <4>2. QED  BY <1>2, <3>3, <4>1 DEF PreCommit
    <3>4. Undecided(id)'
      BY <3>2, <3>3, DecidedBy
    <3>5. QED  BY <2>2, <3>1, <3>4 DEF Undecided
  <2>3. CASE ConsumerStep(v) /\ ~\E i \in Items : Receive(v, i)
    <3>1. proc[v].pc \in PreCommit \cup {"agents"}
      BY <1>2, <2>3, Arrives DEF PreCommit, Agents, ReadBook, Gates, StartExits, SettleExit, ExitPosition, EndExits
    <3>2. proc[v].pc # "idle" /\ proc'[v].pc # "idle"
      BY <1>2, <3>1 DEF PreCommit
    <3>3. QED  BY <2>2, <2>3, <3>1, <3>2, OneWork
  <2>4. CASE proc'[v] = proc[v]
    BY <1>2, <2>2, <2>4 DEF IdOf
  <2>5. CASE ~ConsumerStep(v)
    <3>1. proc'[v] = proc[v]
      <4>1. CASE ExitCheckStep \/ ExitCheckFails \/ Tick \/ UNCHANGED vars
        BY <4>1, ConsumersUndisturbed
      <4>2. ASSUME NEW w \in Consumers, ConsumerStep(w) PROVE proc'[v] = proc[v]
        BY <2>5, <4>2, MovesAlone DEF Processes
      <4>3. QED  BY <1>0, <4>1, <4>2 DEF EngineNext
    <3>2. QED  BY <2>4, <3>1
  <2>6. QED  BY <2>1, <2>3, <2>5
<1>3. ASSUME NEW id \in ThesisIds, HasRow(positions', id)
      PROVE  decisions'[id] = [status |-> "opened", thesis |-> positions'[id].thesis]
  <2>1. CASE HasRow(positions, id)
    <3>1. decisions[id] = [status |-> "opened", thesis |-> positions[id].thesis]
      BY <1>0, <2>1 DEF Fresh
    <3>2. decisions'[id] = decisions[id]
      <4>1. CASE UNCHANGED storeVars
        BY <4>1 DEF storeVars
      <4>2. CASE Next
        BY <3>1, <4>2, DecisionsStep DEF DecisionStays
      <4>3. QED  BY <4>1, <4>2, StepIsCall
    <3>3. positions'[id].thesis = positions[id].thesis
      BY <2>1, StepIsCall, StoreKeepsRows DEF RowsKept
    <3>4. QED  BY <3>1, <3>2, <3>3
  <2>2. CASE ~HasRow(positions, id)
    <3>1. PICK p \in Processes, c \in Commits :
            /\ PutBy(p, c) /\ c.id = id /\ positions'[id] = NewRow(c)
            /\ decisions'[id] = DecisionAfterCommit(decisions[id], "opened", c.thesis)
      BY <1>3, <2>2, RowIsNew
    <3>2. positions'[id].thesis = c.thesis
      BY <3>1 DEF NewRow
    <3>3. decisions[id] \in [status : Statuses \cup {"none"}, thesis : Theses \cup {NoThesis}]
      BY DEF StoreInv, TypeOK
    <3>4. CASE p \in Consumers
      <4>1. Undecided(id)
        BY <1>0, <3>1, <3>4 DEF Fresh, PutBy, PreCommit
      <4>2. QED  BY <3>1, <3>2, <4>1 DEF DecisionAfterCommit, Undecided
    <3>5. CASE p = ExitCheck
      <4>1. PICK d \in ThesisIds : Fills(d)
        BY <3>1, <3>5 DEF EngineInv, ExitCheckOK, PutBy
      <4>2. d = id
        BY <3>1, <3>5, <4>1, TheOne DEF IdOf, Fills, PutBy
      <4>3. decisions[id].status = "pending_entry" /\ c.thesis = decisions[id].thesis
        BY <3>1, <4>1, <4>2 DEF PutBy, MayCommit, Fills, IsPending
      <4>4. decisions'[id] = [decisions[id] EXCEPT !.status = "opened"]
        BY <3>1, <4>3 DEF DecisionAfterCommit
      <4>5. QED  BY <3>2, <3>3, <4>3, <4>4
    <3>6. QED  BY <3>4, <3>5 DEF Processes
  <2>3. QED  BY <2>1, <2>2
<1>4. QED  BY <1>1, <1>2, <1>3 DEF Fresh

LEMMA FreshHolds == EngineSpec => []FreshTillFault
<1>1. EngineInit => FreshTillFault
  <2> SUFFICES ASSUME EngineInit PROVE FreshTillFault
    OBVIOUS
  <2>1. \A id \in ThesisIds : Undecided(id) /\ ~HasRow(positions, id)
    BY DEF EngineInit, Init, Undecided, NoDecision, HasRow, NoRow
  <2>2. \A w \in Consumers : proc[w].pc = "idle"
    BY DEF EngineInit, Processes, Idle
  <2>3. faults = 0
    BY DEF EngineInit
  <2>4. QED  BY <2>1, <2>2, <2>3, ThesisOfFacts DEF FreshTillFault, Fresh, PreCommit
<1>2. QED  BY <1>1, FreshStep, EngineInvHolds, PTL DEF EngineSpec

\* Until a process fails, every position is the one its decision says was opened, and opened
\* at a bar that was there (commitThesis's batch, entry_fill.js's choice of the bar): no second
\* attempt finds the first one's decision, and no fill looks at a bar of the future.
THEOREM PositionIsDecidedHolds == EngineSpec => [](faults = 0 => PositionIsDecided)
<1>1. FreshTillFault /\ NotAhead => (faults = 0 => PositionIsDecided)
  BY DEF FreshTillFault, Fresh, NotAhead, PositionIsDecided
<1>2. QED  BY <1>1, FreshHolds, NotAheadHolds, PTL

-----------------------------------------------------------------------------
(* With items finished in order and no stale price, every commit is at the  *)
(* wall clock's instant.                                                    *)

Base == StoreInv /\ EngineInv /\ NotAhead /\ NoTouchSkipped

LEMMA BaseHolds == EngineSpec => []Base
  BY EngineInvHolds, NotAheadHolds, NoTouchSkippedHolds, PTL DEF Base

\* Nothing of an earlier instant is still under way, and no entry waits.
Punctual ==
  /\ \A i \in Items : DecidedAt(ThesisOf[i]) < now => inbox[i].state \in {"acked", "dead"}
  /\ \A id \in ThesisIds : ~IsPending(id)
  /\ proc[ExitCheck].pending = {} /\ proc[ExitCheck].id = {}

LEMMA SameTime ==
  ASSUME NEW p \in ThesisIds, NEW q \in ThesisIds, TickerOf(p) = TickerOf(q), DecidedAt(p) = DecidedAt(q)
  PROVE  p = q
  BY ThesisIdsAssumption DEF TickerOf, DecidedAt

LEMMA DecidedNat == \A id \in ThesisIds : DecidedAt(id) \in Nat
  BY ThesisIdsAssumption, InstantsAssumption DEF DecidedAt

LEMMA InTime ==
  ASSUME Base, Punctual, NEW w \in Consumers, proc[w].pc # "idle"
  PROVE  IdOf(w) \in ThesisIds /\ proc[w].asOf = now /\ DecidedAt(IdOf(w)) = now /\ now \in Nat
<1>1. PICK i \in Items : Holds(w, i) /\ IdOf(w) = ThesisOf[i]
  BY AtWork DEF Base
<1>2. proc[w].asOf = DecidedAt(ThesisOf[i]) /\ inbox[i].state = "held"
  BY <1>1 DEF Holds
<1>3. ~(DecidedAt(ThesisOf[i]) < now)
  BY <1>2 DEF Punctual
<1>4. proc[w].asOf <= now
  BY DEF Base, NotAhead, Timely, Processes
<1>5. now \in Nat /\ ThesisOf[i] \in ThesisIds /\ DecidedAt(ThesisOf[i]) \in Nat
  BY ThesisOfFacts, DecidedNat, InstantsAssumption DEF Base, EngineInv, EngineType
<1>6. QED  BY <1>1, <1>2, <1>3, <1>4, <1>5

LEMMA Committer ==
  ASSUME Base, Punctual, NEW p \in Processes, NEW c \in Commits, PutBy(p, c)
  PROVE  /\ p \in Consumers /\ CommitDecision(p)
         /\ c.id = IdOf(p) /\ c.asOf = now /\ DecidedAt(c.id) = now /\ c.id \in ThesisIds /\ now \in Nat
<1>1. p # ExitCheck
  BY DEF Base, EngineInv, ExitCheckOK, Punctual, PutBy
<1>2. p \in Consumers /\ proc[p].pc # "idle"
  BY <1>1 DEF Processes, PutBy
<1>3. QED  BY <1>2, InTime DEF PutBy

\* A finished item is never taken up again.
LEMMA StaysFinished ==
  ASSUME StoreInv, EngineInv, [EngineNext]_vars, NEW i \in Items, inbox[i].state \in {"acked", "dead"}
  PROVE  inbox'[i].state \in {"acked", "dead"}
<1>0. EngineType
  BY DEF EngineInv
<1>1. ASSUME NEW w \in Consumers, NEW j \in Items, Receive(w, j) PROVE inbox'[i].state \in {"acked", "dead"}
  BY <1>0, <1>1 DEF Receive, EngineType
<1>2. ASSUME NEW w \in Consumers, Ack(w) \/ Fail(w) PROVE inbox'[i].state \in {"acked", "dead"}
  <2>1. PICK j \in Items : ItemOf(w) = j /\ inbox[j].state = "held"
    BY <1>2, AtWork DEF Ack, Fail, Holds
  <2>2. \E state : inbox' = [inbox EXCEPT ![j].state = state]
    BY <1>2, <2>1 DEF Ack, Fail
  <2>3. QED  BY <1>0, <2>1, <2>2 DEF EngineType
<1>3. ASSUME NEW w \in Consumers, ConsumerStep(w), ~Ack(w), \A j \in Items : ~Receive(w, j) PROVE inbox' = inbox
  BY <1>3 DEF ConsumerStep, SharedStep, StartExits, SettleExit, EndExits, CommitDecision, FindReplaced,
              EndSettling, ExitPosition, SettleReplaced, Agents, ReadBook, Gates
<1>4. CASE ExitCheckStep \/ ExitCheckFails \/ Tick \/ UNCHANGED vars
  BY <1>4, ConsumersUndisturbed
<1>5. QED  BY <1>1, <1>2, <1>3, <1>4 DEF EngineNext

\* No decision starts to wait: only a stale price makes one.
LEMMA NoneWaits ==
  ASSUME StoreInv, EngineInv, [EngineNext]_vars, ~StalePrices, NEW id \in ThesisIds, ~IsPending(id)
  PROVE  ~IsPending(id)'
<1>1. ASSUME NEW p \in Processes, CommitDecision(p) PROVE ~IsPending(id)'
  <2>1. PICK c \in Commits : CommitThesis(c)
    BY <1>1, CommitOf DEF PutBy
  <2>2. QED  BY <2>1, CommitEffect DEF IsPending
<1>2. ASSUME NEW p \in Processes, NEW q \in ThesisIds, ExitPosition(p, q) PROVE ~IsPending(id)'
  <2>1. WalkStep(p)
    BY <1>2 DEF WalkStep
  <2>2. QED  BY <2>1, WalkKeepsDecisions DEF IsPending
<1>3. ASSUME NEW w \in Consumers, Agents(w) \/ Gates(w) PROVE ~IsPending(id)'
  <2>1. \/ UNCHANGED decisions
        \/ \E d, thesis, status : InsertTradeDecision(d, thesis, status) /\ status # "pending_entry"
    <3>1. CASE Agents(w)
      BY <3>1 DEF Agents, storeVars
    <3>2. CASE Gates(w)
      <4>1. UNCHANGED decisions \/ \E status \in DirectStatuses \ {"skipped_irrelevant"} :
              (status = "pending_entry" => StalePrices) /\ InsertTradeDecision(IdOf(w), ThesisFor(w), status)
        BY <3>2 DEF Gates, storeVars
      <4>2. QED  BY <4>1
    <3>3. QED  BY <1>3, <3>1, <3>2
  <2>2. QED  BY <2>1 DEF InsertTradeDecision, IsPending, StoreInv, TypeOK
<1>4. ASSUME NEW d \in ThesisIds, NoFill(d) PROVE ~IsPending(id)'
  BY <1>4 DEF NoFill, ExpirePendingEntry, storeVars, IsPending, StoreInv, TypeOK
<1>5. QED  BY <1>1, <1>2, <1>3, <1>4, StepKinds DEF IsPending

LEMMA PunctualStep ==
  ASSUME Base, Punctual, [EngineNext]_vars, ~LateNews, ~StalePrices
  PROVE  Punctual'
<1>0. StoreInv /\ EngineInv /\ EngineType /\ ExitCheck \in Processes
  BY DEF Base, EngineInv, Processes
<1>1. ASSUME NEW i \in Items, DecidedAt(ThesisOf[i]) < now' PROVE inbox'[i].state \in {"acked", "dead"}
  <2>1. DecidedAt(ThesisOf[i]) \in Nat /\ now \in Nat
    BY <1>0, ThesisOfFacts, DecidedNat, NowGrows
  <2>2. CASE DecidedAt(ThesisOf[i]) < now
    BY <1>0, <2>2, StaysFinished DEF Punctual
  <2>3. CASE ~(DecidedAt(ThesisOf[i]) < now)
    <3>1. Tick
      BY <1>0, <1>1, <2>3, NowGrows
    <3>2. DecidedAt(ThesisOf[i]) <= now
      BY <1>1, <2>1, <3>1 DEF Tick
    <3>3. inbox[i].state \in {"acked", "dead"}
      BY <3>1, <3>2 DEF Tick
    <3>4. QED  BY <1>0, <3>3, StaysFinished
  <2>4. QED  BY <2>2, <2>3
<1>2. \A id \in ThesisIds : ~IsPending(id)'
  BY <1>0, NoneWaits DEF Punctual
<1>3. proc'[ExitCheck].pending = {} /\ proc'[ExitCheck].id = {}
  <2> DEFINE e == proc[ExitCheck]
             f == proc'[ExitCheck]
  <2>0. e \in ProcType /\ e.pending = {} /\ e.id = {}
    BY <1>0 DEF EngineType, Punctual
  <2>1. CASE f = e
    BY <2>0, <2>1
  <2>2. CASE SharedStep(ExitCheck)
    <3>1. CASE StartExits(ExitCheck) \/ SettleExit(ExitCheck) \/ CommitDecision(ExitCheck) \/ FindReplaced(ExitCheck)
      <4>1. f.pending = e.pending /\ f.id = e.id
        <5>1. CASE StartExits(ExitCheck)
          BY <1>0, <2>0, <5>1 DEF StartExits, EngineType, ProcType
        <5>2. CASE SettleExit(ExitCheck)
          BY <1>0, <2>0, <5>2 DEF SettleExit, EngineType, ProcType
        <5>3. CASE CommitDecision(ExitCheck)
          BY <1>0, <2>0, <5>3 DEF CommitDecision, EngineType, ProcType
        <5>4. CASE FindReplaced(ExitCheck)
          BY <1>0, <2>0, <5>4 DEF FindReplaced, EngineType, ProcType
        <5>5. QED  BY <3>1, <5>1, <5>2, <5>3, <5>4
      <4>2. QED  BY <2>0, <4>1
    <3>2. CASE EndExits(ExitCheck)
      <4>1. f = Idle
        BY <1>0, <2>0, <3>2 DEF EndExits, EngineType
      <4>2. QED  BY <4>1 DEF Idle
    <3>3. CASE EndSettling(ExitCheck)
      <4>1. f = [Idle EXCEPT !.pc = "fills", !.tick = e.tick, !.pending = e.pending]
        BY <1>0, <3>3 DEF EndSettling, EngineType
      <4>2. QED  BY <2>0, <4>1 DEF Idle
    <3>4. ASSUME NEW id \in ThesisIds, ExitPosition(ExitCheck, id) PROVE f.pending = {} /\ f.id = {}
      BY <1>0, <2>0, <3>4, ExitKeepsWork DEF SameWork
    <3>5. ASSUME NEW id \in ThesisIds, SettleReplaced(ExitCheck, id) PROVE f.pending = {} /\ f.id = {}
      BY <1>0, <2>0, <3>5 DEF SettleReplaced, EngineType, ProcType
    <3>6. QED  BY <2>2, <3>1, <3>2, <3>3, <3>4, <3>5 DEF SharedStep
  <2>3. CASE ExitCheckTick
    <3>1. f = [Idle EXCEPT !.pc = "fills", !.tick = now, !.pending = PendingEntriesAsOf(now)]
      BY <1>0, <2>3 DEF ExitCheckTick, EngineType
    <3>2. PendingEntriesAsOf(now) = {}
      BY DEF PendingEntriesAsOf, Punctual, IsPending
    <3>3. QED  BY <3>1, <3>2 DEF Idle
  <2>4. CASE EndFills \/ ExitCheckFails
    <3>1. f = BookExits \/ f = Idle
      BY <1>0, <2>4 DEF EndFills, ExitCheckFails, EngineType
    <3>2. BookExits.pending = {} /\ BookExits.id = {} /\ Idle.pending = {} /\ Idle.id = {}
      BY DEF BookExits, Idle
    <3>3. QED  BY <3>1, <3>2
  <2>5. ASSUME NEW d \in ThesisIds, NoFill(d) \/ \E openedAt \in Instants : Fill(d, openedAt) PROVE FALSE
    BY <2>0, <2>5 DEF NoFill, Fill, NextPending
  <2>6. ASSUME NEW w \in Consumers, ConsumerStep(w) \/ Fail(w) PROVE f = e
    BY <1>0, <2>6, MovesAlone, ConsumersAssumption
  <2>7. CASE Tick \/ UNCHANGED vars
    BY <2>1, <2>7 DEF Tick, vars, engineVars
  <2>8. QED  BY <2>1, <2>2, <2>3, <2>4, <2>5, <2>6, <2>7 DEF EngineNext, ExitCheckStep
<1>4. QED  BY <1>1, <1>2, <1>3 DEF Punctual

-----------------------------------------------------------------------------
(* The rows of a ticker follow one another.                                 *)

\* An open row that closes is replaced by a commit of its ticker, or leaves by an exit
\* between its opening and the instant of the walk.
ClosedByCommit(q) ==
  \E p \in Processes, c \in Commits :
    /\ PutBy(p, c) /\ CommitAllowed(positions, c) /\ q # c.id /\ TickerOf(q) = TickerOf(c.id)
    /\ positions'[q] = ReplacedRow(positions[q], c)
ClosedByExit(q) ==
  \E p \in Processes :
    /\ positions'[q].state = "closed" /\ positions'[q].reason \notin ReplacedReasons
    /\ positions'[q].closedAt \in Nat /\ positions'[q].closedAt <= proc[p].asOf
    /\ HoldLimit > 0 => positions[q].openedAt < positions'[q].closedAt

LEMMA RowCloses ==
  ASSUME StoreInv, EngineInv, [EngineNext]_vars, NEW q \in ThesisIds,
         IsOpen(positions, q), ~IsOpen(positions', q)
  PROVE  ClosedByCommit(q) \/ ClosedByExit(q)
<1>0. /\ TypeOK /\ positions \in [ThesisIds -> RowType] /\ positions[q] \in RowType
      /\ touchedAt[q] \in Nat /\ HoldLimit \in Nat
  BY LimitsAssumption DEF StoreInv, TypeOK, EngineInv, EngineType
<1>1. ASSUME NEW p \in Processes, CommitDecision(p) PROVE ClosedByCommit(q)
  <2>1. PICK c \in Commits : PutBy(p, c)
    BY <1>1, CommitOf
  <2>2. /\ positions \in TableType /\ CloseOld(positions, c) \in TableType
        /\ positions' = OpenNew(CloseOld(positions, c), c)
    BY <1>0, <2>1, CommitTables DEF PutBy
  <2>3. positions'[q] = CloseOld(positions, c)[q] \/ positions'[q] = NewRow(c)
    BY <2>2, OpenNewRow
  <2>4. positions'[q] = CloseOld(positions, c)[q] /\ CloseOld(positions, c)[q] # positions[q]
    BY <2>3 DEF NewRow, IsOpen
  <2>5. /\ CommitAllowed(positions, c) /\ q # c.id /\ TickerOf(q) = TickerOf(c.id)
        /\ positions'[q] = ReplacedRow(positions[q], c)
    BY <2>2, <2>4, CloseOldRow
  <2>6. QED  BY <2>1, <2>5 DEF ClosedByCommit
<1>2. ASSUME NEW p \in Processes, NEW id \in ThesisIds, ExitPosition(p, id) PROVE ClosedByExit(q)
  <2>1. /\ HasRow(positions, id) /\ positions[id].openedAt <= proc[p].asOf
        /\ proc[p].asOf \in Instants /\ proc[p].asOf \in Nat
    BY <1>2, Visit, InstantsAssumption
  <2>2. ASSUME NEW at \in Nat, NEW reason \in {"stop_or_target", "time_based"}, CloseAndSettle(p, id, at, reason),
               at <= proc[p].asOf, id = q => (HoldLimit > 0 => positions[q].openedAt < at)
        PROVE  ClosedByExit(q)
    <3>1. ClosePosition(id, at, reason)
      BY <2>2 DEF CloseAndSettle
    <3>2. id = q
      BY <1>0, <3>1 DEF ClosePosition, IsOpen
    <3>3. positions'[q] = [positions[q] EXCEPT !.state = "closed", !.closedAt = at, !.reason = reason]
      BY <1>0, <3>1, <3>2 DEF ClosePosition, IsOpen
    <3>4. positions'[q].state = "closed" /\ positions'[q].closedAt = at /\ positions'[q].reason = reason
      BY <1>0, <3>3 DEF RowType
    <3>5. QED  BY <2>2, <3>2, <3>4 DEF ClosedByExit, ReplacedReasons
  <2>3. id = q => /\ DueAt(q) \in Nat /\ WalkUntil(q, proc[p].asOf) \in Nat
                  /\ WalkedTo(q) \in Nat /\ positions[q].openedAt <= WalkedTo(q) /\ positions[q].openedAt \in Nat
    BY <2>1, WalkFacts, RowFacts
  <2>4. CASE IsTouched(id, proc[p].asOf) /\ CloseAndSettle(p, id, touchedAt[id], "stop_or_target")
    <3>1. touchedAt[id] \in Nat
      BY DEF EngineInv, EngineType
    <3>2. CASE id = q
      <4>1. touchedAt[q] <= proc[p].asOf /\ positions[q].openedAt < touchedAt[q]
        BY <1>0, <2>1, <2>3, <2>4, <3>2 DEF IsTouched, WalkUntil
      <4>2. QED  BY <2>2, <2>4, <3>1, <3>2, <4>1
    <3>3. CASE id # q
      BY <1>0, <2>4, <3>3 DEF CloseAndSettle, ClosePosition, IsOpen
    <3>4. QED  BY <3>2, <3>3
  <2>5. CASE \E at \in TimeExitInstants(id, proc[p].asOf) : CloseAndSettle(p, id, at, "time_based")
    <3>1. PICK at \in TimeExitInstants(id, proc[p].asOf) : CloseAndSettle(p, id, at, "time_based")
      BY <2>5
    <3>2. at \in Nat /\ DueAt(id) <= at /\ at <= proc[p].asOf
      BY <3>1, InstantsAssumption DEF TimeExitInstants
    <3>3. id = q => (HoldLimit > 0 => positions[q].openedAt < at)
      BY <1>0, <2>3, <3>2 DEF DueAt
    <3>4. QED  BY <2>2, <3>1, <3>2, <3>3
  <2>6. CASE AdvancePositionCheck(id, WalkUntil(id, proc[p].asOf))
    BY <1>0, <2>6 DEF AdvancePositionCheck, IsOpen, RowType
  <2>7. QED  BY <1>2, <2>4, <2>5, <2>6 DEF ExitPosition
<1>3. ASSUME NEW w \in Consumers, Agents(w) \/ Gates(w) PROVE FALSE
  BY <1>3 DEF Agents, Gates, InsertTradeDecision, storeVars, IsOpen
<1>4. ASSUME NEW d \in ThesisIds, NoFill(d) PROVE FALSE
  BY <1>4 DEF NoFill, ExpirePendingEntry, storeVars, IsOpen
<1>5. QED  BY <1>1, <1>2, <1>3, <1>4, StepKinds DEF IsOpen

\* Positions open at their own instants, one after the other, and close after they opened.
RowInOrder(id) ==
  /\ HasRow(positions, id) => positions[id].openedAt = DecidedAt(id)
  /\ positions[id].state = "closed" => positions[id].openedAt < positions[id].closedAt /\ positions[id].closedAt <= now
Follows(q, id) ==
  HasRow(positions, id) /\ HasRow(positions, q) /\ TickerOf(id) = TickerOf(q) /\ DecidedAt(id) < DecidedAt(q)
    => positions[id].state = "closed" /\ positions[id].closedAt <= DecidedAt(q)
RowsInOrder ==
  /\ \A id \in ThesisIds : RowInOrder(id)
  /\ \A id, q \in ThesisIds : Follows(q, id)

LEMMA StateOf ==
  ASSUME NEW table \in [ThesisIds -> RowType], NEW id \in ThesisIds
  PROVE  /\ HasRow(table, id) <=> IsOpen(table, id) \/ table[id].state = "closed"
         /\ table[id].openedAt \in Nat /\ table[id].closedAt \in Nat
<1>1. table[id] \in RowType
  OBVIOUS
<1>2. table[id].openedAt \in Instants \cup {0} /\ table[id].closedAt \in Instants \cup {0}
  BY <1>1 DEF RowType
<1>3. QED  BY <1>1, <1>2, InstantIsNat DEF RowType, HasRow, IsOpen

LEMMA RowInOrderStep ==
  ASSUME Base, Punctual, RowsInOrder, [EngineNext]_vars, HoldLimit > 0, NEW id \in ThesisIds
  PROVE  RowInOrder(id)'
<1>0. /\ StoreInv /\ EngineInv /\ StoreInv' /\ RowsKept /\ now \in Nat /\ now' \in Nat /\ now <= now'
      /\ positions[id].openedAt \in Nat /\ positions[id].closedAt \in Nat
      /\ positions'[id].openedAt \in Nat /\ positions'[id].closedAt \in Nat
      /\ HasRow(positions', id) <=> IsOpen(positions', id) \/ positions'[id].state = "closed"
      /\ HasRow(positions, id) <=> IsOpen(positions, id) \/ positions[id].state = "closed"
  <2>1. StoreInv /\ EngineInv /\ StoreInv' /\ RowsKept
    BY StepIsCall, StoreInvStep, StoreKeepsRows DEF Base
  <2>2. positions \in [ThesisIds -> RowType] /\ positions' \in [ThesisIds -> RowType]
    BY <2>1 DEF StoreInv, TypeOK
  <2>3. QED  BY <2>1, <2>2, NowGrows, StateOf
<1>1. CASE ~HasRow(positions, id) /\ HasRow(positions', id)
  <2>1. PICK p \in Processes, c \in Commits : PutBy(p, c) /\ c.id = id /\ positions'[id] = NewRow(c)
    BY <1>0, <1>1, RowIsNew
  <2>2. QED  BY <2>1, Committer DEF NewRow, RowInOrder
<1>2. CASE ~HasRow(positions', id)
  BY <1>0, <1>2 DEF RowInOrder
<1>3. CASE HasRow(positions, id)
  <2>1. positions'[id].openedAt = positions[id].openedAt /\ positions[id].openedAt = DecidedAt(id)
    BY <1>0, <1>3 DEF RowsKept, RowsInOrder, RowInOrder
  <2>2. CASE positions[id].state = "closed"
    BY <1>0, <2>1, <2>2 DEF RowsKept, RowsInOrder, RowInOrder
  <2>3. CASE IsOpen(positions', id)
    BY <2>1, <2>3 DEF IsOpen, RowInOrder
  <2>4. CASE IsOpen(positions, id) /\ ~IsOpen(positions', id)
    <3>1. CASE ClosedByExit(id)
      <4>1. PICK p \in Processes : positions'[id].closedAt <= proc[p].asOf /\ positions[id].openedAt < positions'[id].closedAt
        BY <3>1 DEF ClosedByExit
      <4>2. proc[p].asOf <= now /\ proc[p].asOf \in Nat
        <5>1. proc[p].asOf \in Instants \cup {0}
          BY <1>0 DEF EngineInv, EngineType, ProcType
        <5>2. QED  BY <5>1, InstantIsNat DEF Base, NotAhead, Timely
      <4>3. QED  BY <1>0, <2>1, <4>1, <4>2 DEF RowInOrder
    <3>2. CASE ClosedByCommit(id)
      <4>1. PICK p \in Processes, c \in Commits :
              /\ PutBy(p, c) /\ id # c.id /\ TickerOf(id) = TickerOf(c.id)
              /\ positions'[id] = ReplacedRow(positions[id], c)
        BY <3>2 DEF ClosedByCommit
      <4>2. c.asOf = now /\ DecidedAt(c.id) = now /\ c.id \in ThesisIds
        BY <4>1, Committer
      <4>3. positions[id] \in RowType
        BY <1>0 DEF StoreInv, TypeOK
      <4>4. positions'[id].closedAt = now
        BY <4>1, <4>2, <4>3, ReplacedRowFields
      <4>5. DecidedAt(id) # now
        BY <4>1, <4>2, SameTime
      <4>6. positions[id].openedAt <= now
        BY <1>3 DEF Base, NotAhead
      <4>7. QED  BY <1>0, <2>1, <4>4, <4>5, <4>6 DEF RowInOrder
    <3>3. QED  BY <1>0, <2>4, <3>1, <3>2, RowCloses
  <2>5. QED  BY <1>0, <1>3, <2>2, <2>3, <2>4
<1>4. QED  BY <1>1, <1>2, <1>3

LEMMA FollowsStep ==
  ASSUME Base, Punctual, RowsInOrder, [EngineNext]_vars, HoldLimit > 0, NEW id \in ThesisIds, NEW q \in ThesisIds
  PROVE  Follows(q, id)'
<1> SUFFICES ASSUME HasRow(positions', id), HasRow(positions', q), TickerOf(id) = TickerOf(q),
                    DecidedAt(id) < DecidedAt(q)
             PROVE  positions'[id].state = "closed" /\ positions'[id].closedAt <= DecidedAt(q)
  BY DEF Follows
<1>0. /\ StoreInv /\ EngineInv /\ StoreInv' /\ RowsKept /\ now \in Nat
      /\ DecidedAt(id) \in Nat /\ DecidedAt(q) \in Nat
      /\ RowInOrder(id)' /\ (now' # now => Tick)
      /\ HasRow(positions', id) <=> IsOpen(positions', id) \/ positions'[id].state = "closed"
  <2>1. StoreInv /\ EngineInv /\ StoreInv' /\ RowsKept
    BY StepIsCall, StoreInvStep, StoreKeepsRows DEF Base
  <2>2. positions \in [ThesisIds -> RowType] /\ positions' \in [ThesisIds -> RowType]
    BY <2>1 DEF StoreInv, TypeOK
  <2>3. QED  BY <2>1, <2>2, NowGrows, StateOf, DecidedNat, RowInOrderStep
<1>1. CASE HasRow(positions, id) /\ HasRow(positions, q)
  BY <1>0, <1>1 DEF RowsKept, RowsInOrder, Follows
<1>2. CASE ~HasRow(positions, q)
  <2>1. PICK p \in Processes, c \in Commits :
          PutBy(p, c) /\ c.id = q /\ OpenRowsOf(positions', TickerOf(q)) = {q}
    BY <1>0, <1>2, RowIsNew
  <2>2. DecidedAt(q) = now
    BY <2>1, Committer
  <2>3. ~IsOpen(positions', id)
    BY <1>0, <2>1 DEF OpenRowsOf
  <2>4. positions'[id].state = "closed" /\ positions'[id].closedAt <= now'
    BY <1>0, <2>3 DEF RowInOrder
  <2>5. now' = now
    BY <1>0, <1>2, <2>1 DEF Tick, storeVars
  <2>6. QED  BY <2>2, <2>4, <2>5
<1>3. CASE ~HasRow(positions, id) /\ HasRow(positions, q)
  <2>1. PICK p \in Processes, c \in Commits : PutBy(p, c) /\ c.id = id
    BY <1>0, <1>3, RowIsNew
  <2>2. DecidedAt(id) = now
    BY <2>1, Committer
  <2>3. positions[q].openedAt = DecidedAt(q) /\ positions[q].openedAt <= now
    BY <1>3 DEF RowsInOrder, RowInOrder, Base, NotAhead
  <2>4. QED  BY <1>0, <2>2, <2>3
<1>4. QED  BY <1>1, <1>2, <1>3

-----------------------------------------------------------------------------
(* What a consumer read of its ticker is still the book when it commits: no  *)
(* other commit of that ticker comes in between.                            *)

\* The open rows of its ticker are among what it read, and when it read none, it has no row.
KnowsBook(w) ==
  proc[w].pc \in PreCommit \ {"portfolio"} =>
    /\ OpenRowsOf(positions, TickerOf(IdOf(w))) \subseteq proc[w].existing
    /\ proc[w].existing = {} => ~HasRow(positions, IdOf(w))
\* The rows it has walked are closed or were not touched.
HasWalked(w) ==
  proc[w].pc = "exiting" =>
    \A q \in OpenRowsOf(positions, TickerOf(IdOf(w))) \ proc[w].todo : ~TouchedInLife(q, proc[w].asOf)
\* The rows its commit may replace were not touched.
MayFlip(w) ==
  proc[w].pc = "commit" =>
    \A q \in OpenRowsOf(positions, TickerOf(IdOf(w))) \ {IdOf(w)} :
      HeldBy(ThesisFor(w), positions[q]) \/ ~TouchedInLife(q, proc[w].asOf)
\* A marker that went with the commit leaves nothing to settle.
NoneReplaced(w) ==
  proc[w].pc = "committed" /\ proc[w].folded => UnsettledReplaced(TickerOf(IdOf(w)), proc[w].asOf) = {}
ReadOK(w) == KnowsBook(w) /\ HasWalked(w) /\ MayFlip(w) /\ NoneReplaced(w)

LEMMA MemoryStays ==
  ASSUME StoreInv, [Next]_storeVars, NEW q \in ThesisIds, memory'[q] = NoMemory
  PROVE  memory[q] = NoMemory
<1>1. CASE Settle
  BY <1>1 DEF Settle, RecordDecisionOutcome, StoreInv, TypeOK
<1>2. CASE ~Settle
  BY <1>2 DEF Next, Commit, CommitThesis, Close, ClosePosition, Check, AdvancePositionCheck, Decide, InsertTradeDecision,
              Expire, ExpirePendingEntry, storeVars
<1>3. QED  BY <1>1, <1>2

LEMMA OwnTicker ==
  ASSUME Base, Punctual, NEW w \in Consumers, proc[w].pc # "idle",
         NEW p \in Processes, NEW c \in Commits, PutBy(p, c), TickerOf(c.id) = TickerOf(IdOf(w))
  PROVE  p = w /\ c.id = IdOf(w)
<1>1. p \in Consumers /\ c.id = IdOf(p) /\ DecidedAt(c.id) = now /\ c.id \in ThesisIds /\ proc[p].pc # "idle"
  BY Committer DEF PutBy
<1>2. c.id = IdOf(w)
  BY <1>1, InTime, SameTime
<1>3. QED  BY <1>1, <1>2, OneConsumer DEF Base

LEMMA BookShrinks ==
  ASSUME Base, Punctual, [EngineNext]_vars, NEW w \in Consumers, proc[w].pc # "idle", ~CommitDecision(w),
         NEW q \in ThesisIds, TickerOf(q) = TickerOf(IdOf(w))
  PROVE  /\ HasRow(positions', q) => HasRow(positions, q)
         /\ IsOpen(positions', q) => IsOpen(positions, q)
         /\ positions'[q].state = "closed" /\ positions'[q].reason \in ReplacedReasons /\ memory'[q] = NoMemory
              => positions'[q] = positions[q] /\ memory[q] = NoMemory
<1>0. /\ StoreInv /\ EngineInv /\ [Next]_storeVars /\ RowsKept
      /\ HasRow(positions', q) <=> IsOpen(positions', q) \/ positions'[q].state = "closed"
      /\ HasRow(positions, q) <=> IsOpen(positions, q) \/ positions[q].state = "closed"
  <2>1. StoreInv /\ EngineInv /\ [Next]_storeVars /\ StoreInv' /\ RowsKept
    BY StepIsCall, StoreInvStep, StoreKeepsRows DEF Base
  <2>2. positions \in [ThesisIds -> RowType] /\ positions' \in [ThesisIds -> RowType]
    BY <2>1 DEF StoreInv, TypeOK
  <2>3. QED  BY <2>1, <2>2, StateOf
<1>1. ASSUME NEW p \in Processes, NEW c \in Commits, PutBy(p, c), TickerOf(c.id) = TickerOf(q) PROVE FALSE
  BY <1>1, OwnTicker, Committer
<1>2. HasRow(positions', q) => HasRow(positions, q)
  BY <1>0, <1>1, RowIsNew
<1>3. IsOpen(positions', q) => IsOpen(positions, q)
  BY <1>0, <1>2 DEF RowsKept, IsOpen, HasRow
<1>4. ASSUME IsOpen(positions, q), ~IsOpen(positions', q) PROVE positions'[q].reason \notin ReplacedReasons
  BY <1>0, <1>1, <1>4, RowCloses DEF ClosedByCommit, ClosedByExit
<1>5. positions'[q].state = "closed" /\ positions'[q].reason \in ReplacedReasons => positions'[q] = positions[q]
  BY <1>0, <1>2, <1>4 DEF RowsKept, IsOpen
<1>6. QED  BY <1>0, <1>2, <1>3, <1>5, MemoryStays

LEMMA LifeStays ==
  ASSUME Base, [EngineNext]_vars, NEW q \in ThesisIds, HasRow(positions, q), NEW asOf
  PROVE  TouchedInLife(q, asOf)' <=> TouchedInLife(q, asOf)
<1>1. positions'[q].openedAt = positions[q].openedAt
  BY StepIsCall, StoreKeepsRows DEF Base, RowsKept
<1>2. touchedAt' = touchedAt
  BY OnlyTheTick
<1>3. QED  BY <1>1, <1>2 DEF TouchedInLife, WalkUntil, DueAt

\* The steps of others leave a consumer's work alone.
LEMMA Undisturbed ==
  ASSUME Base, [EngineNext]_vars, NEW w \in Consumers, proc[w].pc # "idle", ~(ConsumerStep(w) \/ Fail(w))
  PROVE  proc'[w] = proc[w] /\ IdOf(w)' = IdOf(w) /\ ThesisFor(w)' = ThesisFor(w)
<1>0. StoreInv /\ EngineInv /\ EngineType
  BY DEF Base, EngineInv
<1>1. PICK i \in Items : Holds(w, i) /\ ItemOf(w) = i
  BY <1>0, AtWork
<1>2. ASSUME NEW v \in Consumers \ {w}, ConsumerStep(v) \/ Fail(v)
      PROVE  proc'[w] = proc[w] /\ checkpoints'[i] = checkpoints[i]
  <2>1. proc'[w] = proc[w]
    BY <1>0, <1>2, MovesAlone DEF Processes
  <2>2. CASE checkpoints' = checkpoints
    BY <2>1, <2>2
  <2>3. CASE checkpoints' # checkpoints
    <3>1. Agents(v) \/ Gates(v) \/ CommitDecision(v) \/ EndSettling(v)
      BY <1>2, <2>3 DEF ConsumerStep, SharedStep, Fail, StartExits, SettleExit, EndExits, FindReplaced,
                        ExitPosition, SettleReplaced, ReadBook, Ack, Receive
    <3>2. PICK j \in Items : Holds(v, j) /\ ItemOf(v) = j /\ \A u \in Consumers \ {v} : proc[u].item # {j}
      BY <1>0, <3>1, AtWork DEF Agents, Gates, CommitDecision, EndSettling
    <3>3. i # j
      BY <1>1, <3>2 DEF Holds
    <3>4. \/ MarkDone(j)
          \/ \E thesis : checkpoints' = [checkpoints EXCEPT ![j] = [stage |-> "traded", thesis |-> thesis]]
      BY <2>3, <3>1, <3>2 DEF Agents, Gates, CommitDecision, EndSettling
    <3>5. checkpoints'[i] = checkpoints[i]
      BY <1>0, <3>3, <3>4 DEF MarkDone, EngineType
    <3>6. QED  BY <2>1, <3>5
  <2>4. QED  BY <2>2, <2>3
<1>3. proc'[w] = proc[w] /\ checkpoints'[i] = checkpoints[i]
  <2>1. CASE ExitCheckStep \/ ExitCheckFails \/ Tick \/ UNCHANGED vars
    BY <2>1, <1>0, ConsumersUndisturbed
  <2>2. QED  BY <1>2, <2>1 DEF EngineNext
<1>4. IdOf(w)' = IdOf(w) /\ ItemOf(w)' = i
  BY <1>1, <1>3 DEF IdOf, ItemOf
<1>5. ThesisFor(w)' = ThesisFor(w)
  BY <1>1, <1>3, <1>4, ConsumersAssumption DEF ThesisFor
<1>6. QED  BY <1>3, <1>4, <1>5

LEMMA ReadsBook ==
  ASSUME Base, Punctual, RowsInOrder, NEW w \in Consumers, proc[w].pc # "idle",
         NEW existing \in OpenPositionForTickerAsOf(TickerOf(IdOf(w)), proc[w].asOf)
  PROVE  /\ OpenRowsOf(positions, TickerOf(IdOf(w))) \subseteq existing
         /\ existing = {} => ~HasRow(positions, IdOf(w))
<1>0. /\ proc[w].asOf = now /\ now \in Nat /\ IdOf(w) \in ThesisIds /\ DecidedAt(IdOf(w)) = now
      /\ positions \in [ThesisIds -> RowType] /\ OneOpenPerTicker
  BY InTime DEF Base, StoreInv, TypeOK
<1> DEFINE ticker == TickerOf(IdOf(w))
           rows == {p \in OpenPositionsAsOf(positions, now) : TickerOf(p) = ticker}
<1>1. ASSUME NEW q \in ThesisIds
      PROVE  /\ HasRow(positions, q) <=> IsOpen(positions, q) \/ positions[q].state = "closed"
             /\ positions[q].openedAt \in Nat /\ positions[q].closedAt \in Nat
             /\ IsOpenAsOf(positions, q, now) <=> IsOpen(positions, q)
  <2>1. /\ HasRow(positions, q) <=> IsOpen(positions, q) \/ positions[q].state = "closed"
        /\ positions[q].openedAt \in Nat /\ positions[q].closedAt \in Nat
    BY <1>0, StateOf
  <2>2. HasRow(positions, q) => positions[q].openedAt <= now
    BY DEF Base, NotAhead
  <2>3. positions[q].state = "closed" => positions[q].closedAt <= now
    BY DEF RowsInOrder, RowInOrder
  <2>4. QED  BY <1>0, <2>1, <2>2, <2>3 DEF IsOpenAsOf
<1>2. rows = OpenRowsOf(positions, ticker)
  BY <1>1 DEF OpenPositionsAsOf, OpenRowsOf
<1>3. IF rows = {} THEN existing = {} ELSE \E p \in rows : existing = {p}
  BY <1>0 DEF OpenPositionForTickerAsOf
<1>4. \A p, q \in rows : p = q
  BY <1>0, <1>2 DEF OneOpenPerTicker, OpenRowsOf
<1>5. OpenRowsOf(positions, ticker) \subseteq existing
  BY <1>2, <1>3, <1>4
<1>6. ASSUME existing = {} PROVE ~HasRow(positions, IdOf(w))
  <2>1. ~IsOpen(positions, IdOf(w))
    BY <1>0, <1>2, <1>3, <1>6 DEF OpenRowsOf
  <2>2. positions[IdOf(w)].state # "closed"
    BY <1>0, <1>1 DEF RowsInOrder, RowInOrder
  <2>3. QED  BY <1>0, <1>1, <2>1, <2>2
<1>7. QED  BY <1>5, <1>6

\* The steps towards the commit keep what was read.
LEMMA ReadKept ==
  ASSUME Base, NEW w \in Consumers, Gates(w) \/ StartExits(w) \/ SettleExit(w) \/ EndExits(w)
                                      \/ \E id \in ThesisIds : ExitPosition(w, id)
  PROVE  proc'[w].existing = proc[w].existing \/ proc'[w].pc = "idle"
<1>0. EngineType /\ proc[w] \in ProcType /\ w \in Processes
  BY DEF Base, EngineInv, EngineType, Processes
<1>1. CASE Gates(w)
  <2>1. \E pc : Goto(w, pc)
    BY <1>1 DEF Gates
  <2>2. QED  BY <1>0, <2>1 DEF Goto, EngineType, ProcType
<1>2. CASE StartExits(w)
  BY <1>0, <1>2 DEF StartExits, EngineType, ProcType
<1>3. CASE SettleExit(w)
  BY <1>0, <1>3 DEF SettleExit, EngineType, ProcType
<1>4. CASE EndExits(w)
  BY <1>0, <1>4 DEF EndExits, Goto, Idle, EngineType, ProcType
<1>5. ASSUME NEW id \in ThesisIds, ExitPosition(w, id) PROVE proc'[w].existing = proc[w].existing
  <2>1. CASE proc' = [proc EXCEPT ![w].todo = @ \ {id}]
    BY <1>0, <2>1 DEF EngineType, ProcType
  <2>2. ASSUME NEW at, NEW reason, CloseAndSettle(w, id, at, reason) PROVE proc'[w].existing = proc[w].existing
    BY <1>0, <2>2 DEF CloseAndSettle, EngineType, ProcType
  <2>3. QED  BY <1>5, <2>1, <2>2 DEF ExitPosition
<1>6. QED  BY <1>1, <1>2, <1>3, <1>4, <1>5

LEMMA Goes ==
  ASSUME Base, NEW w \in Consumers, ConsumerStep(w) \/ Fail(w),
         proc'[w].pc \in {"gates", "exits", "exiting", "commit", "committed"}
  PROVE  /\ proc[w].pc # "idle" /\ proc'[w].pc # "idle"
         /\ IdOf(w)' = IdOf(w) /\ ItemOf(w)' = ItemOf(w) /\ proc'[w].asOf = proc[w].asOf
<1>1. proc[w].pc # "idle" /\ proc'[w].pc # "idle"
  BY Arrives DEF Base, ReadBook, Gates, StartExits, SettleExit, ExitPosition, EndExits, CommitDecision
<1>2. QED  BY <1>1, OneWork DEF Base

LEMMA KnowsBookStep ==
  ASSUME Base, Punctual, RowsInOrder, [EngineNext]_vars, NEW w \in Consumers, KnowsBook(w)
  PROVE  KnowsBook(w)'
<1> SUFFICES ASSUME proc'[w].pc \in {"gates", "exits", "exiting", "commit"}
             PROVE  /\ OpenRowsOf(positions', TickerOf(IdOf(w)')) \subseteq proc'[w].existing
                    /\ proc'[w].existing = {} => ~HasRow(positions', IdOf(w)')
  BY DEF KnowsBook, PreCommit
<1>1. proc[w].pc # "idle" /\ IdOf(w)' = IdOf(w)
  <2>1. CASE ConsumerStep(w) \/ Fail(w)
    BY <2>1, Goes
  <2>2. CASE ~(ConsumerStep(w) \/ Fail(w))
    <3>1. proc'[w] = proc[w]
      <4>1. CASE ExitCheckStep \/ ExitCheckFails \/ Tick \/ UNCHANGED vars
        BY <4>1, ConsumersUndisturbed DEF Base
      <4>2. ASSUME NEW v \in Consumers, ConsumerStep(v) \/ Fail(v) PROVE proc'[w] = proc[w]
        BY <2>2, <4>2, MovesAlone DEF Base, Processes
      <4>3. QED  BY <4>1, <4>2 DEF EngineNext
    <3>2. QED  BY <3>1 DEF IdOf
  <2>3. QED  BY <2>1, <2>2
<1>2. ~CommitDecision(w)
  BY DEF CommitDecision, Base, EngineInv, EngineType, ProcType, Processes
<1>3. IdOf(w) \in ThesisIds
  BY <1>1, InTime
<1>4. SUFFICES /\ OpenRowsOf(positions, TickerOf(IdOf(w))) \subseteq proc'[w].existing
               /\ proc'[w].existing = {} => ~HasRow(positions, IdOf(w))
  BY <1>1, <1>2, <1>3, BookShrinks DEF OpenRowsOf
<1>5. CASE ReadBook(w)
  <2>1. PICK existing \in OpenPositionForTickerAsOf(TickerOf(IdOf(w)), proc[w].asOf) :
          proc' = [proc EXCEPT ![w].pc = "gates", ![w].existing = existing]
    BY <1>5 DEF ReadBook
  <2>2. proc'[w].existing = existing
    BY <2>1 DEF Base, EngineInv, EngineType, ProcType, Processes
  <2>3. QED  BY <1>1, <2>2, ReadsBook
<1>6. ASSUME proc[w].pc \in PreCommit \ {"portfolio"}, proc'[w].existing = proc[w].existing
      PROVE  /\ OpenRowsOf(positions, TickerOf(IdOf(w))) \subseteq proc'[w].existing
             /\ proc'[w].existing = {} => ~HasRow(positions, IdOf(w))
  BY <1>6 DEF KnowsBook
<1>7. CASE (ConsumerStep(w) \/ Fail(w)) /\ ~ReadBook(w)
  <2>1. Gates(w) \/ StartExits(w) \/ SettleExit(w) \/ EndExits(w) \/ \E id \in ThesisIds : ExitPosition(w, id)
    BY <1>7, Arrives DEF Base
  <2>2. proc[w].pc \in PreCommit \ {"portfolio"}
    BY <2>1 DEF Gates, StartExits, SettleExit, EndExits, ExitPosition, PreCommit
  <2>3. QED  BY <1>6, <2>1, <2>2, ReadKept
<1>8. CASE ~(ConsumerStep(w) \/ Fail(w))
  BY <1>1, <1>6, <1>8, Undisturbed DEF PreCommit
<1>9. QED  BY <1>5, <1>7, <1>8

LEMMA HasWalkedStep ==
  ASSUME Base, Punctual, RowsInOrder, [EngineNext]_vars, NEW w \in Consumers, HasWalked(w)
  PROVE  HasWalked(w)'
<1> SUFFICES ASSUME proc'[w].pc = "exiting", NEW q \in ThesisIds, IsOpen(positions', q),
                    TickerOf(q) = TickerOf(IdOf(w)'), q \notin proc'[w].todo
             PROVE  ~TouchedInLife(q, proc[w].asOf)'
  BY DEF HasWalked, OpenRowsOf
<1>0. /\ EngineType /\ StoreInv /\ EngineInv /\ w \in Processes /\ proc[w] \in ProcType
      /\ touchedAt[q] \in Nat /\ HoldLimit \in Nat
  BY LimitsAssumption DEF Base, EngineInv, EngineType, Processes
<1>1. ASSUME proc[w].pc # "idle", ~CommitDecision(w), IdOf(w)' = IdOf(w), proc'[w].asOf = proc[w].asOf,
             ~TouchedInLife(q, proc[w].asOf)
      PROVE  ~TouchedInLife(q, proc[w].asOf)'
  <2>1. IsOpen(positions, q) /\ HasRow(positions, q)
    BY <1>1, BookShrinks DEF IsOpen, HasRow
  <2>2. PICK asOf : asOf = proc[w].asOf
    OBVIOUS
  <2>3. ~TouchedInLife(q, asOf)'
    BY <1>1, <2>1, <2>2, LifeStays
  <2>4. QED  BY <1>1, <2>2, <2>3 DEF TouchedInLife, WalkUntil
<1>2. CASE ~(ConsumerStep(w) \/ Fail(w))
  <2>1. proc'[w] = proc[w]
    <3>1. CASE ExitCheckStep \/ ExitCheckFails \/ Tick \/ UNCHANGED vars
      BY <1>0, <3>1, ConsumersUndisturbed
    <3>2. ASSUME NEW v \in Consumers, ConsumerStep(v) \/ Fail(v) PROVE proc'[w] = proc[w]
      BY <1>0, <1>2, <3>2, MovesAlone
    <3>3. QED  BY <3>1, <3>2 DEF EngineNext
  <2>2. proc[w].pc = "exiting" /\ IdOf(w)' = IdOf(w) /\ ~CommitDecision(w)
    BY <2>1 DEF IdOf, CommitDecision
  <2>3. IsOpen(positions, q)
    BY <2>2, BookShrinks
  <2>4. ~TouchedInLife(q, proc[w].asOf)
    BY <2>1, <2>2, <2>3 DEF HasWalked, OpenRowsOf
  <2>5. QED  BY <1>1, <2>1, <2>2, <2>4
<1>3. CASE ConsumerStep(w) \/ Fail(w)
  <2>1. /\ proc[w].pc # "idle" /\ IdOf(w)' = IdOf(w) /\ proc'[w].asOf = proc[w].asOf /\ ~CommitDecision(w)
    <3>1. CommitDecision(w) => proc'[w].pc = "committed"
      BY <1>0 DEF CommitDecision, EngineType, ProcType
    <3>2. QED  BY <1>3, <3>1, Goes
  <2>2. IsOpen(positions, q) /\ HasRow(positions, q) /\ TickerOf(q) = TickerOf(IdOf(w))
    BY <2>1, BookShrinks DEF IsOpen, HasRow
  <2>3. /\ proc[w].asOf = now /\ now \in Nat /\ positions[q].openedAt \in Nat /\ positions[q].openedAt <= now
    BY <1>0, <2>1, <2>2, InTime, RowFacts DEF Base, NotAhead
  <2>4. CASE StartExits(w)
    <3>1. proc'[w].todo = {r \in OpenPositionsAsOf(positions, proc[w].asOf) : TickerOf(r) = TickerOf(IdOf(w))}
      <4>1. proc[w].id # {}
        BY <1>0, <2>1, AtWork DEF Holds
      <4>2. QED  BY <1>0, <2>4, <4>1 DEF StartExits, EngineType, ProcType
    <3>2. q \in proc'[w].todo
      BY <2>2, <2>3, <3>1 DEF OpenPositionsAsOf, IsOpenAsOf
    <3>3. QED  BY <3>2
  <2>5. CASE SettleExit(w)
    <3>1. proc'[w].todo = proc[w].todo /\ proc[w].pc = "exiting"
      BY <1>0, <2>5 DEF SettleExit, EngineType, ProcType
    <3>2. ~TouchedInLife(q, proc[w].asOf)
      BY <2>2, <3>1 DEF HasWalked, OpenRowsOf
    <3>3. QED  BY <1>1, <2>1, <3>2
  <2>6. ASSUME NEW id \in ThesisIds, ExitPosition(w, id) PROVE ~TouchedInLife(q, proc[w].asOf)'
    <3>0. proc[w].pc = "exiting"
      BY <2>6 DEF ExitPosition
    <3>1. proc'[w].todo = proc[w].todo \ {id}
      <4>1. CASE proc' = [proc EXCEPT ![w].todo = @ \ {id}]
        BY <1>0, <4>1 DEF EngineType, ProcType
      <4>2. ASSUME NEW at, NEW reason, CloseAndSettle(w, id, at, reason) PROVE proc'[w].todo = proc[w].todo \ {id}
        BY <1>0, <4>2 DEF CloseAndSettle, EngineType, ProcType
      <4>3. QED  BY <2>6, <4>1, <4>2 DEF ExitPosition
    <3>2. CASE q # id
      <4>1. ~TouchedInLife(q, proc[w].asOf)
        BY <2>2, <3>0, <3>1, <3>2 DEF HasWalked, OpenRowsOf
      <4>2. QED  BY <1>1, <2>1, <4>1
    <3>3. CASE q = id
      <4>1. ~IsTouched(q, proc[w].asOf)
        <5>1. ASSUME NEW at, NEW reason, CloseAndSettle(w, id, at, reason) PROVE FALSE
          BY <1>0, <3>3, <5>1 DEF CloseAndSettle, ClosePosition, IsOpen, StoreInv, TypeOK, RowType
        <5>2. QED  BY <2>6, <3>3, <5>1 DEF ExitPosition
      <4>2. /\ DueAt(q) \in Nat /\ WalkUntil(q, proc[w].asOf) \in Nat /\ positions[q].lastCheckedAt \in Nat
        <5>1. proc[w].asOf \in Instants
          BY <2>6, Visit, <1>0
        <5>2. QED  BY <1>0, <2>2, <2>3, <5>1, WalkFacts, RowFacts
      <4>3. ~TouchedInLife(q, positions[q].lastCheckedAt)
        BY <2>2 DEF Base, NoTouchSkipped
      <4>4. ~TouchedInLife(q, proc[w].asOf)
        BY <1>0, <2>3, <4>1, <4>2, <4>3 DEF IsTouched, TouchedInLife, WalkedTo, WalkUntil
      <4>5. QED  BY <1>1, <2>1, <4>4
    <3>4. QED  BY <3>2, <3>3
  <2>7. QED  BY <1>0, <1>3, <2>4, <2>5, <2>6, Arrives
<1>4. QED  BY <1>2, <1>3

LEMMA MayFlipStep ==
  ASSUME Base, Punctual, RowsInOrder, [EngineNext]_vars, NEW w \in Consumers, ReadOK(w)
  PROVE  MayFlip(w)'
<1> SUFFICES ASSUME proc'[w].pc = "commit", NEW q \in ThesisIds, IsOpen(positions', q),
                    TickerOf(q) = TickerOf(IdOf(w)'), q # IdOf(w)'
             PROVE  HeldBy(ThesisFor(w)', positions'[q]) \/ ~TouchedInLife(q, proc[w].asOf)'
  BY DEF MayFlip, OpenRowsOf
<1>0. EngineType /\ StoreInv /\ EngineInv /\ w \in Processes /\ w # ExitCheck /\ proc[w] \in ProcType
  BY ConsumersAssumption DEF Base, EngineInv, EngineType, Processes
<1>1. ASSUME proc[w].pc # "idle", ~CommitDecision(w), IdOf(w)' = IdOf(w), proc'[w].asOf = proc[w].asOf,
             ThesisFor(w)' = ThesisFor(w), HeldBy(ThesisFor(w), positions[q]) \/ ~TouchedInLife(q, proc[w].asOf)
      PROVE  HeldBy(ThesisFor(w)', positions'[q]) \/ ~TouchedInLife(q, proc[w].asOf)'
  <2>1. HasRow(positions, q)
    BY <1>1, BookShrinks DEF IsOpen, HasRow
  <2>2. positions'[q].thesis = positions[q].thesis
    BY <1>0, <2>1, StepIsCall, StoreKeepsRows DEF RowsKept
  <2>3. PICK asOf : asOf = proc[w].asOf
    OBVIOUS
  <2>4. ~TouchedInLife(q, asOf) => ~TouchedInLife(q, asOf)'
    BY <2>1, LifeStays
  <2>5. TouchedInLife(q, proc[w].asOf)' <=> TouchedInLife(q, asOf)'
    BY <1>1, <2>3 DEF TouchedInLife, WalkUntil
  <2>6. QED  BY <1>1, <2>2, <2>3, <2>4, <2>5 DEF HeldBy
<1>2. CASE ~(ConsumerStep(w) \/ Fail(w))
  <2>1. proc[w].pc # "idle"
    <3>1. SUFFICES ASSUME proc[w].pc = "idle" PROVE proc'[w] = proc[w]
      OBVIOUS
    <3>2. CASE ExitCheckStep \/ ExitCheckFails \/ Tick \/ UNCHANGED vars
      BY <1>0, <3>2, ConsumersUndisturbed
    <3>3. ASSUME NEW v \in Consumers, ConsumerStep(v) \/ Fail(v) PROVE proc'[w] = proc[w]
      BY <1>0, <1>2, <3>3, MovesAlone
    <3>4. QED  BY <3>2, <3>3 DEF EngineNext
  <2>2. proc'[w] = proc[w] /\ IdOf(w)' = IdOf(w) /\ ThesisFor(w)' = ThesisFor(w) /\ ~CommitDecision(w)
    BY <1>2, <2>1, Undisturbed DEF ConsumerStep, SharedStep
  <2>3. IsOpen(positions, q)
    BY <2>1, <2>2, BookShrinks
  <2>4. HeldBy(ThesisFor(w), positions[q]) \/ ~TouchedInLife(q, proc[w].asOf)
    BY <2>2, <2>3 DEF ReadOK, MayFlip, OpenRowsOf
  <2>5. QED  BY <1>1, <2>1, <2>2, <2>4
<1>3. CASE ConsumerStep(w) \/ Fail(w)
  <2>1. /\ proc[w].pc # "idle" /\ IdOf(w)' = IdOf(w) /\ ItemOf(w)' = ItemOf(w)
        /\ proc'[w].asOf = proc[w].asOf /\ ~CommitDecision(w)
    <3>1. CommitDecision(w) => proc'[w].pc = "committed"
      BY <1>0 DEF CommitDecision, EngineType, ProcType
    <3>2. QED  BY <1>3, <3>1, Goes
  <2>2. IsOpen(positions, q) /\ TickerOf(q) = TickerOf(IdOf(w))
    BY <2>1, BookShrinks
  <2>3. checkpoints' = checkpoints => ThesisFor(w)' = ThesisFor(w)
    BY <1>0, <2>1 DEF ThesisFor
  <2>4. CASE Gates(w)
    <3>1. /\ checkpoints' = checkpoints
          /\ Goto(w, AfterReading(proc[w].existing, IdOf(w), ThesisFor(w)))
      <4>1. Goto(w, "ack") => proc'[w].pc = "ack"
        BY <1>0 DEF Goto, EngineType, ProcType
      <4>2. QED  BY <2>4, <4>1 DEF Gates
    <3>2. AfterReading(proc[w].existing, IdOf(w), ThesisFor(w)) = "commit"
      BY <1>0, <3>1 DEF Goto, EngineType, ProcType
    <3>3. q \in proc[w].existing
      <4>1. proc[w].pc \in PreCommit \ {"portfolio"}
        BY <2>4 DEF Gates, PreCommit
      <4>2. QED  BY <2>2, <4>1 DEF ReadOK, KnowsBook, OpenRowsOf
    <3>4. HeldBy(ThesisFor(w), positions[q])
      BY <2>1, <3>2, <3>3 DEF AfterReading
    <3>5. QED  BY <1>1, <2>1, <2>3, <3>1, <3>4
  <2>5. CASE EndExits(w)
    <3>1. checkpoints' = checkpoints /\ proc[w].pc = "exiting" /\ proc[w].todo = {}
      BY <2>5 DEF EndExits
    <3>2. ~TouchedInLife(q, proc[w].asOf)
      BY <2>2, <3>1 DEF ReadOK, HasWalked, OpenRowsOf
    <3>3. QED  BY <1>1, <2>1, <2>3, <3>1, <3>2
  <2>6. QED  BY <1>0, <1>3, <2>4, <2>5, Arrives
<1>4. QED  BY <1>2, <1>3

LEMMA NoneReplacedStep ==
  ASSUME Base, Punctual, RowsInOrder, [EngineNext]_vars, NEW w \in Consumers, ReadOK(w)
  PROVE  NoneReplaced(w)'
<1> SUFFICES ASSUME proc'[w].pc = "committed", proc'[w].folded, NEW q \in ThesisIds,
                    TickerOf(q) = TickerOf(IdOf(w)'), positions'[q].state = "closed",
                    positions'[q].closedAt = proc'[w].asOf, positions'[q].reason \in ReplacedReasons,
                    memory'[q] = NoMemory
             PROVE  FALSE
  BY DEF NoneReplaced, UnsettledReplaced
<1>0. EngineType /\ StoreInv /\ EngineInv /\ w \in Processes /\ w # ExitCheck /\ proc[w] \in ProcType
  BY ConsumersAssumption DEF Base, EngineInv, EngineType, Processes
<1>1. CASE CommitDecision(w)
  <2>1. /\ proc[w].pc = "commit" /\ Folds(w) /\ proc'[w].asOf = proc[w].asOf /\ IdOf(w)' = IdOf(w)
    <3>1. proc[w].pc = "commit" /\ proc'[w].folded = Folds(w)
      BY <1>0, <1>1 DEF CommitDecision, EngineType, ProcType
    <3>2. proc'[w].asOf = proc[w].asOf /\ proc'[w].id = proc[w].id
      BY <1>0, <1>1 DEF CommitDecision, EngineType, ProcType
    <3>3. QED  BY <3>1, <3>2 DEF IdOf
  <2>2. /\ OpenRowsOf(positions, TickerOf(IdOf(w))) = {} /\ ~HasRow(positions, IdOf(w))
    BY <2>1 DEF ReadOK, KnowsBook, PreCommit, Folds
  <2>3. IdOf(w) \in ThesisIds /\ proc[w].asOf = now /\ DecidedAt(IdOf(w)) = now
    BY <2>1, InTime
  <2>4. PICK c \in Commits : PutBy(w, c)
    BY <1>0, <1>1, CommitOf
  <2>5. HasRow(positions, q)
    <3>1. SUFFICES ASSUME ~HasRow(positions, q) PROVE FALSE
      OBVIOUS
    <3>2. HasRow(positions', q)
      BY DEF HasRow
    <3>3. \E c2 \in Commits : positions'[q] = NewRow(c2)
      BY <1>0, <3>1, <3>2, RowIsNew
    <3>4. QED  BY <3>3 DEF NewRow
  <2>6. positions[q].state = "closed" /\ positions'[q] = positions[q]
    <3>1. ~IsOpen(positions, q)
      BY <2>1, <2>2 DEF OpenRowsOf
    <3>2. positions[q].state = "closed"
      BY <1>0, <2>5, <3>1, StateOf DEF StoreInv, TypeOK
    <3>3. QED  BY <1>0, <3>2, StepIsCall, StoreKeepsRows DEF RowsKept
  <2>7. PICK r \in ThesisIds : Succeeds(r, q)
    BY <1>0, <2>6 DEF StoreInv, ReplacedBySuccessor
  <2>8. TickerOf(r) = TickerOf(IdOf(w)) /\ DecidedAt(r) = now /\ HasRow(positions, r)
    <3>1. TickerOf(r) = TickerOf(q) /\ HasRow(positions, r) /\ positions[r].openedAt = positions[q].closedAt
      BY <2>7 DEF Succeeds
    <3>2. positions[r].openedAt = DecidedAt(r)
      BY <3>1 DEF RowsInOrder, RowInOrder
    <3>3. QED  BY <2>1, <2>3, <2>6, <3>1, <3>2
  <2>9. r = IdOf(w)
    BY <2>3, <2>8, SameTime
  <2>10. QED  BY <2>2, <2>8, <2>9
<1>2. CASE ~CommitDecision(w)
  <2>1. ~(ConsumerStep(w) \/ Fail(w))
    BY <1>0, <1>2, Arrives
  <2>2. proc[w].pc # "idle"
    <3>1. SUFFICES ASSUME proc[w].pc = "idle" PROVE proc'[w] = proc[w]
      OBVIOUS
    <3>2. CASE ExitCheckStep \/ ExitCheckFails \/ Tick \/ UNCHANGED vars
      BY <1>0, <3>2, ConsumersUndisturbed
    <3>3. ASSUME NEW v \in Consumers, ConsumerStep(v) \/ Fail(v) PROVE proc'[w] = proc[w]
      BY <1>0, <2>1, <3>3, MovesAlone
    <3>4. QED  BY <3>2, <3>3 DEF EngineNext
  <2>3. proc'[w] = proc[w] /\ IdOf(w)' = IdOf(w)
    BY <2>1, <2>2, Undisturbed
  <2>4. positions'[q] = positions[q] /\ memory[q] = NoMemory
    BY <1>2, <2>2, <2>3, BookShrinks
  <2>5. q \in UnsettledReplaced(TickerOf(IdOf(w)), proc[w].asOf)
    BY <2>3, <2>4 DEF UnsettledReplaced
  <2>6. QED  BY <2>3, <2>5 DEF ReadOK, NoneReplaced
<1>3. QED  BY <1>1, <1>2

-----------------------------------------------------------------------------
(* The inductive invariant of the engine in order.                          *)

OrderInv == Punctual /\ RowsInOrder /\ StopsFirst /\ \A w \in Consumers : ReadOK(w)

LEMMA StopsFirstStep ==
  ASSUME Base, OrderInv, [EngineNext]_vars, NEW q \in ThesisIds, positions'[q].reason \in ReplacedReasons
  PROVE  ~TouchedInLife(q, positions[q].closedAt)'
<1>0. /\ StoreInv /\ EngineInv /\ StoreInv' /\ RowsKept
      /\ positions \in [ThesisIds -> RowType] /\ positions' \in [ThesisIds -> RowType]
      /\ RowShape /\ RowShape'
  <2>1. StoreInv /\ EngineInv /\ StoreInv' /\ RowsKept
    BY StepIsCall, StoreInvStep, StoreKeepsRows DEF Base
  <2>2. QED  BY <2>1 DEF StoreInv, TypeOK
<1>1. positions'[q].state = "closed"
  <2>1. positions'[q] \in RowType
    BY <1>0
  <2>2. positions'[q].state = "absent" => positions'[q].reason = "none"
    BY <1>0 DEF RowShape, NoRow
  <2>3. positions'[q].state = "open" => positions'[q].reason = "none"
    BY <1>0 DEF RowShape
  <2>4. QED  BY <2>1, <2>2, <2>3 DEF RowType, ReplacedReasons
<1>2. HasRow(positions, q)
  <2>1. SUFFICES ASSUME ~HasRow(positions, q) PROVE FALSE
    OBVIOUS
  <2>2. HasRow(positions', q)
    BY <1>1 DEF HasRow
  <2>3. \E c \in Commits : positions'[q] = NewRow(c)
    BY <1>0, <2>1, <2>2, RowIsNew
  <2>4. QED  BY <1>1, <2>3 DEF NewRow
<1>3. CASE positions[q].state = "closed"
  <2>1. positions'[q] = positions[q]
    BY <1>0, <1>3 DEF RowsKept
  <2>2. PICK at : at = positions[q].closedAt
    OBVIOUS
  <2>3. ~TouchedInLife(q, at)'
    BY <1>2, <2>1, <2>2, LifeStays DEF OrderInv, StopsFirst
  <2>4. QED  BY <2>1, <2>2, <2>3 DEF TouchedInLife, WalkUntil
<1>4. CASE IsOpen(positions, q)
  <2>1. ClosedByCommit(q)
    BY <1>0, <1>1, <1>4, RowCloses DEF IsOpen, ClosedByExit
  <2>2. PICK p \in Processes, c \in Commits :
          /\ PutBy(p, c) /\ CommitAllowed(positions, c) /\ q # c.id /\ TickerOf(q) = TickerOf(c.id)
          /\ positions'[q] = ReplacedRow(positions[q], c)
    BY <2>1 DEF ClosedByCommit
  <2>3. p \in Consumers /\ c.id = IdOf(p)
    BY <2>2, Committer DEF OrderInv
  <2>4. proc[p].pc = "commit" /\ c.thesis = ThesisFor(p) /\ c.asOf = proc[p].asOf
    BY <2>2 DEF PutBy
  <2>5. ~HeldBy(c.thesis, positions[q])
    BY <1>4, <2>2 DEF CommitAllowed, HoldExists, OpenRowsOf
  <2>6. ~TouchedInLife(q, c.asOf)
    BY <1>4, <2>2, <2>3, <2>4, <2>5 DEF OrderInv, ReadOK, MayFlip, OpenRowsOf
  <2>7. positions'[q].closedAt = c.asOf
    BY <1>0, <2>2, ReplacedRowFields
  <2>8. ~TouchedInLife(q, c.asOf)'
    BY <1>2, <2>6, LifeStays
  <2>9. QED  BY <2>7, <2>8 DEF TouchedInLife, WalkUntil
<1>5. QED  BY <1>0, <1>2, <1>3, <1>4, StateOf

LEMMA OrderInvStep ==
  ASSUME ~LateNews, ~StalePrices, HoldLimit > 0
  PROVE  Base /\ OrderInv /\ [EngineNext]_vars => OrderInv'
<1> SUFFICES ASSUME Base, OrderInv, [EngineNext]_vars PROVE OrderInv'
  OBVIOUS
<1>1. Punctual /\ RowsInOrder /\ \A w \in Consumers : ReadOK(w)
  BY DEF OrderInv
<1>2. Punctual'
  BY <1>1, PunctualStep
<1>3. RowsInOrder'
  BY <1>1, RowInOrderStep, FollowsStep DEF RowsInOrder
<1>4. ASSUME NEW w \in Consumers PROVE ReadOK(w)'
  BY <1>1, KnowsBookStep, HasWalkedStep, MayFlipStep, NoneReplacedStep DEF ReadOK
<1>5. StopsFirst'
  BY StopsFirstStep DEF StopsFirst
<1>6. QED  BY <1>2, <1>3, <1>4, <1>5 DEF OrderInv

LEMMA OrderInvHolds ==
  ASSUME ~LateNews, ~StalePrices, HoldLimit > 0
  PROVE  EngineSpec => []OrderInv
<1>1. EngineInit => OrderInv
  <2> SUFFICES ASSUME EngineInit PROVE OrderInv
    OBVIOUS
  <2>1. \A id \in ThesisIds : positions[id] = NoRow /\ decisions[id] = NoDecision
    BY DEF EngineInit, Init
  <2>2. now = 1 /\ \A p \in Processes : proc[p] = Idle
    BY DEF EngineInit
  <2>3. Punctual
    <3>1. \A i \in Items : ~(DecidedAt(ThesisOf[i]) < 1)
      <4>1. \A i \in Items : DecidedAt(ThesisOf[i]) \in Instants
        BY ThesisOfFacts
      <4>2. \A t \in Instants : t \in Nat /\ ~(t < 1)
        BY InstantsAssumption
      <4>3. QED  BY <4>1, <4>2
    <3>2. QED  BY <2>1, <2>2, <3>1 DEF Punctual, IsPending, NoDecision, Idle, Processes
  <2>4. RowsInOrder
    BY <2>1 DEF RowsInOrder, RowInOrder, Follows, HasRow, NoRow
  <2>5. StopsFirst
    BY <2>1 DEF StopsFirst, NoRow, ReplacedReasons
  <2>6. \A w \in Consumers : ReadOK(w)
    BY <2>2 DEF ReadOK, KnowsBook, HasWalked, MayFlip, NoneReplaced, PreCommit, Idle, Processes
  <2>7. QED  BY <2>3, <2>4, <2>5, <2>6 DEF OrderInv
<1>2. Base /\ OrderInv /\ [EngineNext]_vars => OrderInv'
  BY OrderInvStep
<1>3. QED  BY <1>1, <1>2, BaseHolds, PTL DEF EngineSpec

\* The marker of a finished run is true (pipeline.js, the fold of the completion marker into
\* commitThesis's batch): the run has its decision, and when the marker went with the commit,
\* nothing was replaced that a crash could leave unsettled.
THEOREM DoneIsDoneHolds ==
  ASSUME ~LateNews, ~StalePrices, HoldLimit > 0
  PROVE  EngineSpec => []DoneIsDone
<1>1. MarkersTrue /\ OrderInv => DoneIsDone
  BY DEF MarkersTrue, Undecided, OrderInv, ReadOK, NoneReplaced, DoneIsDone
<1>2. QED  BY <1>1, MarkersHold, OrderInvHolds, PTL

\* Stops first (exit_check.js, checkOpenPositionExits before a flip): no position whose stop
\* or target was touched in its life is closed by a later thesis, at that thesis's price.
THEOREM StopsFirstHolds ==
  ASSUME ~LateNews, ~StalePrices, HoldLimit > 0
  PROVE  EngineSpec => []StopsFirst
<1>1. OrderInv => StopsFirst
  BY DEF OrderInv
<1>2. QED  BY <1>1, OrderInvHolds, PTL

\* In the whole history that the positions table keeps, and not only now, a ticker has one
\* position at an instant: a row closes at or before the opening of its successor.
THEOREM NoOverlapHolds ==
  ASSUME ~LateNews, ~StalePrices, HoldLimit > 0
  PROVE  EngineSpec => []NoOverlap
<1>1. StoreInv /\ OrderInv => NoOverlap
  <2> SUFFICES ASSUME StoreInv, OrderInv, NEW p \in ThesisIds, NEW q \in ThesisIds, NEW t \in Instants,
                      IsOpenAsOf(positions, p, t), IsOpenAsOf(positions, q, t), TickerOf(p) = TickerOf(q),
                      DecidedAt(p) < DecidedAt(q)
               PROVE  FALSE
    <3>1. \A p, q \in ThesisIds : TickerOf(p) = TickerOf(q) /\ p # q => DecidedAt(p) < DecidedAt(q) \/ DecidedAt(q) < DecidedAt(p)
      <4>1. \A p, q \in ThesisIds : TickerOf(p) = TickerOf(q) /\ p # q => DecidedAt(p) # DecidedAt(q)
        BY SameTime
      <4>2. QED  BY <4>1, DecidedNat
    <3>2. QED  BY <3>1 DEF NoOverlap
  <2>1. HasRow(positions, p) /\ HasRow(positions, q) /\ positions[q].openedAt <= t
    BY DEF IsOpenAsOf
  <2>2. /\ positions[p].state = "closed" /\ positions[p].closedAt <= DecidedAt(q)
        /\ positions[q].openedAt = DecidedAt(q)
    BY <2>1 DEF OrderInv, RowsInOrder, RowInOrder, Follows
  <2>3. positions[p].closedAt > t
    BY <2>2 DEF IsOpenAsOf, IsOpen
  <2>4. t \in Nat /\ positions[p].closedAt \in Nat /\ DecidedAt(q) \in Nat
    BY InstantsAssumption, DecidedNat, StateOf DEF StoreInv, TypeOK
  <2>5. QED  BY <2>1, <2>2, <2>3, <2>4
<1>2. QED  BY <1>1, EngineInvHolds, OrderInvHolds, PTL

-----------------------------------------------------------------------------
(* The risk of the book, at every instant of its history.                   *)

SizesOf(table) == [p \in ThesisIds |-> table[p].thesis.size]
StopsOf(table) == [p \in ThesisIds |-> table[p].thesis.size * table[p].thesis.stop]

LEMMA RisksAreNat ==
  ASSUME NEW table \in [ThesisIds -> RowType], NEW p \in ThesisIds
  PROVE  SizesOf(table)[p] \in Nat /\ StopsOf(table)[p] \in Nat
<1>1. table[p].thesis \in Theses \cup {NoThesis}
  BY DEF RowType
<1>2. table[p].thesis.size \in Nat /\ table[p].thesis.stop \in Nat
  BY <1>1, ThesesAssumption DEF ThesisType, NoThesis
<1>3. \A a, b \in Nat : a * b \in Nat
  OBVIOUS
<1>4. table[p].thesis.size * table[p].thesis.stop \in Nat
  BY <1>2, <1>3
<1>5. QED  BY <1>2, <1>4 DEF SizesOf, StopsOf

\* A sum over fewer elements with the same values is no larger.
LEMMA FewerWeighLess ==
  ASSUME NEW f, NEW g, NEW T, IsFiniteSet(T), NEW S \in SUBSET T,
         \A x \in T : f[x] \in Nat, \A x \in S : g[x] = f[x]
  PROVE  /\ SumFunctionOnSet(g, S) <= SumFunctionOnSet(f, T)
         /\ SumFunctionOnSet(g, S) \in Nat /\ SumFunctionOnSet(f, T) \in Nat
<1>1. SumFunctionOnSet(g, S) = SumFunctionOnSet(f, S)
  BY SumCongruence
<1>2. SumFunctionOnSet(f, S) <= SumFunctionOnSet(f, T)
  BY SumGrows
<1>3. SumFunctionOnSet(f, T) \in Nat
  BY SumIsNat
<1>4. IsFiniteSet(S) /\ \A x \in S : f[x] \in Nat
  BY FS_Subset
<1>5. SumFunctionOnSet(f, S) \in Nat
  BY <1>4, SumIsNat
<1>6. QED  BY <1>1, <1>2, <1>3, <1>5

\* The table holds finitely many rows: a step adds at most the one it commits.
RowsOf(table) == {id \in ThesisIds : HasRow(table, id)}
RowsFinite == IsFiniteSet(RowsOf(positions))

LEMMA OneRowAtATime ==
  ASSUME StoreInv, EngineInv, [EngineNext]_vars
  PROVE  \/ RowsOf(positions') \subseteq RowsOf(positions)
         \/ \E p \in Processes, c \in Commits :
              /\ PutBy(p, c) /\ positions'[c.id] = NewRow(c) /\ CommitAllowed(positions, c)
              /\ OpenRowsOf(positions', TickerOf(c.id)) = {c.id}
              /\ c.id \in ThesisIds /\ ~HasRow(positions, c.id)
              /\ RowsOf(positions') \subseteq RowsOf(positions) \cup {c.id}
<1>1. SUFFICES ASSUME NEW id \in ThesisIds, ~HasRow(positions, id), HasRow(positions', id)
               PROVE  \E p \in Processes, c \in Commits :
                        /\ PutBy(p, c) /\ positions'[c.id] = NewRow(c) /\ CommitAllowed(positions, c)
                        /\ OpenRowsOf(positions', TickerOf(c.id)) = {c.id}
                        /\ c.id \in ThesisIds /\ ~HasRow(positions, c.id)
                        /\ RowsOf(positions') \subseteq RowsOf(positions) \cup {c.id}
  BY DEF RowsOf
<1>2. PICK p \in Processes, c \in Commits :
        /\ PutBy(p, c) /\ c.id = id /\ positions'[id] = NewRow(c) /\ CommitAllowed(positions, c)
        /\ OpenRowsOf(positions', TickerOf(id)) = {id}
  BY <1>1, RowIsNew
<1>3. CommitThesis(c)
  BY <1>2 DEF PutBy
<1>4. \A q \in ThesisIds \ {c.id} : HasRow(positions', q) => HasRow(positions, q)
  BY <1>3, CommitEffect
<1>5. RowsOf(positions') \subseteq RowsOf(positions) \cup {c.id}
  BY <1>4 DEF RowsOf
<1>6. QED  BY <1>1, <1>2, <1>5

LEMMA RowsAreFinite == EngineSpec => []RowsFinite
<1>1. EngineInit => RowsFinite
  <2> SUFFICES ASSUME EngineInit PROVE RowsFinite
    OBVIOUS
  <2>1. RowsOf(positions) = {}
    BY DEF EngineInit, Init, RowsOf, HasRow, NoRow
  <2>2. QED  BY <2>1, FS_EmptySet DEF RowsFinite
<1>2. StoreInv /\ EngineInv /\ RowsFinite /\ [EngineNext]_vars => RowsFinite'
  <2> SUFFICES ASSUME StoreInv, EngineInv, RowsFinite, [EngineNext]_vars PROVE RowsFinite'
    OBVIOUS
  <2>1. PICK id : RowsOf(positions') \subseteq RowsOf(positions) \cup {id}
    BY OneRowAtATime
  <2>2. IsFiniteSet(RowsOf(positions) \cup {id})
    BY FS_AddElement DEF RowsFinite
  <2>3. IsFiniteSet(RowsOf(positions'))
    BY <2>1, <2>2, FS_Subset
  <2>4. QED  BY <2>3 DEF RowsFinite, RowsOf
<1>3. QED  BY <1>1, <1>2, EngineInvHolds, PTL DEF EngineSpec

\* A row that was there before the step was open at t if it is so now.
LEMMA OpenBefore ==
  ASSUME StoreInv, StoreInv', RowsKept, NEW p \in ThesisIds, HasRow(positions, p), NEW t,
         IsOpenAsOf(positions', p, t)
  PROVE  IsOpenAsOf(positions, p, t)
<1>1. positions \in [ThesisIds -> RowType]
  BY DEF StoreInv, TypeOK
<1>2. IsOpen(positions, p) \/ positions[p].state = "closed"
  BY <1>1, StateOf
<1>3. positions'[p].openedAt = positions[p].openedAt /\ (positions[p].state = "closed" => positions'[p] = positions[p])
  BY DEF RowsKept
<1>4. QED  BY <1>2, <1>3 DEF IsOpenAsOf, IsOpen

\* What a ceiling bounds, for either weight of a row: f before the step and g after it.
LEMMA CeilingStep ==
  ASSUME Base, OrderInv, OrderInv', RowsFinite, [EngineNext]_vars,
         NEW f, NEW g, NEW max \in Nat,
         \A p \in ThesisIds : f[p] \in Nat /\ g[p] \in Nat /\ (HasRow(positions, p) => g[p] = f[p]),
         \A t \in Instants : SumFunctionOnSet(f, OpenPositionsAsOf(positions, t)) <= max,
         \A c \in Commits : CommitAllowed(positions, c) /\ positions'[c.id] = NewRow(c) =>
           SumFunctionOnSet(f, Others(positions, c)) + g[c.id] <= max,
         NEW t \in Instants
  PROVE  SumFunctionOnSet(g, OpenPositionsAsOf(positions', t)) <= max
<1> DEFINE open == OpenPositionsAsOf(positions, t)
           open2 == OpenPositionsAsOf(positions', t)
           bounded == SumFunctionOnSet(g, open2) <= max
<1> SUFFICES bounded
  OBVIOUS
<1>0. /\ StoreInv /\ EngineInv /\ StoreInv' /\ RowsKept /\ now \in Nat /\ t \in Nat
      /\ positions \in [ThesisIds -> RowType] /\ positions' \in [ThesisIds -> RowType]
  <2>1. StoreInv /\ EngineInv /\ StoreInv' /\ RowsKept
    BY StepIsCall, StoreInvStep, StoreKeepsRows DEF Base
  <2>2. positions \in [ThesisIds -> RowType] /\ positions' \in [ThesisIds -> RowType]
    BY <2>1 DEF StoreInv, TypeOK
  <2>3. QED  BY <2>1, <2>2, NowGrows, InstantsAssumption
<1>1. ASSUME NEW S \in SUBSET RowsOf(positions)
      PROVE  IsFiniteSet(S) /\ \A p \in S : f[p] \in Nat /\ g[p] = f[p]
  BY FS_Subset DEF RowsFinite, RowsOf
<1>2. open \in SUBSET RowsOf(positions)
  BY DEF OpenPositionsAsOf, RowsOf, IsOpenAsOf
<1>3. ASSUME open2 \subseteq open PROVE bounded
  <2>1. IsFiniteSet(open) /\ (\A p \in open : f[p] \in Nat) /\ \A p \in open2 : g[p] = f[p]
    BY <1>1, <1>2, <1>3
  <2>2. /\ SumFunctionOnSet(g, open2) <= SumFunctionOnSet(f, open)
        /\ SumFunctionOnSet(g, open2) \in Nat /\ SumFunctionOnSet(f, open) \in Nat
    <3> HIDE DEF open, open2
    <3>1. QED  BY <1>3, <2>1, FewerWeighLess
  <2>3. SumFunctionOnSet(f, open) <= max
    OBVIOUS
  <2> HIDE DEF open, open2
  <2>4. QED  BY <2>2, <2>3
<1>4. CASE RowsOf(positions') \subseteq RowsOf(positions)
  <2>1. \A p \in open2 : p \in ThesisIds /\ HasRow(positions, p) /\ IsOpenAsOf(positions', p, t)
    BY <1>4 DEF OpenPositionsAsOf, IsOpenAsOf, RowsOf
  <2>2. open2 \subseteq open
    BY <1>0, <2>1, OpenBefore DEF OpenPositionsAsOf
  <2>3. QED  BY <1>3, <2>2
<1>5. ASSUME NEW p \in Processes, NEW c \in Commits, PutBy(p, c), positions'[c.id] = NewRow(c),
             CommitAllowed(positions, c), OpenRowsOf(positions', TickerOf(c.id)) = {c.id},
             c.id \in ThesisIds, ~HasRow(positions, c.id),
             RowsOf(positions') \subseteq RowsOf(positions) \cup {c.id}
      PROVE  bounded
  <2>1. c.asOf = now /\ now' = now
    <3>1. c.asOf = now
      BY <1>5, Committer DEF OrderInv
    <3>2. HasRow(positions', c.id)
      BY <1>5 DEF HasRow, NewRow
    <3>3. now' = now
      BY <1>0, <1>5, <3>2, NowGrows DEF Tick, storeVars
    <3>4. QED  BY <3>1, <3>3
  <2>2. \A q \in open2 \ {c.id} : q \in ThesisIds /\ HasRow(positions, q) /\ IsOpenAsOf(positions', q, t)
                                  /\ IsOpenAsOf(positions, q, t)
    <3>1. \A q \in open2 \ {c.id} : q \in ThesisIds /\ HasRow(positions, q) /\ IsOpenAsOf(positions', q, t)
      BY <1>5 DEF OpenPositionsAsOf, IsOpenAsOf, RowsOf
    <3>2. QED  BY <1>0, <3>1, OpenBefore
  <2>3. CASE t < now
    <3>1. c.id \notin open2
      BY <1>0, <1>5, <2>1, <2>3 DEF OpenPositionsAsOf, IsOpenAsOf, NewRow
    <3>2. open2 \subseteq open
      BY <2>2, <3>1 DEF OpenPositionsAsOf
    <3>3. QED  BY <1>3, <3>2
  <2>4. CASE ~(t < now)
    <3>1. ASSUME NEW q \in open2 \ {c.id} PROVE q \in Others(positions, c)
      <4>1. /\ q \in ThesisIds /\ HasRow(positions, q) /\ IsOpenAsOf(positions', q, t)
            /\ IsOpenAsOf(positions, q, t) /\ HasRow(positions', q)
        BY <2>2, <3>1 DEF IsOpenAsOf
      <4>2. IsOpen(positions', q)
        <5>1. SUFFICES ASSUME ~IsOpen(positions', q) PROVE FALSE
          OBVIOUS
        <5>2. positions'[q].state = "closed" /\ positions'[q].closedAt \in Nat
          BY <1>0, <4>1, <5>1, StateOf
        <5>3. positions'[q].closedAt <= now
          BY <2>1, <4>1, <5>2 DEF OrderInv, RowsInOrder, RowInOrder
        <5>4. positions'[q].closedAt > t
          BY <4>1, <5>1 DEF IsOpenAsOf
        <5>5. QED  BY <1>0, <2>4, <5>2, <5>3, <5>4
      <4>3. TickerOf(q) # TickerOf(c.id)
        BY <1>5, <3>1, <4>1, <4>2 DEF OpenRowsOf
      <4>4. IsOpenAsOf(positions, q, c.asOf)
        <5>1. positions[q].openedAt <= now
          BY <4>1 DEF Base, NotAhead
        <5>2. IsOpen(positions, q)
          BY <1>0, <4>1, <4>2, StateOf DEF RowsKept, IsOpen
        <5>3. QED  BY <2>1, <4>1, <5>1, <5>2 DEF IsOpenAsOf
      <4>5. QED  BY <4>1, <4>3, <4>4 DEF Others, OpenPositionsAsOf
    <3> DEFINE others == Others(positions, c)
               rest == open2 \ {c.id}
    <3>2. rest \subseteq others /\ others \in SUBSET RowsOf(positions) /\ c.id \notin others
      BY <3>1 DEF Others, OpenPositionsAsOf, RowsOf, IsOpenAsOf
    <3>3. IsFiniteSet(others) /\ (\A q \in others : f[q] \in Nat) /\ (\A q \in rest : g[q] = f[q])
          /\ IsFiniteSet(rest) /\ g[c.id] \in Nat
      <4>1. rest \in SUBSET RowsOf(positions)
        BY <3>2
      <4> HIDE DEF others, rest
      <4>2. QED  BY <1>1, <1>5, <3>2, <4>1
    <3>4. SumFunctionOnSet(f, others) + g[c.id] <= max
      BY <1>5
    <3> HIDE DEF others
    <3>5. /\ SumFunctionOnSet(g, rest) <= SumFunctionOnSet(f, others)
          /\ SumFunctionOnSet(g, rest) \in Nat /\ SumFunctionOnSet(f, others) \in Nat
      <4> HIDE DEF rest
      <4>1. QED  BY <3>2, <3>3, FewerWeighLess
    <3>6. CASE c.id \in open2
      <4>1. open2 = rest \cup {c.id}
        BY <3>6
      <4>2. IsFiniteSet(open2) /\ \A q \in open2 : g[q] \in Nat
        <5>1. IsFiniteSet(open2)
          BY <3>3, <4>1, FS_AddElement
        <5>2. QED  BY <5>1 DEF OpenPositionsAsOf
      <4> HIDE DEF open2
      <4>3. SumFunctionOnSet(g, open2) = g[c.id] + SumFunctionOnSet(g, rest)
        BY <3>6, <4>2, SumTakes
      <4> HIDE DEF rest
      <4>4. QED  BY <3>3, <3>4, <3>5, <4>3
    <3>7. CASE c.id \notin open2
      <4>1. open2 = rest
        BY <3>7
      <4> HIDE DEF open2, rest
      <4>2. QED  BY <3>3, <3>4, <3>5, <4>1
    <3>8. QED  BY <3>6, <3>7
  <2>5. QED  BY <2>3, <2>4
<1>6. QED
  <2> HIDE DEF bounded
  <2>1. QED  BY <1>0, <1>4, <1>5, OneRowAtATime

LEMMA CeilingHoldsStep ==
  ASSUME Base, OrderInv, OrderInv', RowsFinite, CeilingHolds, [EngineNext]_vars
  PROVE  CeilingHolds'
<1>0. /\ positions \in [ThesisIds -> RowType] /\ positions' \in [ThesisIds -> RowType] /\ RowsKept
      /\ MaxPortfolioRisk \in Nat /\ MaxStopRisk \in Nat
  <2>1. StoreInv /\ StoreInv' /\ RowsKept
    BY StepIsCall, StoreInvStep, StoreKeepsRows DEF Base
  <2>2. QED  BY <2>1, CeilingsAssumption DEF StoreInv, TypeOK
<1>1. PICK f, g, h, k : f = SizesOf(positions) /\ g = SizesOf(positions') /\ h = StopsOf(positions) /\ k = StopsOf(positions')
  OBVIOUS
<1>2. \A p \in ThesisIds : /\ f[p] \in Nat /\ g[p] \in Nat /\ (HasRow(positions, p) => g[p] = f[p])
                           /\ h[p] \in Nat /\ k[p] \in Nat /\ (HasRow(positions, p) => k[p] = h[p])
  <2>1. \A p \in ThesisIds : f[p] \in Nat /\ g[p] \in Nat /\ h[p] \in Nat /\ k[p] \in Nat
    BY <1>0, <1>1, RisksAreNat
  <2>2. \A p \in ThesisIds : HasRow(positions, p) => g[p] = f[p] /\ k[p] = h[p]
    BY <1>0, <1>1 DEF RowsKept, SizesOf, StopsOf
  <2>3. QED  BY <2>1, <2>2
<1>3. \A t \in Instants :
        /\ SumFunctionOnSet(f, OpenPositionsAsOf(positions, t)) <= MaxPortfolioRisk
        /\ SumFunctionOnSet(h, OpenPositionsAsOf(positions, t)) <= MaxStopRisk
  BY <1>1 DEF CeilingHolds, ExposureOf, StopRiskOf, SizesOf, StopsOf
<1>4. ASSUME NEW c \in Commits, CommitAllowed(positions, c), positions'[c.id] = NewRow(c)
      PROVE  /\ SumFunctionOnSet(f, Others(positions, c)) + g[c.id] <= MaxPortfolioRisk
             /\ SumFunctionOnSet(h, Others(positions, c)) + k[c.id] <= MaxStopRisk
  <2>1. c.id \in ThesisIds
    BY DEF Commits
  <2>2. g[c.id] = c.thesis.size /\ k[c.id] = c.thesis.size * c.thesis.stop
    BY <1>1, <1>4, <2>1 DEF SizesOf, StopsOf, NewRow
  <2>3. /\ ~(SumFunctionOnSet(f, Others(positions, c)) + g[c.id] > MaxPortfolioRisk)
        /\ ~(SumFunctionOnSet(h, Others(positions, c)) + k[c.id] > MaxStopRisk)
    BY <1>1, <1>4, <2>2 DEF CommitAllowed, BreachesCeiling, ExposureOf, StopRiskOf, SizesOf, StopsOf
  <2>4. /\ SumFunctionOnSet(f, Others(positions, c)) \in Nat /\ g[c.id] \in Nat
        /\ SumFunctionOnSet(h, Others(positions, c)) \in Nat /\ k[c.id] \in Nat
    <3>1. Others(positions, c) \in SUBSET RowsOf(positions)
      BY DEF Others, OpenPositionsAsOf, RowsOf, IsOpenAsOf
    <3>2. IsFiniteSet(Others(positions, c)) /\ \A p \in Others(positions, c) : f[p] \in Nat /\ h[p] \in Nat
      BY <1>2, <3>1, FS_Subset DEF RowsFinite, RowsOf
    <3>3. QED  BY <1>2, <2>1, <3>2, SumIsNat
  <2>5. QED  BY <1>0, <2>3, <2>4
<1>5. \A t \in Instants : SumFunctionOnSet(g, OpenPositionsAsOf(positions', t)) <= MaxPortfolioRisk
  BY <1>0, <1>2, <1>3, <1>4, CeilingStep
<1>6. \A t \in Instants : SumFunctionOnSet(k, OpenPositionsAsOf(positions', t)) <= MaxStopRisk
  BY <1>0, <1>2, <1>3, <1>4, CeilingStep
<1>7. QED  BY <1>1, <1>5, <1>6 DEF CeilingHolds, ExposureOf, StopRiskOf, SizesOf, StopsOf, OpenPositionsAsOf, IsOpenAsOf, IsOpen, HasRow

\* The ceilings of commitThesis's guards P2 and P2b, which look at one instant and leave out
\* the ticker's own row, bound the whole history: at no instant does the book, as the table
\* keeps it, hold more risk than they allow.
THEOREM CeilingIsKept ==
  ASSUME ~LateNews, ~StalePrices, HoldLimit > 0
  PROVE  EngineSpec => []CeilingHolds
<1>1. EngineInit => CeilingHolds
  <2> SUFFICES ASSUME EngineInit, NEW t \in Instants
               PROVE  /\ ExposureOf(positions, OpenPositionsAsOf(positions, t)) <= MaxPortfolioRisk
                      /\ StopRiskOf(positions, OpenPositionsAsOf(positions, t)) <= MaxStopRisk
    BY DEF CeilingHolds
  <2>1. OpenPositionsAsOf(positions, t) = {}
    BY DEF EngineInit, Init, OpenPositionsAsOf, IsOpenAsOf, HasRow, NoRow
  <2>2. /\ ExposureOf(positions, OpenPositionsAsOf(positions, t)) = 0
        /\ StopRiskOf(positions, OpenPositionsAsOf(positions, t)) = 0
    BY <2>1, SumEmpty DEF ExposureOf, StopRiskOf
  <2>3. QED  BY <2>2, CeilingsAssumption
<1>2. Base /\ OrderInv /\ OrderInv' /\ RowsFinite /\ CeilingHolds /\ [EngineNext]_vars => CeilingHolds'
  BY CeilingHoldsStep
<1>3. QED  BY <1>1, <1>2, BaseHolds, OrderInvHolds, RowsAreFinite, PTL DEF EngineSpec

=============================================================================

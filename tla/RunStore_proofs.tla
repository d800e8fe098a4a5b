-------------------------- MODULE RunStore_proofs --------------------------
(***************************************************************************)
(* Proofs about RunStore, for every watchlist, every set of instants and   *)
(* thesis ids, and every value of the ceilings: that the batch of          *)
(* commitThesis is consistent, and that whatever its callers do the store  *)
(* keeps its invariants and implements TickerBook; and what is needed of   *)
(* the sums of the ceilings, which are folds over sets of rows.            *)
(***************************************************************************)
EXTENDS RunStore, FiniteSetTheorems, WellFoundedInduction, TLAPS

TableType == [ThesisIds -> RowType]

-----------------------------------------------------------------------------
(* What the first two statements of the batch do to one row.                *)

LEMMA ReplacedRowFields ==
  ASSUME NEW row \in RowType, NEW c \in Commits
  PROVE  /\ ReplacedRow(row, c) \in RowType
         /\ ReplacedRow(row, c).state = "closed"
         /\ ReplacedRow(row, c).closedAt = c.asOf
         /\ ReplacedRow(row, c).reason = IF row.thesis.direction # c.thesis.direction THEN "flipped" ELSE "replaced"
         /\ ReplacedRow(row, c).thesis = row.thesis
         /\ ReplacedRow(row, c).openedAt = row.openedAt
<1>1. c.asOf \in Instants
  BY DEF Commits
<1> DEFINE reason == IF row.thesis.direction # c.thesis.direction THEN "flipped" ELSE "replaced"
<1>2. ReplacedRow(row, c) = [row EXCEPT !.state = "closed", !.closedAt = c.asOf, !.reason = reason]
  BY DEF ReplacedRow
<1>3. reason \in CloseReasons
  BY DEF CloseReasons
<1> HIDE DEF reason
<1>4. /\ ReplacedRow(row, c) \in RowType /\ ReplacedRow(row, c).state = "closed"
      /\ ReplacedRow(row, c).closedAt = c.asOf /\ ReplacedRow(row, c).reason = reason
      /\ ReplacedRow(row, c).thesis = row.thesis /\ ReplacedRow(row, c).openedAt = row.openedAt
  BY <1>1, <1>2, <1>3 DEF RowType
<1>5. QED  BY <1>4 DEF reason

LEMMA CloseOldRow ==
  ASSUME NEW table \in TableType, NEW c \in Commits, NEW p \in ThesisIds
  PROVE  CloseOld(table, c)[p] =
           IF CommitAllowed(table, c) /\ p # c.id /\ IsOpen(table, p) /\ TickerOf(p) = TickerOf(c.id)
           THEN ReplacedRow(table[p], c) ELSE table[p]
  BY DEF CloseOld

LEMMA OpenNewRow ==
  ASSUME NEW table \in TableType, NEW c \in Commits, NEW p \in ThesisIds
  PROVE  OpenNew(table, c)[p] =
           IF /\ p = c.id /\ ~HasRow(table, c.id) /\ CommitAllowed(table, c)
              /\ OpenRowsOf(table, TickerOf(c.id)) = {}
           THEN NewRow(c) ELSE table[p]
  BY DEF OpenNew, TableType, Commits

LEMMA CloseOldType ==
  ASSUME NEW table \in TableType, NEW c \in Commits
  PROVE  CloseOld(table, c) \in TableType
<1>1. ASSUME NEW p \in ThesisIds PROVE ReplacedRow(table[p], c) \in RowType
  BY ReplacedRowFields DEF TableType
<1>2. QED  BY <1>1 DEF CloseOld, TableType

LEMMA OpenNewType ==
  ASSUME NEW table \in TableType, NEW c \in Commits
  PROVE  OpenNew(table, c) \in TableType
<1>1. NewRow(c) \in RowType
  BY DEF NewRow, RowType, Commits, CloseReasons
<1>2. QED  BY <1>1 DEF OpenNew, TableType, Commits

-----------------------------------------------------------------------------
(* Statement 1 never changes what the guards of statements 2 and 3 see.     *)

LEMMA OthersKept ==
  ASSUME NEW table \in TableType, NEW c \in Commits
  PROVE  /\ Others(CloseOld(table, c), c) = Others(table, c)
         /\ SameWayPeers(CloseOld(table, c), c) = SameWayPeers(table, c)
         /\ \A S : ExposureOf(CloseOld(table, c), S) = ExposureOf(table, S)
         /\ \A S : StopRiskOf(CloseOld(table, c), S) = StopRiskOf(table, S)
<1> DEFINE closed == CloseOld(table, c)
<1>1. \A p \in ThesisIds : TickerOf(p) # TickerOf(c.id) => closed[p] = table[p]
  BY CloseOldRow
<1>2. \A p \in ThesisIds : closed[p].thesis = table[p].thesis
  <2>1. ASSUME NEW p \in ThesisIds PROVE ReplacedRow(table[p], c).thesis = table[p].thesis
    BY ReplacedRowFields DEF TableType
  <2>2. QED  BY <2>1, CloseOldRow
<1> HIDE DEF closed
<1>3. Others(closed, c) = Others(table, c)
  BY <1>1 DEF Others, OpenPositionsAsOf, IsOpenAsOf, IsOpen, HasRow
<1>4. SameWayPeers(closed, c) = SameWayPeers(table, c)
  BY <1>2, <1>3 DEF SameWayPeers, Others, OpenPositionsAsOf
<1>5. [p \in ThesisIds |-> closed[p].thesis.size] = [p \in ThesisIds |-> table[p].thesis.size]
  BY <1>2
<1>6. [p \in ThesisIds |-> closed[p].thesis.size * closed[p].thesis.stop]
      = [p \in ThesisIds |-> table[p].thesis.size * table[p].thesis.stop]
  BY <1>2
<1>7. QED  BY <1>3, <1>4, <1>5, <1>6 DEF ExposureOf, StopRiskOf, closed

\* An allowed commit stays allowed for the statements after the one that closed the
\* ticker's other rows, which leaves none of them open.
THEOREM BatchIsConsistent ==
  ASSUME NEW table \in TableType, NEW c \in Commits
  PROVE  /\ CommitAllowed(CloseOld(table, c), c) <=> CommitAllowed(table, c)
         /\ CommitAllowed(table, c) => OpenRowsOf(CloseOld(table, c), TickerOf(c.id)) \subseteq {c.id}
<1> DEFINE closed == CloseOld(table, c)
<1>1. CASE ~CommitAllowed(table, c)
  BY <1>1 DEF CloseOld
<1>2. CASE CommitAllowed(table, c)
  <2>1. \A p \in ThesisIds : p # c.id /\ TickerOf(p) = TickerOf(c.id) => ~IsOpen(closed, p)
    BY <1>2, CloseOldRow, ReplacedRowFields DEF IsOpen, TableType
  <2>2. closed[c.id] = table[c.id]
    BY CloseOldRow DEF Commits
  <2> HIDE DEF closed
  <2>3. OpenRowsOf(closed, TickerOf(c.id)) \subseteq {c.id}
    BY <2>1 DEF OpenRowsOf
  <2>4. ~HoldExists(closed, c)
    BY <2>3 DEF HoldExists
  <2>5. ~NewerOpen(closed, c)
    BY <1>2, <2>2, <2>3 DEF NewerOpen, CommitAllowed, OpenRowsOf, IsOpen
  <2>6. ~BreachesCeiling(closed, c)
    BY <1>2, OthersKept DEF CommitAllowed, BreachesCeiling, closed
  <2>7. CommitAllowed(closed, c)
    BY <2>4, <2>5, <2>6 DEF CommitAllowed
  <2>8. QED  BY <1>2, <2>3, <2>7 DEF closed
<1>3. QED  BY <1>1, <1>2

-----------------------------------------------------------------------------
(* Type correctness.                                                        *)

LEMMA CommitTables ==
  ASSUME TypeOK, NEW c \in Commits, CommitThesis(c)
  PROVE  /\ positions' = OpenNew(CloseOld(positions, c), c)
         /\ decisions' = [decisions EXCEPT ![c.id] =
                            DecisionAfterCommit(@, Outcome(positions', c), c.thesis)]
         /\ memory' = memory
         /\ positions \in TableType
         /\ CloseOld(positions, c) \in TableType
         /\ positions' \in TableType
<1>1. positions \in TableType
  BY DEF TypeOK, TableType
<1>2. CloseOld(positions, c) \in TableType
  BY <1>1, CloseOldType
<1>3. OpenNew(CloseOld(positions, c), c) \in TableType
  BY <1>2, OpenNewType
<1>4. QED  BY <1>1, <1>2, <1>3 DEF CommitThesis

LEMMA DecisionType ==
  ASSUME TypeOK, NEW c \in Commits, NEW table
  PROVE  DecisionAfterCommit(decisions[c.id], Outcome(table, c), c.thesis)
           \in [status : Statuses \cup {"none"}, thesis : Theses \cup {NoThesis}]
<1>1. Outcome(table, c) \in Statuses
  BY DEF Outcome, Statuses, CommitStatuses
<1>2. c.id \in ThesisIds /\ c.thesis \in Theses
  BY DEF Commits
<1>3. decisions[c.id] \in [status : Statuses \cup {"none"}, thesis : Theses \cup {NoThesis}]
  BY <1>2 DEF TypeOK
<1> HIDE DEF Statuses
<1>4. QED  BY <1>1, <1>2, <1>3 DEF DecisionAfterCommit

\* The tables keep their types, whatever the callers do.
LEMMA TypeStep == TypeOK /\ [Next]_storeVars => TypeOK'
<1> SUFFICES ASSUME TypeOK, [Next]_storeVars PROVE TypeOK'
  OBVIOUS
<1>1. CASE Commit
  <2>1. PICK c \in Commits : CommitThesis(c)
    BY <1>1 DEF Commit
  <2>2. positions' \in TableType /\ memory' = memory
    BY <2>1, CommitTables
  <2>3. decisions' \in [ThesisIds -> [status : Statuses \cup {"none"}, thesis : Theses \cup {NoThesis}]]
    BY <2>1, CommitTables, DecisionType DEF TypeOK
  <2>4. QED  BY <2>2, <2>3 DEF TypeOK, TableType
<1>2. CASE Close
  <2>1. PICK id \in ThesisIds, at \in Instants, reason \in CloseReasons : ClosePosition(id, at, reason)
    BY <1>2 DEF Close
  <2>2. positions[id] \in RowType
    BY DEF TypeOK
  <2>3. [positions[id] EXCEPT !.state = "closed", !.closedAt = at, !.reason = reason] \in RowType
    BY <2>2 DEF RowType
  <2>4. positions' \in TableType
    BY <2>1, <2>3 DEF ClosePosition, TypeOK, TableType
  <2>5. QED  BY <2>1, <2>4 DEF ClosePosition, TypeOK, TableType
<1>3. CASE Check
  <2>1. PICK id \in ThesisIds, at \in Instants : AdvancePositionCheck(id, at)
    BY <1>3 DEF Check
  <2>2. positions[id] \in RowType
    BY DEF TypeOK
  <2>3. [positions[id] EXCEPT !.lastCheckedAt = at] \in RowType
    BY <2>2 DEF RowType
  <2>4. positions' \in TableType
    BY <2>1, <2>3 DEF AdvancePositionCheck, TypeOK, TableType
  <2>5. QED  BY <2>1, <2>4 DEF AdvancePositionCheck, TypeOK, TableType
<1>4. CASE Decide
  BY <1>4 DEF Decide, InsertTradeDecision, TypeOK, Statuses
<1>5. CASE Expire
  <2>1. PICK id \in ThesisIds : ExpirePendingEntry(id)
    BY <1>5 DEF Expire
  <2>2. [decisions[id] EXCEPT !.status = "skipped_no_fill"] \in
          [status : Statuses \cup {"none"}, thesis : Theses \cup {NoThesis}]
    BY DEF TypeOK, Statuses
  <2>3. QED  BY <2>1, <2>2 DEF ExpirePendingEntry, TypeOK
<1>6. CASE Settle
  <2>1. PICK id \in ThesisIds : RecordDecisionOutcome(id, positions[id].closedAt, positions[id].reason)
    BY <1>6 DEF Settle
  <2>2. positions[id] \in RowType
    BY DEF TypeOK
  <2>3. memory' \in [ThesisIds -> [resolvedAt : Instants \cup {0}, reason : CloseReasons \cup {"none"}]]
    BY <2>1, <2>2 DEF RecordDecisionOutcome, TypeOK, RowType
  <2>4. QED  BY <2>1, <2>3 DEF RecordDecisionOutcome, TypeOK
<1>7. CASE UNCHANGED storeVars
  BY <1>7 DEF storeVars, TypeOK
<1>8. QED  BY <1>1, <1>2, <1>3, <1>4, <1>5, <1>6, <1>7 DEF Next

LEMMA InitType == Init => TypeOK
  BY DEF Init, TypeOK, RowType, NoRow, NoDecision, NoMemory, CloseReasons, Statuses

\* The three tables always have their types.
THEOREM TypeCorrect == Spec => []TypeOK
  BY InitType, TypeStep, PTL DEF Spec

-----------------------------------------------------------------------------
(* What a step does to one row: nothing, or it opens it, closes it, or moves *)
(* its cursor.                                                              *)

\* A row's columns agree with its state.
RowShape ==
  \A p \in ThesisIds :
    /\ positions[p].state = "absent" => positions[p] = NoRow
    /\ positions[p].state = "open" => positions[p].reason = "none" /\ positions[p].openedAt \in Instants
    /\ positions[p].state = "closed" => positions[p].closedAt \in Instants

Opens(p) ==
  /\ ~HasRow(positions, p)
  /\ \E c \in Commits : p = c.id /\ positions'[p] = NewRow(c)
  /\ OpenRowsOf(positions', TickerOf(p)) = {p}
Stays(p) ==
  /\ positions'[p].thesis = positions[p].thesis
  /\ positions'[p].openedAt = positions[p].openedAt
Closes(p) ==
  /\ IsOpen(positions, p)
  /\ positions'[p].state = "closed"
  /\ Stays(p)
  /\ positions'[p].closedAt \in Instants
  /\ positions'[p].openedAt <= positions'[p].closedAt
  /\ positions'[p].reason \in ReplacedReasons => \E q \in ThesisIds \ {p} : Succeeds(q, p)'
Advances(p) ==
  /\ IsOpen(positions, p) /\ IsOpen(positions', p)
  /\ Stays(p)
  /\ positions'[p].reason = positions[p].reason

\* An allowed commit ends with its own row in the table, and a row it opens is then the
\* only open one of its ticker.
LEMMA CommitOwnRow ==
  ASSUME TypeOK, NEW c \in Commits, MayCommit(c), CommitThesis(c)
  PROVE  /\ ~HasRow(positions, c.id) /\ HasRow(positions', c.id)
              => positions'[c.id] = NewRow(c) /\ OpenRowsOf(positions', TickerOf(c.id)) = {c.id}
         /\ CommitAllowed(positions, c)
              => /\ HasRow(positions', c.id)
                 /\ positions'[c.id].openedAt = c.asOf /\ positions'[c.id].thesis = c.thesis
<1> DEFINE closed == CloseOld(positions, c)
<1>1. /\ positions \in TableType /\ closed \in TableType
      /\ positions' = OpenNew(closed, c)
      /\ c.id \in ThesisIds
  BY CommitTables DEF Commits
<1>2. closed[c.id] = positions[c.id]
  BY <1>1, CloseOldRow
<1>3. HasRow(closed, c.id) <=> HasRow(positions, c.id)
  BY <1>2 DEF HasRow
<1> HIDE DEF closed
<1>4. CASE HasRow(positions, c.id)
  <2>1. positions'[c.id] = positions[c.id]
    BY <1>1, <1>2, <1>3, <1>4, OpenNewRow
  <2>2. QED  BY <1>4, <2>1 DEF MayCommit, HasRow
<1>5. CASE ~HasRow(positions, c.id) /\ CommitAllowed(closed, c) /\ OpenRowsOf(closed, TickerOf(c.id)) = {}
  <2>1. positions'[c.id] = NewRow(c)
    BY <1>1, <1>3, <1>5, OpenNewRow
  <2>2. \A p \in ThesisIds \ {c.id} : positions'[p] = closed[p]
    BY <1>1, OpenNewRow
  <2>3. OpenRowsOf(positions', TickerOf(c.id)) = {c.id}
    BY <1>1, <1>5, <2>1, <2>2 DEF OpenRowsOf, IsOpen, NewRow
  <2>4. QED  BY <2>1, <2>3 DEF NewRow, HasRow
<1>6. CASE ~HasRow(positions, c.id) /\ ~(CommitAllowed(closed, c) /\ OpenRowsOf(closed, TickerOf(c.id)) = {})
  <2>1. ~HasRow(positions', c.id)
    BY <1>1, <1>2, <1>3, <1>6, OpenNewRow DEF HasRow
  <2>2. ~CommitAllowed(positions, c)
    BY <1>1, <1>3, <1>6, BatchIsConsistent DEF closed, OpenRowsOf, IsOpen, HasRow
  <2>3. QED  BY <2>1, <2>2
<1>7. QED  BY <1>4, <1>5, <1>6

LEMMA CommitRow ==
  ASSUME TypeOK, RowShape, NEW c \in Commits, MayCommit(c), CommitThesis(c), NEW p \in ThesisIds
  PROVE  positions'[p] = positions[p] \/ Opens(p) \/ Closes(p)
<1> DEFINE closed == CloseOld(positions, c)
<1>1. /\ positions \in TableType /\ closed \in TableType
      /\ positions' = OpenNew(closed, c)
      /\ positions[p] \in RowType
      /\ c.id \in ThesisIds
  BY CommitTables DEF TableType, Commits
<1>2. CASE closed[p] = positions[p] /\ positions'[p] # positions[p]
  <2>1. p = c.id /\ ~HasRow(closed, p) /\ positions'[p] = NewRow(c)
    BY <1>1, <1>2, OpenNewRow
  <2>2. ~HasRow(positions, p) /\ HasRow(positions', p)
    BY <1>2, <2>1 DEF HasRow, NewRow
  <2>3. QED  BY <2>1, <2>2, CommitOwnRow DEF Opens
<1>3. CASE closed[p] # positions[p]
  <2>1. /\ CommitAllowed(positions, c) /\ IsOpen(positions, p)
        /\ p # c.id /\ TickerOf(p) = TickerOf(c.id)
        /\ closed[p] = ReplacedRow(positions[p], c)
    BY <1>1, <1>3, CloseOldRow
  <2>2. positions'[p] = closed[p]
    BY <1>1, <2>1, OpenNewRow
  <2>3. /\ positions'[p].state = "closed" /\ positions'[p].closedAt = c.asOf
        /\ positions'[p].thesis = positions[p].thesis
        /\ positions'[p].openedAt = positions[p].openedAt
    BY <1>1, <2>1, <2>2, ReplacedRowFields
  <2>4. ~(positions[p].openedAt > c.asOf)
    BY <2>1 DEF CommitAllowed, NewerOpen, OpenRowsOf
  <2>5. positions[p].openedAt \in Nat /\ c.asOf \in Nat /\ c.asOf \in Instants
    BY <2>1, InstantsAssumption DEF RowShape, IsOpen, Commits
  <2>6. ~HeldBy(c.thesis, positions[p])
    BY <2>1 DEF CommitAllowed, HoldExists, OpenRowsOf
  <2>7. Succeeds(c.id, p)'
    BY <1>1, <2>1, <2>3, <2>6, CommitOwnRow DEF Succeeds, HeldBy
  <2>8. QED  BY <1>1, <2>1, <2>3, <2>4, <2>5, <2>7 DEF Closes, Stays
<1>4. QED  BY <1>2, <1>3

LEMMA RowStep ==
  ASSUME TypeOK, RowShape, Next, NEW p \in ThesisIds
  PROVE  positions'[p] = positions[p] \/ Opens(p) \/ Closes(p) \/ Advances(p)
<1>0. positions[p] \in RowType /\ positions \in [ThesisIds -> RowType]
  BY DEF TypeOK
<1>1. CASE Commit
  BY <1>1, CommitRow DEF Commit
<1>2. CASE Close
  <2>1. PICK id \in ThesisIds, at \in Instants, reason \in CloseReasons \ ReplacedReasons :
          positions[id].openedAt <= at /\ ClosePosition(id, at, reason)
    BY <1>2 DEF Close
  <2>2. CASE p = id /\ IsOpen(positions, p)
    <3>1. positions'[p] = [positions[p] EXCEPT !.state = "closed", !.closedAt = at, !.reason = reason]
      BY <1>0, <2>1, <2>2 DEF ClosePosition, IsOpen
    <3>2. /\ positions'[p].state = "closed" /\ positions'[p].closedAt = at
          /\ positions'[p].reason \notin ReplacedReasons
          /\ positions'[p].thesis = positions[p].thesis
          /\ positions'[p].openedAt = positions[p].openedAt
      BY <1>0, <3>1 DEF RowType
    <3>3. QED  BY <2>1, <2>2, <3>2 DEF Closes, Stays
  <2>3. CASE ~(p = id /\ IsOpen(positions, p))
    BY <1>0, <2>1, <2>3 DEF ClosePosition, IsOpen
  <2>4. QED  BY <2>2, <2>3
<1>3. CASE Check
  <2>1. PICK id \in ThesisIds, at \in Instants : AdvancePositionCheck(id, at)
    BY <1>3 DEF Check
  <2>2. CASE p = id /\ IsOpen(positions, p)
    <3>1. \/ positions'[p] = positions[p]
          \/ positions'[p] = [positions[p] EXCEPT !.lastCheckedAt = at]
      BY <1>0, <2>1, <2>2 DEF AdvancePositionCheck, IsOpen
    <3>2. \/ positions'[p] = positions[p]
          \/ /\ positions'[p].state = positions[p].state /\ positions'[p].reason = positions[p].reason
             /\ positions'[p].thesis = positions[p].thesis
             /\ positions'[p].openedAt = positions[p].openedAt
      BY <1>0, <3>1 DEF RowType
    <3>3. QED  BY <2>2, <3>2 DEF Advances, Stays, IsOpen
  <2>3. CASE ~(p = id /\ IsOpen(positions, p))
    BY <1>0, <2>1, <2>3 DEF AdvancePositionCheck, IsOpen
  <2>4. QED  BY <2>2, <2>3
<1>4. CASE Decide \/ Expire \/ Settle
  BY <1>4 DEF Decide, Expire, Settle, InsertTradeDecision, ExpirePendingEntry, RecordDecisionOutcome
<1>5. QED  BY <1>1, <1>2, <1>3, <1>4 DEF Next

-----------------------------------------------------------------------------
(* The inductive invariant, one part at a time.                             *)

\* Rows stay, with their thesis and opening.
LEMMA RowsStay ==
  ASSUME TypeOK, RowShape, Next, NEW p \in ThesisIds, HasRow(positions, p)
  PROVE  HasRow(positions', p) /\ Stays(p)
  BY RowStep DEF Opens, Closes, Advances, Stays, HasRow, IsOpen

LEMMA ShapeStep == TypeOK /\ RowShape /\ Next => RowShape'
<1> SUFFICES ASSUME TypeOK, RowShape, Next, NEW p \in ThesisIds
             PROVE  /\ positions'[p].state = "absent" => positions'[p] = NoRow
                    /\ positions'[p].state = "open" => positions'[p].reason = "none" /\ positions'[p].openedAt \in Instants
                    /\ positions'[p].state = "closed" => positions'[p].closedAt \in Instants
  BY DEF RowShape
<1>1. CASE positions'[p] = positions[p]
  BY <1>1 DEF RowShape
<1>2. CASE Opens(p)
  BY <1>2 DEF Opens, NewRow, Commits
<1>3. CASE Closes(p)
  BY <1>3 DEF Closes
<1>4. CASE Advances(p)
  BY <1>4 DEF Advances, Stays, IsOpen, RowShape
<1>5. QED  BY <1>1, <1>2, <1>3, <1>4, RowStep

LEMMA OneOpenStep == TypeOK /\ RowShape /\ OneOpenPerTicker /\ Next => OneOpenPerTicker'
<1> SUFFICES ASSUME TypeOK, RowShape, OneOpenPerTicker, Next,
                    NEW p \in ThesisIds, NEW q \in ThesisIds,
                    IsOpen(positions', p), IsOpen(positions', q), TickerOf(p) = TickerOf(q)
             PROVE  p = q
  BY DEF OneOpenPerTicker
<1>1. CASE Opens(p) \/ Opens(q)
  BY <1>1 DEF Opens, OpenRowsOf
<1>2. CASE ~Opens(p) /\ ~Opens(q)
  <2>1. IsOpen(positions, p) /\ IsOpen(positions, q)
    BY <1>2, RowStep DEF Closes, Advances, IsOpen
  <2>2. QED  BY <2>1 DEF OneOpenPerTicker
<1>3. QED  BY <1>1, <1>2

LEMMA SuccessorStep == TypeOK /\ RowShape /\ ReplacedBySuccessor /\ Next => ReplacedBySuccessor'
<1> SUFFICES ASSUME TypeOK, RowShape, ReplacedBySuccessor, Next,
                    NEW p \in ThesisIds, positions'[p].reason \in ReplacedReasons
             PROVE  \E q \in ThesisIds \ {p} : Succeeds(q, p)'
  BY DEF ReplacedBySuccessor
<1>1. CASE positions'[p] = positions[p]
  <2>1. PICK q \in ThesisIds \ {p} : Succeeds(q, p)
    BY <1>1 DEF ReplacedBySuccessor
  <2>2. HasRow(positions', q) /\ Stays(q)
    BY <2>1, RowsStay DEF Succeeds
  <2>3. QED  BY <1>1, <2>1, <2>2 DEF Succeeds, Stays
<1>2. CASE Opens(p)
  BY <1>2 DEF Opens, NewRow, ReplacedReasons
<1>3. CASE Closes(p)
  BY <1>3 DEF Closes
<1>4. CASE Advances(p)
  BY <1>4 DEF Advances, RowShape, IsOpen, ReplacedReasons
<1>5. QED  BY <1>1, <1>2, <1>3, <1>4, RowStep

LEMMA ClosesAfterStep == TypeOK /\ RowShape /\ ClosesAfterOpening /\ Next => ClosesAfterOpening'
<1> SUFFICES ASSUME TypeOK, RowShape, ClosesAfterOpening, Next,
                    NEW p \in ThesisIds, positions'[p].state = "closed"
             PROVE  positions'[p].openedAt <= positions'[p].closedAt
  BY DEF ClosesAfterOpening
<1>1. CASE positions'[p] = positions[p]
  BY <1>1 DEF ClosesAfterOpening
<1>2. CASE Opens(p)
  BY <1>2 DEF Opens, NewRow
<1>3. CASE Closes(p)
  BY <1>3 DEF Closes
<1>4. CASE Advances(p)
  BY <1>4 DEF Advances, IsOpen
<1>5. QED  BY <1>1, <1>2, <1>3, <1>4, RowStep

LEMMA MemoryStep == TypeOK /\ RowShape /\ MemoryMatchesClose /\ Next => MemoryMatchesClose'
<1> SUFFICES ASSUME TypeOK, RowShape, MemoryMatchesClose, Next,
                    NEW p \in ThesisIds, memory'[p] # NoMemory
             PROVE  /\ positions'[p].state = "closed"
                    /\ memory'[p] = [resolvedAt |-> positions'[p].closedAt, reason |-> positions'[p].reason]
  BY DEF MemoryMatchesClose
<1>1. CASE memory'[p] = memory[p]
  <2>1. positions[p].state = "closed"
    BY <1>1 DEF MemoryMatchesClose
  <2>2. positions'[p] = positions[p]
    BY <2>1, RowStep DEF Opens, Closes, Advances, HasRow, IsOpen
  <2>3. QED  BY <1>1, <2>1, <2>2 DEF MemoryMatchesClose
<1>2. CASE memory'[p] # memory[p]
  <2>1. Settle
    <3>1. CASE Commit
      BY <1>2, <3>1, CommitTables DEF Commit
    <3>2. CASE Close \/ Check \/ Decide \/ Expire
      BY <1>2, <3>2 DEF Close, Check, Decide, Expire, ClosePosition, AdvancePositionCheck,
                        InsertTradeDecision, ExpirePendingEntry
    <3>3. QED  BY <3>1, <3>2 DEF Next
  <2>2. PICK id \in ThesisIds : /\ positions[id].state = "closed"
                                /\ RecordDecisionOutcome(id, positions[id].closedAt, positions[id].reason)
    BY <2>1 DEF Settle
  <2>3. id = p /\ positions' = positions
    BY <1>2, <2>2 DEF RecordDecisionOutcome, TypeOK
  <2>4. QED  BY <1>2, <2>2, <2>3 DEF RecordDecisionOutcome, TypeOK
<1>3. QED  BY <1>1, <1>2

\* The third statement of the batch says 'opened' only of a row that the first two left in
\* the table, with this thesis.
LEMMA OpenedOutcome ==
  ASSUME TypeOK, NEW c \in Commits, MayCommit(c), CommitThesis(c), Outcome(positions', c) = "opened"
  PROVE  HasRow(positions', c.id) /\ positions'[c.id].thesis = c.thesis
<1> DEFINE closed == CloseOld(positions, c)
<1>1. /\ positions \in TableType /\ closed \in TableType
      /\ positions' = OpenNew(closed, c)
  BY CommitTables
<1>2. CommitAllowed(positions', c)
  BY DEF Outcome, CommitAllowed
<1>3. CASE positions' = closed
  <2>1. CommitAllowed(positions, c)
    BY <1>1, <1>2, <1>3, BatchIsConsistent
  <2>2. QED  BY <2>1, CommitOwnRow
<1>4. CASE positions' # closed
  <2>1. CommitAllowed(closed, c)
    BY <1>1, <1>4 DEF OpenNew
  <2>2. CommitAllowed(positions, c)
    BY <1>1, <2>1, BatchIsConsistent
  <2>3. QED  BY <2>2, CommitOwnRow
<1>5. QED  BY <1>3, <1>4

LEMMA DecisionStep ==
  ASSUME TypeOK, RowShape, OpenedHasPosition, Next, NEW id \in ThesisIds, decisions'[id].status = "opened"
  PROVE  HasRow(positions', id) /\ positions'[id].thesis = decisions'[id].thesis
<1>1. CASE decisions'[id] = decisions[id]
  BY <1>1, RowsStay DEF OpenedHasPosition, Stays
<1>2. CASE decisions'[id] # decisions[id]
  <2>1. CASE Commit
    <3>1. PICK c \in Commits : MayCommit(c) /\ CommitThesis(c)
      BY <2>1 DEF Commit
    <3>2. /\ id = c.id
          /\ decisions'[id] = DecisionAfterCommit(decisions[id], Outcome(positions', c), c.thesis)
      BY <1>2, <3>1, CommitTables DEF TypeOK, Commits
    <3>3. decisions[id] \in [status : Statuses \cup {"none"}, thesis : Theses \cup {NoThesis}]
      BY DEF TypeOK
    <3>4. /\ Outcome(positions', c) = "opened"
          /\ decisions'[id].thesis = c.thesis
      BY <1>2, <3>1, <3>2, <3>3 DEF DecisionAfterCommit, MayCommit
    <3>5. QED  BY <3>1, <3>2, <3>4, OpenedOutcome
  <2>2. CASE Decide
    BY <1>2, <2>2, DirectStatusesAssumption DEF Decide, InsertTradeDecision, TypeOK
  <2>3. CASE Expire
    <3>1. decisions[id] \in [status : Statuses \cup {"none"}, thesis : Theses \cup {NoThesis}]
      BY DEF TypeOK
    <3>2. decisions'[id].status = "skipped_no_fill"
      BY <1>2, <2>3, <3>1 DEF Expire, ExpirePendingEntry, TypeOK
    <3>3. QED  BY <3>2
  <2>4. CASE Close \/ Check \/ Settle
    BY <1>2, <2>4 DEF Close, Check, Settle, ClosePosition, AdvancePositionCheck, RecordDecisionOutcome
  <2>5. QED  BY <2>1, <2>2, <2>3, <2>4 DEF Next
<1>3. QED  BY <1>1, <1>2

\* The inductive invariant: the safety invariants and RowShape, which they need for the
\* rows that are not closed yet.
StoreInv ==
  /\ TypeOK
  /\ RowShape
  /\ OneOpenPerTicker
  /\ OpenedHasPosition
  /\ ReplacedBySuccessor
  /\ ClosesAfterOpening
  /\ MemoryMatchesClose

LEMMA StoreInvInit == Init => StoreInv
<1> SUFFICES ASSUME Init PROVE StoreInv
  OBVIOUS
<1>1. TypeOK
  BY InitType
<1>2. RowShape
  BY DEF Init, RowShape, NoRow
<1>3. OneOpenPerTicker /\ ClosesAfterOpening
  BY DEF Init, OneOpenPerTicker, ClosesAfterOpening, IsOpen, NoRow
<1>4. OpenedHasPosition /\ MemoryMatchesClose
  BY DEF Init, OpenedHasPosition, MemoryMatchesClose, NoDecision
<1>5. ReplacedBySuccessor
  BY DEF Init, ReplacedBySuccessor, NoRow, ReplacedReasons
<1>6. QED  BY <1>1, <1>2, <1>3, <1>4, <1>5 DEF StoreInv

LEMMA StoreInvStep == StoreInv /\ [Next]_storeVars => StoreInv'
<1> SUFFICES ASSUME StoreInv, [Next]_storeVars PROVE StoreInv'
  OBVIOUS
<1>1. CASE Next
  <2>1. TypeOK'
    BY <1>1, TypeStep DEF StoreInv
  <2>2. OpenedHasPosition'
    BY <1>1, DecisionStep DEF StoreInv, OpenedHasPosition
  <2>3. QED  BY <1>1, <2>1, <2>2, ShapeStep, OneOpenStep, SuccessorStep, ClosesAfterStep, MemoryStep DEF StoreInv
<1>2. CASE UNCHANGED storeVars
  BY <1>2 DEF StoreInv, storeVars, TypeOK, RowShape, OneOpenPerTicker, OpenedHasPosition, ReplacedBySuccessor,
              Succeeds, ClosesAfterOpening, MemoryMatchesClose, HasRow, IsOpen
<1>3. QED  BY <1>1, <1>2

LEMMA StoreInvHolds == Spec => []StoreInv
  BY StoreInvInit, StoreInvStep, PTL DEF Spec

-----------------------------------------------------------------------------
(* The theorems.                                                            *)

\* No ticker ever has two open positions, however the calls of commitThesis, the fills and
\* the exits interleave.
THEOREM OneOpenPerTickerHolds == Spec => []OneOpenPerTicker
<1>1. StoreInv => OneOpenPerTicker
  BY DEF StoreInv
<1>2. QED  BY <1>1, StoreInvHolds, PTL

\* Decision, position, successor and memory never contradict each other: 'opened' has its
\* position, what was replaced has a confident opposite successor that took its place, no
\* position closes before it opened, and an outcome is that of the close its row shows.
THEOREM BookIsConsistentHolds == Spec => []BookIsConsistent
<1>1. StoreInv => BookIsConsistent
  BY DEF StoreInv, BookIsConsistent
<1>2. QED  BY <1>1, StoreInvHolds, PTL

\* No call changes a closed row: a call opens an absent row, or closes or advances an open one.
LEMMA ClosedRowsStep == StoreInv /\ Next => ClosedRowsStay
<1> SUFFICES ASSUME StoreInv, Next, NEW p \in ThesisIds, positions[p].state = "closed"
             PROVE  positions'[p] = positions[p]
  BY DEF ClosedRowsStay
<1>1. QED  BY RowStep DEF StoreInv, Opens, Closes, Advances, HasRow, IsOpen

\* Only a commit and an expiry change a decision that is there, and only a pending one.
LEMMA DecisionsStep ==
  ASSUME StoreInv, Next, NEW id \in ThesisIds
  PROVE  DecisionStays(id)
<1>0. decisions[id] \in [status : Statuses \cup {"none"}, thesis : Theses \cup {NoThesis}]
  BY DEF StoreInv, TypeOK
<1>1. CASE Commit
  <2>1. PICK c \in Commits : CommitThesis(c)
    BY <1>1 DEF Commit
  <2>2. \/ decisions'[id] = decisions[id]
        \/ decisions'[id] = DecisionAfterCommit(decisions[id], Outcome(positions', c), c.thesis)
    BY <2>1, CommitTables DEF StoreInv, TypeOK
  <2>3. Outcome(positions', c) \in CommitStatuses
    BY DEF Outcome, CommitStatuses
  <2>4. QED  BY <1>0, <2>2, <2>3 DEF DecisionAfterCommit, DecisionStays
<1>2. CASE Decide
  BY <1>2 DEF Decide, InsertTradeDecision, StoreInv, TypeOK, DecisionStays
<1>3. CASE Expire
  <2>1. \/ decisions'[id] = decisions[id]
        \/ /\ decisions[id].status = "pending_entry"
           /\ decisions'[id] = [decisions[id] EXCEPT !.status = "skipped_no_fill"]
    BY <1>3 DEF Expire, ExpirePendingEntry, StoreInv, TypeOK
  <2>2. QED  BY <1>0, <2>1 DEF DecisionStays
<1>4. CASE Close \/ Check \/ Settle
  BY <1>4 DEF Close, Check, Settle, ClosePosition, AdvancePositionCheck, RecordDecisionOutcome, DecisionStays
<1>5. QED  BY <1>1, <1>2, <1>3, <1>4 DEF Next

\* What a table says for good stays said, whoever calls later: a closed row, and a decision
\* that is not pending, never change.
THEOREM RowsAreFinalHolds == Spec => RowsAreFinal
<1>1. StoreInv /\ [Next]_storeVars
        => [ClosedRowsStay /\ \A id \in ThesisIds : DecisionStays(id)]_storeVars
  BY ClosedRowsStep, DecisionsStep
<1>2. QED  BY <1>1, StoreInvHolds, PTL DEF Spec, RowsAreFinal

-----------------------------------------------------------------------------
(* Refinement: every step of the store is a step of TickerBook or changes    *)
(* nothing there.                                                           *)

past == {p \in ThesisIds : positions[p].state = "closed"}
holding == [t \in Tickers |-> OpenRowsOf(positions, t)]

LEMMA TickerOfType == \A p \in ThesisIds : TickerOf(p) \in Tickers
  BY ThesisIdsAssumption DEF TickerOf

\* A step that touches one ticker and leaves none of its open rows open, as the book sees it.
LEMMA BookStep ==
  ASSUME NEW t \in Tickers,
         \A p \in ThesisIds : TickerOf(p) # t => positions'[p] = positions[p],
         \A p \in ThesisIds : TickerOf(p) = t =>
            (positions'[p].state = "closed" <=> positions[p].state \in {"open", "closed"})
  PROVE  /\ past' = past \cup holding[t]
         /\ holding' = [holding EXCEPT ![t] = OpenRowsOf(positions', t)]
<1>1. past' = past \cup holding[t]
  BY DEF past, holding, OpenRowsOf, IsOpen
<1>2. \A u \in Tickers : u # t => OpenRowsOf(positions', u) = OpenRowsOf(positions, u)
  BY DEF OpenRowsOf, IsOpen
<1>3. holding' = [holding EXCEPT ![t] = OpenRowsOf(positions', t)]
  BY <1>2 DEF holding
<1>4. QED  BY <1>1, <1>3

LEMMA BookStutters ==
  ASSUME \A p \in ThesisIds : positions'[p].state = positions[p].state
  PROVE  holding' = holding /\ past' = past
  BY DEF holding, past, OpenRowsOf, IsOpen

LEMMA BookLeaves ==
  ASSUME NEW t \in Tickers, OpenRowsOf(positions, t) # {}, OpenRowsOf(positions', t) = {},
         \A p \in ThesisIds : TickerOf(p) # t => positions'[p] = positions[p],
         \A p \in ThesisIds : TickerOf(p) = t =>
            (positions'[p].state = "closed" <=> positions[p].state \in {"open", "closed"})
  PROVE  Book!Next
<1>1. Book!Leave(t)
  BY BookStep DEF Book!Leave, past, holding
<1>2. QED  BY <1>1 DEF Book!Next

LEMMA CommitRefines ==
  ASSUME StoreInv, NEW c \in Commits, MayCommit(c), CommitThesis(c)
  PROVE  Book!Next \/ (holding' = holding /\ past' = past)
<1> DEFINE closed == CloseOld(positions, c)
           t == TickerOf(c.id)
<1>1. /\ TypeOK /\ RowShape /\ positions \in TableType /\ closed \in TableType
      /\ positions' = OpenNew(closed, c)
      /\ c.id \in ThesisIds /\ t \in Tickers
  BY CommitTables, TickerOfType DEF StoreInv, Commits
<1>2. \A p \in ThesisIds : p # c.id => positions'[p] = closed[p]
  BY <1>1, OpenNewRow
<1>3. \A p \in ThesisIds : TickerOf(p) # t => positions'[p] = positions[p]
  BY <1>1, <1>2, CloseOldRow
<1>4. closed[c.id] = positions[c.id]
  BY <1>1, CloseOldRow
<1>5. CASE ~HasRow(positions, c.id) /\ HasRow(positions', c.id)
  <2>1. positions'[c.id] = NewRow(c) /\ OpenRowsOf(positions', t) = {c.id}
    BY <1>1, <1>5, CommitOwnRow
  <2>2. CommitAllowed(positions, c)
    <3>1. positions'[c.id] # closed[c.id]
      BY <1>4, <1>5 DEF HasRow
    <3>2. CommitAllowed(closed, c)
      BY <1>1, <3>1, OpenNewRow
    <3>3. QED  BY <1>1, <3>2, BatchIsConsistent
  <2>3. \A p \in ThesisIds : TickerOf(p) = t =>
          (positions'[p].state = "closed" <=> positions[p].state \in {"open", "closed"})
    <3> TAKE p \in ThesisIds
    <3>1. positions[p] \in RowType
      BY <1>1 DEF TableType
    <3>2. CASE p = c.id
      BY <1>5, <2>1, <3>2 DEF NewRow, HasRow, RowType
    <3>3. CASE p # c.id
      BY <1>1, <1>2, <2>2, <3>1, <3>3, CloseOldRow, ReplacedRowFields DEF IsOpen, RowType
    <3>4. QED  BY <3>2, <3>3
  <2>4. /\ past' = past \cup holding[t]
        /\ holding' = [holding EXCEPT ![t] = {c.id}]
    BY <1>1, <1>3, <2>1, <2>3, BookStep
  <2>5. Book!IsNew(c.id)
    BY <1>5 DEF Book!IsNew, HasRow, OpenRowsOf, IsOpen
  <2>6. CASE holding[t] = {}
    <3>1. Book!Enter(t, c.id)
      BY <2>4, <2>5, <2>6 DEF Book!Enter, past, holding
    <3>2. QED  BY <1>1, <3>1 DEF Book!Next
  <2>7. CASE holding[t] # {}
    <3>1. Book!Switch(t, c.id)
      BY <2>4, <2>5, <2>7 DEF Book!Switch, past, holding
    <3>2. QED  BY <1>1, <3>1 DEF Book!Next
  <2>8. QED  BY <2>6, <2>7
<1>6. CASE ~(~HasRow(positions, c.id) /\ HasRow(positions', c.id))
  <2>1. positions' = closed
    <3>1. ASSUME positions'[c.id] # closed[c.id]  PROVE FALSE
      <4>1. positions'[c.id] = NewRow(c) /\ ~HasRow(closed, c.id)
        BY <1>1, <3>1, OpenNewRow
      <4>2. ~HasRow(positions, c.id)
        BY <1>4, <4>1 DEF HasRow
      <4>3. HasRow(positions', c.id)
        BY <4>1 DEF HasRow, NewRow
      <4>4. QED  BY <1>6, <4>2, <4>3
    <3>2. positions' \in TableType
      BY CommitTables DEF StoreInv
    <3>3. QED  BY <1>1, <1>2, <3>1, <3>2 DEF TableType
  <2>2. CASE ~CommitAllowed(positions, c)
    BY <2>1, <2>2, BookStutters DEF CloseOld
  <2>3. CASE CommitAllowed(positions, c)
    <3>1. HasRow(positions', c.id)
      BY <2>3, CommitOwnRow DEF StoreInv
    <3>2. HasRow(positions, c.id)
      BY <1>6, <3>1
    <3>3. CASE IsOpen(positions, c.id) \/ OpenRowsOf(positions, t) = {}
      <4>1. \A p \in ThesisIds : ~(p # c.id /\ IsOpen(positions, p) /\ TickerOf(p) = t)
        BY <1>1, <3>3 DEF StoreInv, OneOpenPerTicker, OpenRowsOf
      <4>2. QED  BY <1>1, <2>1, <4>1, CloseOldRow, BookStutters
    <3>4. CASE ~IsOpen(positions, c.id) /\ OpenRowsOf(positions, t) # {}
      <4>1. \A p \in ThesisIds : TickerOf(p) = t =>
              (positions'[p].state = "closed" <=> positions[p].state \in {"open", "closed"})
        <5> TAKE p \in ThesisIds
        <5>1. positions[p] \in RowType
          BY <1>1 DEF TableType
        <5>2. CASE p = c.id
          BY <1>4, <2>1, <3>2, <3>4, <5>1, <5>2 DEF HasRow, IsOpen, RowType
        <5>3. CASE p # c.id
          BY <1>1, <1>2, <2>3, <5>1, <5>3, CloseOldRow, ReplacedRowFields DEF IsOpen, RowType
        <5>4. QED  BY <5>2, <5>3
      <4>2. OpenRowsOf(positions', t) = {}
        BY <1>1, <2>1, <2>3, <3>4, <1>4, BatchIsConsistent DEF OpenRowsOf, IsOpen
      <4>3. QED  BY <1>1, <1>3, <3>4, <4>1, <4>2, BookLeaves
    <3>5. QED  BY <3>3, <3>4
  <2>4. QED  BY <2>2, <2>3
<1>7. QED  BY <1>5, <1>6

LEMMA CloseRefines ==
  ASSUME StoreInv, Close
  PROVE  Book!Next \/ (holding' = holding /\ past' = past)
<1>1. TypeOK /\ positions \in TableType
  BY DEF StoreInv, TypeOK, TableType
<1>2. PICK id \in ThesisIds, at \in Instants, reason \in CloseReasons \ ReplacedReasons :
        ClosePosition(id, at, reason)
  BY DEF Close
<1>3. \A p \in ThesisIds : p # id => positions'[p] = positions[p]
  BY <1>1, <1>2 DEF ClosePosition, TableType
<1>4. CASE ~IsOpen(positions, id)
  <2>1. \A p \in ThesisIds : positions'[p].state = positions[p].state
    BY <1>1, <1>2, <1>4 DEF ClosePosition, IsOpen, TableType
  <2>2. QED  BY <2>1, BookStutters
<1>5. CASE IsOpen(positions, id)
  <2> DEFINE t == TickerOf(id)
  <2>1. t \in Tickers
    BY TickerOfType
  <2>2. positions'[id].state = "closed"
    BY <1>1, <1>2, <1>5 DEF ClosePosition, IsOpen, TableType, RowType
  <2>3. \A p \in ThesisIds : p # id /\ TickerOf(p) = t => ~IsOpen(positions, p)
    BY <1>5 DEF StoreInv, OneOpenPerTicker
  <2>4. OpenRowsOf(positions, t) # {}
    BY <1>5 DEF OpenRowsOf
  <2>5. OpenRowsOf(positions', t) = {}
    BY <1>3, <2>2, <2>3 DEF OpenRowsOf, IsOpen
  <2>6. \A p \in ThesisIds : TickerOf(p) # t => positions'[p] = positions[p]
    BY <1>3
  <2>7. \A p \in ThesisIds : TickerOf(p) = t =>
          (positions'[p].state = "closed" <=> positions[p].state \in {"open", "closed"})
    BY <1>3, <1>5, <2>2, <2>3 DEF IsOpen
  <2>8. QED  BY <2>1, <2>4, <2>5, <2>6, <2>7, BookLeaves
<1>6. QED  BY <1>4, <1>5

LEMMA BookNext ==
  ASSUME StoreInv, [Next]_storeVars
  PROVE  Book!Next \/ (holding' = holding /\ past' = past)
<1>1. CASE Commit
  BY <1>1, CommitRefines DEF Commit
<1>2. CASE Close
  BY <1>2, CloseRefines
<1>3. CASE Check
  <2>1. \A p \in ThesisIds : positions'[p].state = positions[p].state
    BY <1>3 DEF Check, AdvancePositionCheck, StoreInv, TypeOK
  <2>2. QED  BY <2>1, BookStutters
<1>4. CASE Decide \/ Expire \/ Settle \/ UNCHANGED storeVars
  <2>1. positions' = positions
    BY <1>4 DEF Decide, Expire, Settle, InsertTradeDecision, ExpirePendingEntry,
                RecordDecisionOutcome, storeVars
  <2>2. QED  BY <2>1, BookStutters
<1>5. QED  BY <1>1, <1>2, <1>3, <1>4 DEF Next

\* The store implements TickerBook: whatever the callers do, a ticker holds one thesis at a
\* time, takes on only a thesis that was never held, and every other effect is hidden.
THEOREM ImplementsTickerBook == Spec => KeepsOneThesisPerTicker
<1>1. Init => Book!Init
  BY DEF Init, Book!Init, NoRow, OpenRowsOf, IsOpen
<1>2. StoreInv /\ [Next]_storeVars => [Book!Next]_(Book!bookVars)
  BY BookNext DEF Book!bookVars, past, holding
<1>3. QED
  BY <1>1, <1>2, StoreInvHolds, PTL DEF Spec, KeepsOneThesisPerTicker, Book!Spec

-----------------------------------------------------------------------------
(* Sums over the rows of a table.  The fold is a recursive function, chosen  *)
(* by its equation: that there is one, and what it says of a set, are shown  *)
(* by the least set, or the least size, for which it would not.              *)

LEMMA LeastOf ==
  ASSUME NEW T, T \subseteq Nat, T # {}
  PROVE  \E x \in T : \A y \in T : x <= y
<1> DEFINE less == {ss \in Nat \X Nat : ss[1] < ss[2]}
<1>1. IsWellFoundedOn(less, Nat)
  BY NatLessThanWellFounded DEF OpToRel
<1>2. \E x \in T : \A y \in T : ~ (<<y, x>> \in less)
  <2> HIDE DEF less
  <2> QED  BY <1>1, WFMin
<1>3. PICK x \in T : \A y \in T : ~ (<<y, x>> \in less)
  BY <1>2
<1>4. ASSUME NEW y \in T, y < x PROVE FALSE
  BY <1>3, <1>4
<1>5. QED  BY <1>4

LEMMA SmallestSubset ==
  ASSUME NEW S, IsFiniteSet(S), NEW bad, bad \subseteq SUBSET S, bad # {}
  PROVE  \E s \in bad : \A x \in s : s \ {x} \notin bad
<1> DEFINE smaller == StrictSubsetOrdering(S)
<1>1. IsWellFoundedOn(smaller, SUBSET S)
  BY FS_StrictSubsetOrderingWellFounded, FS_FiniteSubsetsOfFinite
<1>2. \E s \in bad : \A u \in bad : ~ (<<u, s>> \in smaller)
  <2> HIDE DEF smaller
  <2> QED  BY <1>1, WFMin
<1>3. PICK s \in bad : \A u \in bad : ~ (<<u, s>> \in smaller)
  BY <1>2
<1>4. ASSUME NEW x \in s PROVE <<s \ {x}, s>> \in smaller
  BY DEF StrictSubsetOrdering
<1>5. QED  BY <1>3, <1>4

Pick(s) == CHOOSE y \in s : TRUE
Body(f, iter, s) == IF s = {} THEN 0 ELSE f[Pick(s)] + iter[s \ {Pick(s)}]
Unfolds(f, S, iter) == iter = [s \in SUBSET S |-> Body(f, iter, s)]
Iter(f, S) == CHOOSE iter : Unfolds(f, S, iter)

LEMMA SumIsIter == \A f, S : SumFunctionOnSet(f, S) = Iter(f, S)[S]
<1>1. \A f, S : SumFunctionOnSet(f, S) =
        (CHOOSE iter : iter = [s \in SUBSET S |-> IF s = {} THEN 0
                               ELSE LET x == CHOOSE y \in s : TRUE IN f[x] + iter[s \ {x}]])[S]
  BY DEF SumFunctionOnSet, FoldFunctionOnSet, MapThenFoldSet
<1>2. QED  BY <1>1 DEF Iter, Unfolds, Body, Pick

\* A sum only looks at the values of the set.
LEMMA SumCongruence ==
  ASSUME NEW f, NEW g, NEW S, \A x \in S : f[x] = g[x]
  PROVE  SumFunctionOnSet(f, S) = SumFunctionOnSet(g, S)
<1>1. \A iter : \A s \in SUBSET S : Body(f, iter, s) = Body(g, iter, s)
  <2>1. \A s \in SUBSET S : s # {} => Pick(s) \in S
    BY DEF Pick
  <2>2. QED  BY <2>1 DEF Body
<1>2. \A iter : Unfolds(f, S, iter) <=> Unfolds(g, S, iter)
  BY <1>1 DEF Unfolds
<1>3. Iter(f, S) = Iter(g, S)
  BY <1>2, Zenon DEF Iter
<1>4. QED  BY <1>3, SumIsIter

LEMMA IterExists ==
  ASSUME NEW f, NEW S, IsFiniteSet(S)
  PROVE  \E iter : Unfolds(f, S, iter)
<1> DEFINE Upto(n, iter) == \A s \in SUBSET S : Cardinality(s) <= n => iter[s] = Body(f, iter, s)
           Bad == {n \in Nat : ~\E iter : Upto(n, iter)}
<1>1. \A s \in SUBSET S : /\ IsFiniteSet(s) /\ Cardinality(s) \in Nat /\ Cardinality(s) <= Cardinality(S)
                          /\ s # {} => Pick(s) \in s /\ Cardinality(s \ {Pick(s)}) = Cardinality(s) - 1
                          /\ (Cardinality(s) = 0) <=> (s = {})
  <2> SUFFICES ASSUME NEW s \in SUBSET S
               PROVE  /\ IsFiniteSet(s) /\ Cardinality(s) \in Nat /\ Cardinality(s) <= Cardinality(S)
                      /\ s # {} => Pick(s) \in s /\ Cardinality(s \ {Pick(s)}) = Cardinality(s) - 1
                      /\ (Cardinality(s) = 0) <=> (s = {})
    OBVIOUS
  <2>1. IsFiniteSet(s) /\ Cardinality(s) <= Cardinality(S)
    BY FS_Subset
  <2>2. s # {} => Pick(s) \in s
    BY DEF Pick
  <2>3. QED  BY <2>1, <2>2, FS_RemoveElement, FS_CardinalityType, FS_EmptySet
<1>2. ASSUME Bad # {} PROVE FALSE
  <2>1. PICK n \in Bad : \A m \in Bad : n <= m
    BY <1>2, LeastOf
  <2>2. CASE n = 0
    <3> DEFINE zero == [s \in SUBSET S |-> 0]
    <3>1. \A s \in SUBSET S : Cardinality(s) <= 0 => zero[s] = Body(f, zero, s)
      <4>1. ASSUME NEW s \in SUBSET S, Cardinality(s) <= 0 PROVE s = {}
        <5>1. Cardinality(s) \in Nat
          BY <1>1
        <5>2. Cardinality(s) = 0
          BY <4>1, <5>1
        <5>3. QED  BY <1>1, <5>2
      <4>2. QED  BY <4>1 DEF Body
    <3>2. QED  BY <2>1, <2>2, <3>1
  <2>3. CASE n # 0
    <3>1. n - 1 \in Nat /\ n - 1 \notin Bad
      BY <2>1, <2>3
    <3>2. PICK iter : Upto(n - 1, iter)
      BY <3>1
    <3> DEFINE next == [s \in SUBSET S |-> IF Cardinality(s) <= n - 1 THEN iter[s] ELSE Body(f, iter, s)]
    <3>3. ASSUME NEW s \in SUBSET S, Cardinality(s) <= n PROVE next[s] = Body(f, next, s)
      <4>1. next[s] = Body(f, iter, s)
        BY <3>2
      <4>2. s # {} => /\ s \ {Pick(s)} \in SUBSET S
                      /\ Cardinality(s \ {Pick(s)}) <= n - 1
        BY <1>1, <3>3
      <4>3. s # {} => next[s \ {Pick(s)}] = iter[s \ {Pick(s)}]
        BY <4>2
      <4> HIDE DEF next
      <4>4. QED  BY <4>1, <4>3 DEF Body
    <3> HIDE DEF next
    <3>4. Upto(n, next)
      BY <3>3
    <3>5. QED  BY <2>1, <3>4
  <2>4. QED  BY <2>2, <2>3
<1>3. Cardinality(S) \in Nat
  BY FS_CardinalityType
<1>4. PICK iter : Upto(Cardinality(S), iter)
  BY <1>2, <1>3
<1> DEFINE whole == [s \in SUBSET S |-> iter[s]]
<1>5. ASSUME NEW s \in SUBSET S PROVE iter[s] = Body(f, whole, s)
  <2>1. iter[s] = Body(f, iter, s)
    BY <1>1, <1>4
  <2>2. s # {} => whole[s \ {Pick(s)}] = iter[s \ {Pick(s)}]
    OBVIOUS
  <2>3. QED  BY <2>1, <2>2 DEF Body
<1>6. Unfolds(f, S, whole)
  BY <1>5 DEF Unfolds
<1>7. QED  BY <1>6

LEMMA IterUnfolds ==
  ASSUME NEW f, NEW S, IsFiniteSet(S), NEW s \in SUBSET S
  PROVE  Iter(f, S)[s] = Body(f, Iter(f, S), s)
<1>1. Unfolds(f, S, Iter(f, S))
  BY IterExists DEF Iter
<1>2. QED  BY <1>1 DEF Unfolds

\* The sum over a subset is the same whichever set it is a subset of.
LEMMA IterOfSubset ==
  ASSUME NEW f, NEW S, IsFiniteSet(S), NEW T \in SUBSET S
  PROVE  Iter(f, S)[T] = SumFunctionOnSet(f, T)
<1> DEFINE bad == {s \in SUBSET T : Iter(f, S)[s] # Iter(f, T)[s]}
<1>1. IsFiniteSet(T)
  BY FS_Subset
<1>2. ASSUME bad # {} PROVE FALSE
  <2>1. PICK s \in bad : \A x \in s : s \ {x} \notin bad
    <3> HIDE DEF bad
    <3>1. bad \subseteq SUBSET T
      BY DEF bad
    <3>2. QED  BY <1>1, <1>2, <3>1, SmallestSubset
  <2>2. Iter(f, S)[s] = Body(f, Iter(f, S), s) /\ Iter(f, T)[s] = Body(f, Iter(f, T), s)
    BY <1>1, <2>1, IterUnfolds
  <2>3. s # {} => Iter(f, S)[s \ {Pick(s)}] = Iter(f, T)[s \ {Pick(s)}]
    BY <2>1 DEF Pick
  <2>4. QED  BY <2>1, <2>2, <2>3 DEF Body
<1>3. QED  BY <1>2, SumIsIter

LEMMA SumEmpty == \A f : SumFunctionOnSet(f, {}) = 0
  BY FS_EmptySet, SumIsIter, IterUnfolds DEF Body

LEMMA SumPick ==
  ASSUME NEW f, NEW S, IsFiniteSet(S), S # {}
  PROVE  SumFunctionOnSet(f, S) = f[Pick(S)] + SumFunctionOnSet(f, S \ {Pick(S)})
<1>1. Iter(f, S)[S] = f[Pick(S)] + Iter(f, S)[S \ {Pick(S)}]
  BY IterUnfolds DEF Body
<1>2. QED  BY <1>1, SumIsIter, IterOfSubset

LEMMA SumIsNat ==
  ASSUME NEW f, NEW S, IsFiniteSet(S), \A x \in S : f[x] \in Nat
  PROVE  SumFunctionOnSet(f, S) \in Nat
<1> DEFINE bad == {s \in SUBSET S : SumFunctionOnSet(f, s) \notin Nat}
<1>1. ASSUME bad # {} PROVE FALSE
  <2>1. PICK s \in bad : \A x \in s : s \ {x} \notin bad
    <3> HIDE DEF bad
    <3>1. bad \subseteq SUBSET S
      BY DEF bad
    <3>2. QED  BY <1>1, <3>1, SmallestSubset
  <2>2. s # {} /\ IsFiniteSet(s)
    <3>1. SumFunctionOnSet(f, {}) = 0
      BY SumEmpty
    <3>2. s # {}
      BY <2>1, <3>1
    <3>3. IsFiniteSet(s)
      BY <2>1, FS_Subset
    <3>4. QED  BY <3>2, <3>3
  <2>3. Pick(s) \in s /\ s \ {Pick(s)} \in SUBSET S
    BY <2>1, <2>2 DEF Pick
  <2>4. SumFunctionOnSet(f, s \ {Pick(s)}) \in Nat
    BY <2>1, <2>3
  <2>5. QED  BY <2>1, <2>2, <2>3, <2>4, SumPick
<1>2. QED  BY <1>1

\* Any element may be taken out first.
LEMMA SumTakes ==
  ASSUME NEW f, NEW S, IsFiniteSet(S), \A x \in S : f[x] \in Nat, NEW y \in S
  PROVE  SumFunctionOnSet(f, S) = f[y] + SumFunctionOnSet(f, S \ {y})
<1> DEFINE sum(s) == SumFunctionOnSet(f, s)
           bad == {s \in SUBSET S : \E x \in s : sum(s) # f[x] + sum(s \ {x})}
<1>1. ASSUME bad # {} PROVE FALSE
  <2>1. PICK s \in bad : \A x \in s : s \ {x} \notin bad
    <3> HIDE DEF bad
    <3>1. bad \subseteq SUBSET S
      BY DEF bad
    <3>2. QED  BY <1>1, <3>1, SmallestSubset
  <2>2. PICK x \in s : sum(s) # f[x] + sum(s \ {x})
    BY <2>1
  <2>3. IsFiniteSet(s) /\ s \in SUBSET S
    BY <2>1, FS_Subset
  <2>4. PICK p \in s : sum(s) = f[p] + sum(s \ {p})
    BY <2>2, <2>3, SumPick DEF Pick
  <2>5. p # x
    BY <2>2, <2>4
  <2>6. sum(s \ {p}) = f[x] + sum((s \ {p}) \ {x}) /\ sum(s \ {x}) = f[p] + sum((s \ {x}) \ {p})
    BY <2>1, <2>3, <2>5
  <2>7. (s \ {p}) \ {x} = (s \ {x}) \ {p} /\ IsFiniteSet((s \ {x}) \ {p})
    BY <2>3, FS_Subset
  <2>8. sum((s \ {x}) \ {p}) \in Nat /\ f[x] \in Nat /\ f[p] \in Nat
    BY <2>3, <2>7, SumIsNat
  <2>9. PICK rest \in Nat : sum((s \ {p}) \ {x}) = rest /\ sum((s \ {x}) \ {p}) = rest
    BY <2>7, <2>8
  <2> HIDE DEF sum
  <2>10. QED  BY <2>2, <2>4, <2>6, <2>8, <2>9
<1>2. QED  BY <1>1

LEMMA SumGrows ==
  ASSUME NEW f, NEW S, IsFiniteSet(S), \A x \in S : f[x] \in Nat, NEW T \in SUBSET S
  PROVE  SumFunctionOnSet(f, T) <= SumFunctionOnSet(f, S)
<1> DEFINE sum(s) == SumFunctionOnSet(f, s)
           bad == {s \in SUBSET S : \E t \in SUBSET s : ~(sum(t) <= sum(s))}
<1>0. \A s \in SUBSET S : IsFiniteSet(s) /\ sum(s) \in Nat
  BY FS_Subset, SumIsNat
<1>1. ASSUME bad # {} PROVE FALSE
  <2>1. PICK s \in bad : \A x \in s : s \ {x} \notin bad
    <3> HIDE DEF bad
    <3>1. bad \subseteq SUBSET S
      BY DEF bad
    <3>2. QED  BY <1>1, <3>1, SmallestSubset
  <2>2. PICK t \in SUBSET s : ~(sum(t) <= sum(s))
    BY <2>1
  <2>3. t # s
    BY <1>0, <2>1, <2>2
  <2>4. PICK y \in s : y \notin t
    BY <2>3
  <2>5. sum(t) <= sum(s \ {y})
    BY <2>1, <2>4
  <2>6. sum(s) = f[y] + sum(s \ {y}) /\ f[y] \in Nat
    BY <1>0, <2>1, SumTakes
  <2>7. sum(t) \in Nat /\ sum(s \ {y}) \in Nat
    BY <1>0, <2>1
  <2> HIDE DEF sum
  <2>8. QED  BY <2>2, <2>5, <2>6, <2>7
<1>2. QED  BY <1>1

\* A commit that opens a row says so: what the third statement sees is what the second saw,
\* and the new row, which no guard of its own commit counts.
LEMMA NewRowIsOpened ==
  ASSUME TypeOK, NEW c \in Commits, MayCommit(c), CommitThesis(c),
         ~HasRow(positions, c.id), HasRow(positions', c.id)
  PROVE  Outcome(positions', c) = "opened" /\ CommitAllowed(positions, c)
<1> DEFINE closed == CloseOld(positions, c)
<1>1. /\ positions \in TableType /\ closed \in TableType /\ positions' \in TableType
      /\ positions' = OpenNew(closed, c)
      /\ c.id \in ThesisIds /\ c.asOf \in Nat
  BY CommitTables, InstantsAssumption DEF Commits
<1>2. closed[c.id] = positions[c.id]
  BY <1>1, CloseOldRow
<1>3. /\ CommitAllowed(closed, c) /\ positions'[c.id] = NewRow(c)
      /\ OpenRowsOf(positions', TickerOf(c.id)) = {c.id}
  BY <1>1, <1>2, OpenNewRow, CommitOwnRow DEF HasRow
<1>4. CommitAllowed(positions, c)
  BY <1>1, <1>3, BatchIsConsistent
<1> HIDE DEF closed
<1>5. \A p \in ThesisIds : TickerOf(p) # TickerOf(c.id) => positions'[p] = closed[p]
  BY <1>1, OpenNewRow
<1>6. Others(positions', c) = Others(closed, c)
  BY <1>5 DEF Others, OpenPositionsAsOf, IsOpenAsOf, IsOpen, HasRow
<1>7. SameWayPeers(positions', c) = SameWayPeers(closed, c)
  BY <1>5, <1>6 DEF SameWayPeers, Others, OpenPositionsAsOf
<1>8. ASSUME NEW S \in SUBSET Others(closed, c)
      PROVE  /\ ExposureOf(positions', S) = ExposureOf(closed, S)
             /\ StopRiskOf(positions', S) = StopRiskOf(closed, S)
  <2>1. \A p \in S : p \in ThesisIds /\ positions'[p] = closed[p]
    BY <1>5 DEF Others, OpenPositionsAsOf
  <2>2. PICK f, g : /\ f = [q \in ThesisIds |-> positions'[q].thesis.size]
                    /\ g = [q \in ThesisIds |-> closed[q].thesis.size]
    OBVIOUS
  <2>3. PICK h, k : /\ h = [q \in ThesisIds |-> positions'[q].thesis.size * positions'[q].thesis.stop]
                    /\ k = [q \in ThesisIds |-> closed[q].thesis.size * closed[q].thesis.stop]
    OBVIOUS
  <2>4. \A p \in S : f[p] = g[p] /\ h[p] = k[p]
    BY <2>1, <2>2, <2>3
  <2>5. SumFunctionOnSet(f, S) = SumFunctionOnSet(g, S) /\ SumFunctionOnSet(h, S) = SumFunctionOnSet(k, S)
    BY <2>4, SumCongruence
  <2>6. QED  BY <2>2, <2>3, <2>5 DEF ExposureOf, StopRiskOf
<1>9. SameWayPeers(closed, c) \subseteq Others(closed, c)
  BY DEF SameWayPeers
<1>10. ~BreachesCeiling(positions', c)
  BY <1>3, <1>6, <1>7, <1>8, <1>9 DEF CommitAllowed, BreachesCeiling
<1>11. ~NewerOpen(positions', c) /\ ~HoldExists(positions', c)
  BY <1>1, <1>3 DEF NewerOpen, HoldExists, NewRow
<1>12. QED  BY <1>4, <1>10, <1>11 DEF Outcome

=============================================================================

------------------------------ MODULE RunStore ------------------------------
(***************************************************************************)
(* The trading rows of one environment (storage/run_store.js): positions,  *)
(* trade_decisions and decision_memory, and every statement or atomic      *)
(* batch that writes them.  A call is one step: D1 runs a statement, or a  *)
(* db.batch, as one transaction.  Next is any sequence of calls, from any  *)
(* number of concurrent callers, that keeps the callers' contract; the     *)
(* callers themselves are in LiveEngine, which implements this module.     *)
(*                                                                         *)
(* A row's key is its thesis id `ticker|asOf`, here the pair <<ticker,     *)
(* asOf>>.  Prices and texts are abstracted: a thesis keeps its direction, *)
(* whether its confidence reaches flipMinConfidence, and its size and stop *)
(* in whole risk units.                                                    *)
(*                                                                         *)
(* D_Change, just before a definition D, is D with a plausible bug in it;  *)
(* README.md says what these are for.                                      *)
(***************************************************************************)
EXTENDS Integers, FiniteSets, Functions

CONSTANTS
  Tickers,            \* the watchlist
  Instants,           \* timestamps; every stored date is one of them
  ThesisIds,          \* the thesis ids that can occur, `ticker|asOf`
  Theses,             \* what a thesis can say, see ThesisType
  DirectStatuses,     \* the statuses that insertTradeDecision is called with
  GroupOf,            \* shared/constants.js TICKER_GROUPS
  GroupCap,           \* groupCapOf
  MaxPortfolioRisk,   \* MAX_PORTFOLIO_RISK_PCT
  MaxStopRisk         \* MAX_PORTFOLIO_STOP_RISK_PCT

Directions == {"long", "short"}
ThesisType == [direction : Directions, confident : BOOLEAN, size : Nat, stop : Nat]

ASSUME InstantsAssumption == Instants \subseteq Nat \ {0}
ASSUME ThesisIdsAssumption == ThesisIds \subseteq Tickers \X Instants
ASSUME ThesesAssumption == Theses \subseteq ThesisType
ASSUME CeilingsAssumption == MaxPortfolioRisk \in Nat /\ MaxStopRisk \in Nat
ASSUME DirectStatusesAssumption ==
  DirectStatuses \subseteq {"rejected", "skipped_no_price_data", "skipped_irrelevant", "pending_entry"}

TickerOf(id) == id[1]
DecidedAt(id) == id[2]

CloseReasons == {"stop_or_target", "time_based", "replaced", "flipped"}
ReplacedReasons == {"replaced", "flipped"}
\* The statuses that commitThesis derives.
CommitStatuses == {"opened", "held", "rejected", "superseded"}
Statuses == DirectStatuses \cup CommitStatuses \cup {"skipped_no_fill"}

NoThesis == [direction |-> "none", confident |-> FALSE, size |-> 0, stop |-> 0]
NoRow == [state |-> "absent", thesis |-> NoThesis, openedAt |-> 0, closedAt |-> 0,
          reason |-> "none", lastCheckedAt |-> 0]
NoDecision == [status |-> "none", thesis |-> NoThesis]
NoMemory == [resolvedAt |-> 0, reason |-> "none"]

VARIABLES
  positions,   \* positions, by thesis id; NoRow when there is no row.  A NULL
               \* last_checked_at reads as opened_at, as in exitWindowStart
  decisions,   \* trade_decisions: status and the stored thesis
  memory       \* decision_memory: when and why the outcome was resolved

storeVars == <<positions, decisions, memory>>

-----------------------------------------------------------------------------
(* Reads.  `table` is the positions table a statement sees: the statements  *)
(* of one batch each see what the ones before them wrote.                   *)

HasRow(table, id) == table[id].state # "absent"
IsOpen(table, id) == table[id].state = "open"
OpenRowsOf(table, ticker) == {p \in ThesisIds : IsOpen(table, p) /\ TickerOf(p) = ticker}

\* opened_at <= asOf AND (closed_at IS NULL OR closed_at > asOf)
IsOpenAsOf(table, id, asOf) ==
  /\ HasRow(table, id)
  /\ table[id].openedAt <= asOf
  /\ IsOpen(table, id) \/ table[id].closedAt > asOf
OpenPositionsAsOf(table, asOf) == {p \in ThesisIds : IsOpenAsOf(table, p, asOf)}

ExposureOf(table, S) == SumFunctionOnSet([p \in ThesisIds |-> table[p].thesis.size], S)
StopRiskOf(table, S) ==
  SumFunctionOnSet([p \in ThesisIds |-> table[p].thesis.size * table[p].thesis.stop], S)

\* getOpenPositionForTickerAsOf: ORDER BY opened_at DESC LIMIT 1.  The possible
\* results, each the set of the row that was read, or {} for none.
OpenPositionForTickerAsOf(ticker, asOf) ==
  LET rows == {p \in OpenPositionsAsOf(positions, asOf) : TickerOf(p) = ticker}
      latest == {p \in rows : \A q \in rows : positions[q].openedAt <= positions[p].openedAt}
  IN  IF rows = {} THEN {{}} ELSE {{p} : p \in latest}

UnsettledReplaced(ticker, closedAt) ==
  {p \in ThesisIds : /\ TickerOf(p) = ticker
                     /\ positions[p].state = "closed"
                     /\ positions[p].closedAt = closedAt
                     /\ positions[p].reason \in ReplacedReasons
                     /\ memory[p] = NoMemory}

PendingEntriesAsOf(asOf) ==
  {d \in ThesisIds : decisions[d].status = "pending_entry" /\ DecidedAt(d) <= asOf}

-----------------------------------------------------------------------------
(* commitThesis.  A commit c is [id, asOf, thesis, breakerTripped]: asOf is *)
(* the thesis's own instant, or the fill bar's open for a pending entry.    *)

Commits == [id : ThesisIds, asOf : Instants, thesis : Theses, breakerTripped : BOOLEAN]

Others_Earlier(table, c) ==
  {p \in OpenPositionsAsOf(table, c.asOf) :
     TickerOf(p) # TickerOf(c.id) /\ table[p].openedAt < c.asOf}
Others(table, c) == {p \in OpenPositionsAsOf(table, c.asOf) : TickerOf(p) # TickerOf(c.id)}
GroupPeers(c) == {t \in Tickers \ {TickerOf(c.id)} : GroupOf[t] = GroupOf[TickerOf(c.id)]}
SameWayPeers(table, c) ==
  {p \in Others(table, c) : /\ TickerOf(p) \in GroupPeers(c)
                            /\ table[p].thesis.direction = c.thesis.direction}

\* P1: an open row of this ticker opened after asOf.
NewerOpen_Unchecked(table, c) == FALSE
NewerOpen(table, c) ==
  \E p \in OpenRowsOf(table, TickerOf(c.id)) : table[p].openedAt > c.asOf
\* P2, P2b, P2c; P2d is the breaker's verdict, the same for the three statements.
BreachesCeiling(table, c) ==
  \/ ExposureOf(table, Others(table, c)) + c.thesis.size > MaxPortfolioRisk
  \/ StopRiskOf(table, Others(table, c)) + c.thesis.size * c.thesis.stop > MaxStopRisk
  \/ /\ GroupPeers(c) # {}
     /\ ExposureOf(table, SameWayPeers(table, c)) + c.thesis.size > GroupCap[GroupOf[TickerOf(c.id)]]
  \/ c.breakerTripped
\* P3: another open row of this ticker that this thesis must not replace.
HeldBy_AnyConfidence(thesis, row) == row.thesis.direction = thesis.direction
HeldBy(thesis, row) == row.thesis.direction = thesis.direction \/ ~thesis.confident
HoldExists(table, c) ==
  \E p \in OpenRowsOf(table, TickerOf(c.id)) \ {c.id} : HeldBy(c.thesis, table[p])

CommitAllowed(table, c) == ~NewerOpen(table, c) /\ ~BreachesCeiling(table, c) /\ ~HoldExists(table, c)

\* Statement 1: close this ticker's other open rows.
ReplacedRow(row, c) ==
  [row EXCEPT !.state = "closed", !.closedAt = c.asOf,
              !.reason = IF row.thesis.direction # c.thesis.direction THEN "flipped" ELSE "replaced"]
CloseOld(table, c) ==
  IF CommitAllowed(table, c)
  THEN [p \in ThesisIds |-> IF p # c.id /\ IsOpen(table, p) /\ TickerOf(p) = TickerOf(c.id)
                            THEN ReplacedRow(table[p], c) ELSE table[p]]
  ELSE table

\* Statement 2: INSERT OR IGNORE; a row with this id, or the unique index on the
\* ticker's open rows, makes it do nothing.
NewRow(c) == [state |-> "open", thesis |-> c.thesis, openedAt |-> c.asOf, closedAt |-> 0,
              reason |-> "none", lastCheckedAt |-> 0]
OpenNew_Unguarded(table, c) ==
  IF ~NewerOpen(table, c) /\ ~BreachesCeiling(table, c) /\ ~HasRow(table, c.id)
  THEN [table EXCEPT ![c.id] = NewRow(c)] ELSE table
OpenNew_OrReplace(table, c) ==
  IF CommitAllowed(table, c) /\ OpenRowsOf(table, TickerOf(c.id)) = {}
  THEN [table EXCEPT ![c.id] = NewRow(c)] ELSE table
OpenNew(table, c) ==
  IF /\ CommitAllowed(table, c)
     /\ ~HasRow(table, c.id)
     /\ OpenRowsOf(table, TickerOf(c.id)) = {}
  THEN [table EXCEPT ![c.id] = NewRow(c)] ELSE table

\* Statement 3: the decision, always; an existing row changes only if it is pending.
Outcome_NoCeiling(table, c) ==
  IF NewerOpen(table, c) THEN "superseded" ELSE IF HoldExists(table, c) THEN "held" ELSE "opened"
Outcome(table, c) ==
  IF NewerOpen(table, c) THEN "superseded"
  ELSE IF HoldExists(table, c) THEN "held"
  ELSE IF BreachesCeiling(table, c) THEN "rejected" ELSE "opened"
DecisionAfterCommit_Upsert(row, status, thesis) == [status |-> status, thesis |-> thesis]
DecisionAfterCommit_DoNothing(row, status, thesis) ==
  IF row.status = "none" THEN [status |-> status, thesis |-> thesis] ELSE row
DecisionAfterCommit(row, status, thesis) ==
  IF row.status = "none" THEN [status |-> status, thesis |-> thesis]
  ELSE IF row.status = "pending_entry" THEN [row EXCEPT !.status = status]
  ELSE row

CommitThesis(c) ==
  \E closed \in {CloseOld(positions, c)} : \E opened \in {OpenNew(closed, c)} :
    /\ positions' = opened
    /\ decisions' = [decisions EXCEPT ![c.id] = DecisionAfterCommit(@, Outcome(opened, c), c.thesis)]
    /\ UNCHANGED memory

-----------------------------------------------------------------------------
(* The single-statement writes.                                             *)

ClosePosition_Unguarded(id, closedAt, reason) ==
  /\ positions' = [positions EXCEPT ![id] =
        [@ EXCEPT !.state = "closed", !.closedAt = closedAt, !.reason = reason]]
  /\ UNCHANGED <<decisions, memory>>
ClosePosition(id, closedAt, reason) ==
  /\ positions' = [positions EXCEPT ![id] =
        IF @.state = "open"
        THEN [@ EXCEPT !.state = "closed", !.closedAt = closedAt, !.reason = reason] ELSE @]
  /\ UNCHANGED <<decisions, memory>>

AdvancePositionCheck_Unguarded(id, lastCheckedAt) ==
  /\ positions' = [positions EXCEPT ![id] =
        IF @.lastCheckedAt < lastCheckedAt THEN [@ EXCEPT !.lastCheckedAt = lastCheckedAt] ELSE @]
  /\ UNCHANGED <<decisions, memory>>
AdvancePositionCheck(id, lastCheckedAt) ==
  /\ positions' = [positions EXCEPT ![id] =
        IF @.state = "open" /\ @.lastCheckedAt < lastCheckedAt
        THEN [@ EXCEPT !.lastCheckedAt = lastCheckedAt] ELSE @]
  /\ UNCHANGED <<decisions, memory>>

InsertTradeDecision_NotRejected(id, thesis, status) ==
  /\ decisions' = [decisions EXCEPT ![id] =
        IF @.status = "none" /\ status # "rejected" THEN [status |-> status, thesis |-> thesis] ELSE @]
  /\ UNCHANGED <<positions, memory>>
InsertTradeDecision(id, thesis, status) ==
  /\ decisions' = [decisions EXCEPT ![id] =
        IF @.status = "none" THEN [status |-> status, thesis |-> thesis] ELSE @]
  /\ UNCHANGED <<positions, memory>>

ExpirePendingEntry_Misguarded(id) ==
  /\ decisions' = [decisions EXCEPT ![id] =
        IF @.status = "opened" THEN [@ EXCEPT !.status = "skipped_no_fill"] ELSE @]
  /\ UNCHANGED <<positions, memory>>
ExpirePendingEntry(id) ==
  /\ decisions' = [decisions EXCEPT ![id] =
        IF @.status = "pending_entry" THEN [@ EXCEPT !.status = "skipped_no_fill"] ELSE @]
  /\ UNCHANGED <<positions, memory>>

RecordDecisionOutcome(id, resolvedAt, reason) ==
  /\ memory' = [memory EXCEPT ![id] =
        IF @ = NoMemory THEN [resolvedAt |-> resolvedAt, reason |-> reason] ELSE @]
  /\ UNCHANGED <<positions, decisions>>

-----------------------------------------------------------------------------
(* The store under any callers.  The contract: a thesis commits at or after *)
(* its own instant, with what its pending decision says, and again only as  *)
(* its row says; an exit closes a row at or after its opening; an outcome   *)
(* is recorded for a closed row, with the date and reason that closed it.   *)

Init ==
  /\ positions = [id \in ThesisIds |-> NoRow]
  /\ decisions = [id \in ThesisIds |-> NoDecision]
  /\ memory = [id \in ThesisIds |-> NoMemory]

MayCommit(c) ==
  /\ c.asOf >= DecidedAt(c.id)
  /\ decisions[c.id].status = "pending_entry" => c.thesis = decisions[c.id].thesis
  /\ HasRow(positions, c.id) => positions[c.id].openedAt = c.asOf /\ positions[c.id].thesis = c.thesis
Commit == \E c \in Commits : MayCommit(c) /\ CommitThesis(c)
Close == \E id \in ThesisIds, at \in Instants, reason \in CloseReasons \ ReplacedReasons :
  /\ HasRow(positions, id) /\ positions[id].openedAt <= at
  /\ ClosePosition(id, at, reason)
Check == \E id \in ThesisIds, at \in Instants :
  /\ HasRow(positions, id)
  /\ AdvancePositionCheck(id, at)
Decide == \E id \in ThesisIds, status \in DirectStatuses, thesis \in Theses \cup {NoThesis} :
  /\ thesis = NoThesis <=> status = "skipped_irrelevant"
  /\ InsertTradeDecision(id, thesis, status)
Expire == \E id \in ThesisIds : ExpirePendingEntry(id)
Settle == \E id \in ThesisIds :
  /\ positions[id].state = "closed"
  /\ RecordDecisionOutcome(id, positions[id].closedAt, positions[id].reason)

Next == Commit \/ Close \/ Check \/ Decide \/ Expire \/ Settle

Spec == Init /\ [][Next]_storeVars

-----------------------------------------------------------------------------
(* Properties.                                                              *)

RowType ==
  [state : {"absent", "open", "closed"}, thesis : Theses \cup {NoThesis}, openedAt : Instants \cup {0},
   closedAt : Instants \cup {0}, reason : CloseReasons \cup {"none"}, lastCheckedAt : Instants \cup {0}]

\* Type invariant of the three tables.
TypeOK ==
  /\ positions \in [ThesisIds -> RowType]
  /\ decisions \in [ThesisIds -> [status : Statuses \cup {"none"}, thesis : Theses \cup {NoThesis}]]
  /\ memory \in [ThesisIds -> [resolvedAt : Instants \cup {0}, reason : CloseReasons \cup {"none"}]]

\* However concurrent commits, fills and exits interleave, no ticker ever has
\* two open positions (the incident commitThesis was written for).
OneOpenPerTicker ==
  \A p, q \in ThesisIds :
    IsOpen(positions, p) /\ IsOpen(positions, q) /\ TickerOf(p) = TickerOf(q) => p = q

\* The decision's outcome is computed by the batch's third statement, after the
\* first two changed the table: 'opened' is never written without the position,
\* and the position is the one the stored thesis asks for.
OpenedHasPosition ==
  \A id \in ThesisIds : decisions[id].status = "opened" =>
    HasRow(positions, id) /\ positions[id].thesis = decisions[id].thesis

\* A position is replaced only by a confident opposite thesis of its ticker,
\* which opened at the instant the old one closed; also when a retried commit,
\* whose own position has closed since, does the replacing.
Succeeds(q, p) ==
  /\ TickerOf(q) = TickerOf(p)
  /\ HasRow(positions, q)
  /\ positions[q].openedAt = positions[p].closedAt
  /\ positions[q].thesis.direction # positions[p].thesis.direction
  /\ positions[q].thesis.confident
ReplacedBySuccessor ==
  \A p \in ThesisIds :
    positions[p].reason \in ReplacedReasons => \E q \in ThesisIds \ {p} : Succeeds(q, p)

\* No position closes before it opened: the newer-position guard keeps a late,
\* older thesis from closing a newer position in its past.
ClosesAfterOpening ==
  \A p \in ThesisIds : positions[p].state = "closed" => positions[p].openedAt <= positions[p].closedAt

\* A settled outcome carries the close that the row still shows.
MemoryMatchesClose ==
  \A id \in ThesisIds : memory[id] # NoMemory =>
    /\ positions[id].state = "closed"
    /\ memory[id] = [resolvedAt |-> positions[id].closedAt, reason |-> positions[id].reason]

\* The three tables tell one story: the decision what happened to its position, the
\* replaced row who replaced it, the memory how it closed.
BookIsConsistent == OpenedHasPosition /\ ReplacedBySuccessor /\ ClosesAfterOpening /\ MemoryMatchesClose

\* What a table says for good stays said, whoever calls later: a closed position is never
\* reopened, closed again, or moved by a late check, and a decision changes only while it is
\* pending, and never back to pending.
ClosedRowsStay == \A p \in ThesisIds : positions[p].state = "closed" => positions'[p] = positions[p]
DecisionStays(id) ==
  /\ decisions[id].status \notin {"none", "pending_entry"} => decisions'[id] = decisions[id]
  /\ decisions[id].status = "pending_entry" /\ decisions'[id] # decisions[id]
       => decisions'[id].status \in CommitStatuses \cup {"skipped_no_fill"}
RowsAreFinal == [][ClosedRowsStay /\ \A id \in ThesisIds : DecisionStays(id)]_storeVars

\* The store keeps the promise of TickerBook.
Book == INSTANCE TickerBook WITH
  holding <- [t \in Tickers |-> OpenRowsOf(positions, t)],
  past <- {p \in ThesisIds : positions[p].state = "closed"}
KeepsOneThesisPerTicker == Book!Spec
=============================================================================

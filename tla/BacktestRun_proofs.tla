------------------------- MODULE BacktestRun_proofs -------------------------
(***************************************************************************)
(* For a walk of any length, any number of parts, deliveries and operators.*)
(*                                                                         *)
(* RunInv: on every route except the purge (which lets a queued first part *)
(* insert the run again), with every switch on or off and any deaths, a    *)
(* run that completes is scored on its whole walk, and only a run that has *)
(* ended loses rows.  An ended run does not come back (the claim of a      *)
(* resume and the pause are guarded), and every cursor that may continue   *)
(* an open run, wherever it is kept, is behind the rows.                   *)
(*                                                                         *)
(* LifeInv: on every route, where a cancel waits for the part in the       *)
(* worker's hands and a purge for the queue, the row keeps the lifecycle   *)
(* and a purged run leaves no rows.  A part past its receipt works on a    *)
(* run that has not ended; while a purge goes on no first part is left.    *)
(*                                                                         *)
(* ChainInv: on every route and with every switch, as long as no part is   *)
(* lost with its worker, the run is one chain: its continuation is in one  *)
(* of four places, once.                                                   *)
(*                                                                         *)
(* ForgetInv: on every route, where no statement or send fails and fewer   *)
(* faults come than a message has deliveries, a running run has something  *)
(* that goes on with it.                                                   *)
(***************************************************************************)
EXTENDS BacktestRun, TLAPS

PartOf == [part : Nat \ {0}, at : 0 .. Length]
MessageOf == [envelope : PartOf, tries : Nat]
WorkerPcs ==
  {"idle", "save", "quota", "start", "register", "walk", "hand_over", "complete", "report_complete", "fail",
   "report_failed", "clean_failed", "clean_cancelled", "sweeping", "ack"}
OperatorPcs ==
  {"idle", "register", "send", "unregister", "repark", "claim", "cancel_job", "clean_cancelled", "sweeping",
   "purging", "delete_row"}
OperatorOf == [pc : OperatorPcs, envelope : SUBSET PartOf, registered : BOOLEAN]
WorkerOf == [pc : WorkerPcs, message : SUBSET MessageOf, at : 0 .. Length, scored : SUBSET Units]
RunOf == [status : {"absent"} \cup Live \cup Terminal, parked : SUBSET PartOf, scored : SUBSET Units]

RunTypeOK ==
  /\ run \in RunOf /\ rows \subseteq Units /\ DOMAIN queue \subseteq MessageOf
  /\ worker \in WorkerOf /\ op \in [Operators -> OperatorOf]

\* Who works has a message; who is about to send has an envelope.
HandsFull ==
  /\ worker.pc # "idle" => worker.message # {}
  /\ \A o \in Operators : op[o].pc \in {"register", "claim", "send"} => op[o].envelope # {}

IsOpen == run.status \notin Terminal
SweepsEnded ==
  /\ worker.pc = "sweeping" => ~IsOpen
  /\ \A o \in Operators : op[o].pc \notin {"purging", "delete_row"} /\ (op[o].pc = "sweeping" => ~IsOpen)

Covered(at) == 1 .. at \subseteq rows
CursorsCovered ==
  /\ \A m \in DOMAIN queue : Covered(m.envelope.at)
  /\ \A e \in run.parked : Covered(e.at)
  /\ \A o \in Operators : \A e \in op[o].envelope : Covered(e.at)
  /\ \A m \in worker.message : Covered(m.envelope.at)
  /\ Covered(worker.at)
  /\ worker.pc = "complete" => worker.scored = Units

RunInv == RunTypeOK /\ HandsFull /\ SweepsEnded /\ (IsOpen => CursorsCovered)

-----------------------------------------------------------------------------
(* The queue.                                                               *)

LEMMA Sent ==
  ASSUME NEW envelope, Enqueue(envelope)
  PROVE  DOMAIN queue' = DOMAIN queue \cup {[envelope |-> envelope, tries |-> 1]}
BY DEF Enqueue, (+), SetToBag

LEMMA Taken ==
  ASSUME NEW m, queue' = queue (-) SetToBag({m})
  PROVE  DOMAIN queue' \subseteq DOMAIN queue
BY DEF (-), SetToBag

LEMMA Chosen == \A S : S # {} => The(S) \in S
  BY DEF The


-----------------------------------------------------------------------------
(* What the steps do to each record.                                        *)

LEMMA RegistryTyped ==
  ASSUME run \in RunOf,
         \/ run' = run \/ InsertBacktestRun \/ FailBacktestRun \/ CancelBacktestRun \/ ClaimForResume
         \/ \E scored \in SUBSET Units : CompleteBacktestRun(scored)
         \/ \E envelope \in SUBSET PartOf : PauseBacktestRun(envelope)
  PROVE  run' \in RunOf
<1> USE DEF RunOf, Live, Terminal
<1>1. CASE InsertBacktestRun \/ FailBacktestRun \/ CancelBacktestRun \/ ClaimForResume
  BY <1>1 DEF InsertBacktestRun, FailBacktestRun, CancelBacktestRun, ClaimForResume
<1>2. ASSUME NEW scored \in SUBSET Units, CompleteBacktestRun(scored)
      PROVE  run' \in RunOf
  BY <1>2 DEF CompleteBacktestRun
<1>3. ASSUME NEW envelope \in SUBSET PartOf, PauseBacktestRun(envelope)
      PROVE  run' \in RunOf
  BY <1>3 DEF PauseBacktestRun
<1> QED
  BY <1>1, <1>2, <1>3

LEMMA Becomes ==
  ASSUME worker \in WorkerOf, NEW pc \in WorkerPcs, Become(pc)
  PROVE  /\ worker' \in WorkerOf /\ worker'.pc = pc
         /\ worker'.message = worker.message /\ worker'.at = worker.at /\ worker'.scored = worker.scored
BY DEF WorkerOf, Become

LEMMA Proceeds ==
  ASSUME op \in [Operators -> OperatorOf], NEW o \in Operators, NEW pc \in OperatorPcs, Proceed(o, pc)
  PROVE  /\ op' \in [Operators -> OperatorOf] /\ op'[o].pc = pc /\ op'[o].envelope = op[o].envelope
         /\ \A p \in Operators \ {o} : op'[p] = op[p]
BY DEF OperatorOf, Proceed

LEMMA Returns ==
  ASSUME op \in [Operators -> OperatorOf], NEW o \in Operators, Return(o)
  PROVE  /\ op' \in [Operators -> OperatorOf] /\ op'[o].pc = "idle" /\ op'[o].envelope = {}
         /\ \A p \in Operators \ {o} : op'[p] = op[p]
<1>1. IdleOperator \in OperatorOf
  BY DEF IdleOperator, OperatorOf, OperatorPcs
<1>2. IdleOperator.pc = "idle" /\ IdleOperator.envelope = {}
  BY DEF IdleOperator
<1> QED
  BY <1>1, <1>2 DEF Return

LEMMA IdleTyped == Idle \in WorkerOf /\ Idle.pc = "idle" /\ Idle.message = {} /\ Idle.at = 0
<1>1. 0 \in 0 .. Length
  BY BoundsAssumption
<1>2. Idle \in WorkerOf
  BY <1>1 DEF Idle, WorkerOf, WorkerPcs
<1> QED
  BY <1>2 DEF Idle

LEMMA MessageInHand ==
  ASSUME RunTypeOK, HandsFull, worker.pc # "idle"
  PROVE  /\ The(worker.message) \in worker.message /\ The(worker.message) \in MessageOf
         /\ Envelope \in PartOf
BY Chosen DEF RunTypeOK, HandsFull, WorkerOf, MessageOf, Envelope

\* A worker step that only goes on, and may write the registry.
LEMMA WorkerGoesOn ==
  ASSUME RunInv, NEW pc \in WorkerPcs \ {"complete"}, Become(pc), worker.pc # "idle",
         run' \in RunOf, IsOpen' => IsOpen, pc = "sweeping" => ~IsOpen',
         IsOpen' => \A e \in run'.parked : Covered(e.at),
         UNCHANGED <<rows, queue, op>>
  PROVE  RunInv'
<1>1. worker \in WorkerOf
  BY DEF RunInv, RunTypeOK
<1>2. /\ worker' \in WorkerOf /\ worker'.pc = pc
      /\ worker'.message = worker.message /\ worker'.at = worker.at
  BY <1>1, Becomes
<1>3. RunTypeOK' /\ HandsFull'
  BY <1>2 DEF RunInv, RunTypeOK, HandsFull
<1>4. SweepsEnded'
  BY <1>2 DEF RunInv, SweepsEnded
<1>5. IsOpen' => CursorsCovered'
  BY <1>2 DEF RunInv, CursorsCovered, Covered
<1> QED
  BY <1>3, <1>4, <1>5 DEF RunInv

\* A write of the registry ends a run or leaves it as it was, and parks no other envelope.
RegistryKept(o) ==
  run' \in RunOf /\ (IsOpen' => IsOpen) /\ run'.parked \subseteq run.parked \cup op[o].envelope

\* A step of a route: it may write the registry, send its envelope, or take the parked one.
LEMMA RouteGoesOn ==
  ASSUME RunInv, NEW o \in Operators, op' \in [Operators -> OperatorOf],
         \A p \in Operators \ {o} : op'[p] = op[p],
         op'[o].envelope \subseteq op[o].envelope \cup run.parked,
         op'[o].pc \in {"register", "claim", "send"} => op'[o].envelope # {},
         op'[o].pc \notin {"purging", "delete_row"}, op'[o].pc = "sweeping" => ~IsOpen',
         RegistryKept(o),
         \A m \in DOMAIN queue' : m \in DOMAIN queue \/ (m \in MessageOf /\ m.envelope \in op[o].envelope),
         UNCHANGED <<rows, worker>>
  PROVE  RunInv'
<1>1. RunTypeOK'
  BY DEF RunInv, RunTypeOK, RegistryKept
<1>2. HandsFull'
  BY DEF RunInv, HandsFull
<1>3. SweepsEnded'
  BY DEF RunInv, SweepsEnded, RegistryKept
<1>4. IsOpen' => CursorsCovered'
  BY DEF RunInv, CursorsCovered, Covered, RegistryKept
<1> QED
  BY <1>1, <1>2, <1>3, <1>4 DEF RunInv

\* A chunk is deleted only of a run that ended, whose cursors no longer matter.
LEMMA ChunkGone ==
  ASSUME RunInv, ~IsOpen, rows' \subseteq rows, UNCHANGED <<run, queue, worker, op>>
  PROVE  RunInv'
BY DEF RunInv, RunTypeOK, HandsFull, SweepsEnded, IsOpen

-----------------------------------------------------------------------------
(* The worker.                                                              *)

LEMMA WorkerKeeps ==
  ASSUME RunInv, WorkerStep \/ Die
  PROVE  RunInv'
<1>1. /\ run \in RunOf /\ worker \in WorkerOf /\ RunTypeOK /\ HandsFull
      /\ Length \in Nat
  BY BoundsAssumption DEF RunInv, RunTypeOK
<1>2. ASSUME NEW m \in BagToSet(queue), Receive(m)
      PROVE  RunInv'
  <2>1. m \in DOMAIN queue /\ m \in MessageOf /\ m.envelope \in PartOf /\ m.envelope.at \in 0 .. Length
    BY DEF RunInv, RunTypeOK, BagToSet, MessageOf, PartOf
  <2>2. AfterReceive(m.envelope) \in WorkerPcs \ {"sweeping", "complete", "idle"}
    BY DEF AfterReceive, WorkerPcs
  <2>3. /\ worker' \in WorkerOf /\ worker'.pc = AfterReceive(m.envelope)
        /\ worker'.message = {m} /\ worker'.at = m.envelope.at
    <3>1. worker' = [Idle EXCEPT !.pc = AfterReceive(m.envelope), !.message = {m}, !.at = m.envelope.at]
      BY <1>2 DEF Receive
    <3> HIDE DEF AfterReceive
    <3> QED
      BY <3>1, <2>1, <2>2 DEF Idle, WorkerOf
  <2>4. DOMAIN queue' \subseteq DOMAIN queue
    BY <1>2, Taken DEF Receive
  <2>5. UNCHANGED <<run, rows, op>>
    BY <1>2 DEF Receive
  <2>6. RunTypeOK' /\ HandsFull'
    BY <2>3, <2>4, <2>5 DEF RunInv, RunTypeOK, HandsFull
  <2>7. SweepsEnded' /\ (IsOpen' => CursorsCovered')
    BY <2>1, <2>2, <2>3, <2>4, <2>5 DEF RunInv, SweepsEnded, CursorsCovered, Covered, IsOpen
  <2> QED
    BY <2>6, <2>7 DEF RunInv
<1>3. ASSUME NEW envelope \in PartOf, PauseBacktestRun({envelope}), IsOpen => Covered(envelope.at), rows' = rows
      PROVE  /\ run' \in RunOf /\ (IsOpen' => IsOpen)
             /\ IsOpen' => \A e \in run'.parked : Covered(e.at)
  <2>1. run' \in RunOf
    BY <1>1, <1>3, RegistryTyped
  <2>2. IsOpen' => IsOpen
    BY <1>1, <1>3 DEF PauseBacktestRun, IsOpen, RunOf, Live, Terminal
  <2>3. run'.parked \in {{envelope}, run.parked}
    BY <1>1, <1>3 DEF PauseBacktestRun, RunOf
  <2> QED
    BY <1>3, <2>1, <2>2, <2>3 DEF RunInv, CursorsCovered
<1>4. ASSUME worker.pc # "idle"
      PROVE  Envelope \in PartOf /\ (IsOpen => Covered(Envelope.at) /\ Covered(worker.at))
  <2>1. The(worker.message) \in worker.message /\ The(worker.message) \in MessageOf /\ Envelope \in PartOf
    BY <1>1, <1>4, MessageInHand
  <2> QED
    BY <2>1 DEF RunInv, CursorsCovered, Envelope
<1>5. CASE SaveCursor
  BY <1>3, <1>4, <1>5, WorkerGoesOn DEF SaveCursor, WorkerPcs
<1>6. CASE CheckQuota
  <2>1. CASE run' = run
    BY <2>1, <1>1, <1>6, WorkerGoesOn DEF CheckQuota, WorkerPcs, RunInv, CursorsCovered, IsOpen
  <2>2. CASE PauseBacktestRun({Envelope}) /\ Become("ack")
    BY <2>2, <1>3, <1>4, <1>6, WorkerGoesOn DEF CheckQuota, WorkerPcs
  <2> QED
    BY <2>1, <2>2, <1>6 DEF CheckQuota
<1>7. CASE StartJob \/ YieldPart \/ WalkFails \/ ReportComplete \/ ReportFailed
  <2>1. run' = run /\ UNCHANGED <<rows, queue, op>> /\ worker.pc # "idle"
    BY <1>7 DEF StartJob, YieldPart, WalkFails, ReportComplete, ReportFailed
  <2>2. \E pc \in {"register", "fail", "hand_over", "ack", "clean_failed"} : Become(pc)
    BY <1>7 DEF StartJob, YieldPart, WalkFails, ReportComplete, ReportFailed
  <2> QED
    BY <1>1, <2>1, <2>2, WorkerGoesOn DEF WorkerPcs, RunInv, CursorsCovered, IsOpen
<1>8. CASE RegisterRun
  <2>1. run' \in RunOf /\ run'.parked = run.parked /\ (IsOpen' => IsOpen)
    BY <1>1, <1>8, RegistryTyped DEF RegisterRun, InsertBacktestRun, Registered, RunOf, IsOpen, Terminal, Live
  <2>2. UNCHANGED <<rows, queue, op>> /\ worker.pc # "idle" /\ \E pc \in {"walk", "fail"} : Become(pc)
    BY <1>8 DEF RegisterRun
  <2> QED
    BY <2>1, <2>2, WorkerGoesOn DEF WorkerPcs, RunInv, CursorsCovered
<1>9. CASE WalkUnit
  <2>1. /\ rows' = rows \cup {worker.at + 1} /\ worker.pc = "walk" /\ worker.at < Length
        /\ worker' = [worker EXCEPT !.at = @ + 1] /\ UNCHANGED <<run, queue, op>>
    BY <1>9 DEF WalkUnit
  <2>2. worker.at \in 0 .. Length /\ worker.at + 1 \in Units
    BY <1>1, <2>1 DEF WorkerOf, Units
  <2>3. /\ worker' \in WorkerOf /\ worker'.pc = "walk" /\ worker'.message = worker.message
        /\ worker'.at = worker.at + 1
    BY <1>1, <2>1, <2>2 DEF WorkerOf
  <2>4. RunTypeOK' /\ HandsFull' /\ SweepsEnded'
    BY <2>1, <2>2, <2>3 DEF RunInv, RunTypeOK, HandsFull, SweepsEnded, IsOpen
  <2>5. IsOpen' => CursorsCovered'
    <3>1. 1 .. worker'.at \subseteq 1 .. worker.at \cup {worker.at + 1}
      BY <2>2, <2>3
    <3> QED
      BY <3>1, <2>1, <2>3 DEF RunInv, CursorsCovered, Covered, IsOpen
  <2> QED
    BY <2>4, <2>5 DEF RunInv
<1>10. CASE HandOver
  <2>1. worker.pc # "idle" /\ UNCHANGED <<rows, op>> /\ NextPart \in PartOf /\ NextPart.at = worker.at
    BY <1>1, <1>4, <1>10 DEF HandOver, NextPart, PartOf, WorkerOf
  <2>2. CASE PauseBacktestRun({NextPart}) /\ Become("ack") /\ UNCHANGED queue
    BY <2>1, <2>2, <1>3, <1>4, WorkerGoesOn DEF WorkerPcs
  <2>3. CASE Enqueue(NextPart) /\ Become("ack") /\ run' = run
    <3>1. DOMAIN queue' = DOMAIN queue \cup {[envelope |-> NextPart, tries |-> 1]}
      BY <2>3, Sent
    <3>2. [envelope |-> NextPart, tries |-> 1] \in MessageOf
      BY <2>1 DEF MessageOf
    <3>3. /\ worker' \in WorkerOf /\ worker'.pc = "ack"
          /\ worker'.message = worker.message /\ worker'.at = worker.at
      BY <1>1, <2>3, Becomes DEF WorkerPcs
    <3>4. RunTypeOK' /\ HandsFull' /\ SweepsEnded'
      BY <2>1, <2>3, <3>1, <3>2, <3>3 DEF RunInv, RunTypeOK, HandsFull, SweepsEnded, IsOpen
    <3>5. IsOpen' => CursorsCovered'
      BY <2>1, <2>3, <3>1, <3>3, <1>4 DEF RunInv, CursorsCovered, Covered, IsOpen
    <3> QED
      BY <3>4, <3>5 DEF RunInv
  <2> QED
    BY <1>10, <2>2, <2>3 DEF HandOver, AfterPark
<1>11. CASE Score
  <2>1. /\ worker.at = Length /\ worker.pc # "idle" /\ UNCHANGED <<run, rows, queue, op>>
        /\ worker' = [worker EXCEPT !.pc = "complete", !.scored = rows]
    BY <1>11 DEF Score
  <2>2. rows \subseteq Units
    BY <1>1 DEF RunTypeOK
  <2>3. /\ worker' \in WorkerOf /\ worker'.pc = "complete" /\ worker'.message = worker.message
        /\ worker'.at = worker.at /\ worker'.scored = rows
    BY <1>1, <2>1, <2>2 DEF WorkerOf, WorkerPcs
  <2>4. RunTypeOK' /\ HandsFull' /\ SweepsEnded'
    BY <2>1, <2>3 DEF RunInv, RunTypeOK, HandsFull, SweepsEnded, IsOpen
  <2>5. IsOpen' => CursorsCovered'
    <3>1. Covered(worker.at) => rows = Units
      BY <2>1, <2>2 DEF Covered, Units
    <3> QED
      BY <3>1, <2>1, <2>3 DEF RunInv, CursorsCovered, Covered, IsOpen
  <2> QED
    BY <2>4, <2>5 DEF RunInv
<1>12. CASE CompleteRun
  <2>1. ASSUME CompleteBacktestRun(worker.scored)
        PROVE  run' \in RunOf /\ run'.parked = run.parked /\ (IsOpen' => IsOpen)
    BY <1>1, <2>1, RegistryTyped DEF CompleteBacktestRun, Registered, RunOf, WorkerOf, IsOpen, Terminal, Live
  <2>2. UNCHANGED <<rows, queue, op>> /\ worker.pc # "idle"
    BY <1>12 DEF CompleteRun
  <2>3. \/ CompleteBacktestRun(worker.scored) /\ Become("report_complete")
        \/ run' = run /\ Become("fail")
    BY <1>12 DEF CompleteRun
  <2> QED
    BY <1>1, <2>1, <2>2, <2>3, WorkerGoesOn DEF WorkerPcs, RunInv, CursorsCovered, IsOpen
<1>13. CASE FailRun
  <2>1. run' \in RunOf /\ run'.parked = run.parked /\ (IsOpen' => IsOpen)
    BY <1>1, <1>13, RegistryTyped DEF FailRun, FailBacktestRun, Registered, RunOf, IsOpen, Terminal, Live
  <2> QED
    BY <2>1, <1>13, WorkerGoesOn DEF FailRun, WorkerPcs, RunInv, CursorsCovered
<1>14. CASE StartSweep
  <2>1. run' = run /\ UNCHANGED <<rows, queue, op>> /\ worker.pc # "idle"
    BY <1>14 DEF StartSweep
  <2>2. \/ Become("ack")
        \/ Become("sweeping") /\ ~IsOpen
    BY <1>14 DEF StartSweep, MayClean, IsOpen, Terminal
  <2> QED
    BY <1>1, <2>1, <2>2, WorkerGoesOn DEF WorkerPcs, RunInv, CursorsCovered, IsOpen
<1>15. CASE Sweep
  <2>1. CASE DeleteChunk(TRUE) /\ UNCHANGED worker
    BY <2>1, <1>15, ChunkGone DEF Sweep, DeleteChunk, RunInv, SweepsEnded
  <2>2. CASE Become("ack") /\ UNCHANGED rows
    BY <2>2, <1>1, <1>15, WorkerGoesOn DEF Sweep, WorkerPcs, RunInv, CursorsCovered, IsOpen
  <2> QED
    BY <1>15, <2>1, <2>2 DEF Sweep
<1>16. CASE Ack
  <2>1. worker' = Idle /\ UNCHANGED <<run, rows, queue, op>>
    BY <1>16 DEF Ack
  <2> QED
    BY <2>1, <1>1, IdleTyped DEF RunInv, RunTypeOK, HandsFull, SweepsEnded, CursorsCovered, Covered, IsOpen
<1>17. CASE Die
  <2> DEFINE again == [The(worker.message) EXCEPT !.tries = @ + 1]
  <2>1. worker' = Idle /\ UNCHANGED <<run, rows, op>> /\ worker.pc # "idle"
    BY <1>17 DEF Die
  <2>2. DOMAIN queue' \subseteq DOMAIN queue \cup {again}
    BY <1>17 DEF Die, (+), SetToBag
  <2>3. /\ The(worker.message) \in worker.message
        /\ again \in MessageOf /\ again.envelope = The(worker.message).envelope
    BY <1>1, <2>1, MessageInHand DEF MessageOf
  <2> HIDE DEF again
  <2>4. RunTypeOK' /\ HandsFull' /\ SweepsEnded'
    BY <2>1, <2>2, <2>3, IdleTyped DEF RunInv, RunTypeOK, HandsFull, SweepsEnded, IsOpen
  <2>5. IsOpen' => CursorsCovered'
    BY <2>1, <2>2, <2>3, IdleTyped DEF RunInv, CursorsCovered, Covered, IsOpen
  <2> QED
    BY <2>4, <2>5 DEF RunInv
<1> QED
  BY <1>2, <1>5, <1>6, <1>7, <1>8, <1>9, <1>10, <1>11, <1>12, <1>13, <1>14, <1>15, <1>16, <1>17 DEF WorkerStep

-----------------------------------------------------------------------------
(* The routes.                                                              *)

LEMMA RoutesKeep ==
  ASSUME RunInv, "purge" \notin Routes, NEW o \in Operators, RouteStep(o) \/ Request(o)
  PROVE  RunInv'
<1>1. /\ run \in RunOf /\ op \in [Operators -> OperatorOf] /\ op[o] \in OperatorOf
      /\ op[o].envelope \subseteq PartOf /\ op[o].pc \notin {"purging", "delete_row"}
      /\ op[o].pc \in {"register", "claim", "send"} => op[o].envelope # {}
      /\ op[o].pc = "sweeping" => ~IsOpen
  BY DEF RunInv, RunTypeOK, OperatorOf, HandsFull, SweepsEnded
\* The registry statements of the routes.
<1>2. run' = run => RegistryKept(o)
  BY <1>1 DEF RegistryKept, IsOpen
<1>3. InsertBacktestRun \/ FailBacktestRun \/ CancelBacktestRun => RegistryKept(o)
  <2>1. InsertBacktestRun \/ FailBacktestRun \/ CancelBacktestRun => run' \in RunOf
    BY <1>1, RegistryTyped
  <2> QED
    BY <1>1, <2>1 DEF RegistryKept, InsertBacktestRun, FailBacktestRun, CancelBacktestRun, Registered, RunOf, IsOpen,
                      Live, Terminal
<1>4. ClaimForResume /\ MayClaim => RegistryKept(o)
  <2>1. ClaimForResume => run' \in RunOf
    BY <1>1, RegistryTyped
  <2> QED
    BY <1>1, <2>1 DEF RegistryKept, ClaimForResume, MayClaim, RunOf, IsOpen, Terminal
<1>5. \A envelope \in SUBSET op[o].envelope : PauseBacktestRun(envelope) => RegistryKept(o)
  <2>1. \A envelope \in SUBSET op[o].envelope : PauseBacktestRun(envelope) => run' \in RunOf
    BY <1>1, RegistryTyped
  <2> QED
    BY <1>1, <2>1 DEF RegistryKept, PauseBacktestRun, RunOf, IsOpen, Live, Terminal
\* A step that sends nothing, and goes on or returns.
<1>6. ASSUME NEW pc \in OperatorPcs \ {"purging", "delete_row"}, Proceed(o, pc) \/ Return(o),
             pc \in {"register", "claim", "send"} => op[o].envelope # {}, pc = "sweeping" => ~IsOpen',
             RegistryKept(o), UNCHANGED <<rows, worker, queue>>
      PROVE  RunInv'
  <2>1. CASE Proceed(o, pc)
    <3>1. /\ op' \in [Operators -> OperatorOf] /\ op'[o].pc = pc /\ op'[o].envelope = op[o].envelope
          /\ \A p \in Operators \ {o} : op'[p] = op[p]
      BY <1>1, <1>6, <2>1, Proceeds
    <3> QED
      BY <1>6, <3>1, RouteGoesOn
  <2>2. CASE Return(o)
    <3>1. /\ op' \in [Operators -> OperatorOf] /\ op'[o].pc = "idle" /\ op'[o].envelope = {}
          /\ \A p \in Operators \ {o} : op'[p] = op[p]
      BY <1>1, <2>2, Returns
    <3> QED
      BY <1>6, <3>1, RouteGoesOn
  <2> QED
    BY <1>6, <2>1, <2>2
<1>7. CASE Register(o)
  <2>1. op[o].envelope # {} /\ UNCHANGED <<rows, queue, worker>>
    BY <1>1, <1>7 DEF Register, At
  <2>2. CASE InsertBacktestRun /\ op' = [op EXCEPT ![o].pc = "send", ![o].registered = TRUE]
    <3>1. /\ op' \in [Operators -> OperatorOf] /\ op'[o].pc = "send" /\ op'[o].envelope = op[o].envelope
          /\ \A p \in Operators \ {o} : op'[p] = op[p]
      BY <1>1, <2>2 DEF OperatorOf, OperatorPcs
    <3> QED
      BY <1>3, <2>1, <2>2, <3>1, RouteGoesOn
  <2>3. CASE run' = run /\ Proceed(o, "send")
    BY <1>2, <1>6, <2>1, <2>3 DEF OperatorPcs
  <2> QED
    BY <1>7, <2>2, <2>3 DEF Register
<1>8. CASE Send(o)
  <2>1. op[o].envelope # {} /\ UNCHANGED <<run, rows, worker>>
    BY <1>1, <1>8 DEF Send, At
  <2>2. CASE Enqueue(The(op[o].envelope)) /\ Return(o)
    <3>1. /\ op' \in [Operators -> OperatorOf] /\ op'[o].pc = "idle" /\ op'[o].envelope = {}
          /\ \A p \in Operators \ {o} : op'[p] = op[p]
      BY <1>1, <2>2, Returns
    <3>2. The(op[o].envelope) \in op[o].envelope
      BY <2>1, Chosen
    <3>3. \A m \in DOMAIN queue' : m \in DOMAIN queue \/ (m \in MessageOf /\ m.envelope \in op[o].envelope)
      <4> DEFINE sent == The(op[o].envelope)
      <4>1. DOMAIN queue' = DOMAIN queue \cup {[envelope |-> sent, tries |-> 1]}
        BY <2>2, Sent
      <4> HIDE DEF sent
      <4>2. sent \in op[o].envelope /\ sent \in PartOf
        BY <1>1, <3>2 DEF sent
      <4> QED
        BY <4>1, <4>2 DEF MessageOf
    <3> QED
      BY <1>2, <2>1, <3>1, <3>3, RouteGoesOn
  <2>3. CASE UNCHANGED queue /\ (Return(o) \/ \E pc \in {"repark", "unregister"} : Proceed(o, pc))
    BY <1>2, <1>6, <2>1, <2>3 DEF OperatorPcs
  <2> QED
    BY <1>8, <2>2, <2>3 DEF Send
<1>9. CASE Unregister(o) \/ Repark(o)
  <2>1. RegistryKept(o)
    BY <1>2, <1>9, <1>3, <1>5 DEF Unregister, Repark
  <2>2. Return(o) /\ UNCHANGED <<rows, queue, worker>>
    BY <1>9 DEF Unregister, Repark
  <2> QED
    BY <1>6, <2>1, <2>2 DEF OperatorPcs
<1>10. CASE Claim(o)
  <2>1. RegistryKept(o)
    BY <1>2, <1>10, <1>4 DEF Claim
  <2>2. (Return(o) \/ Proceed(o, "send")) /\ UNCHANGED <<rows, queue, worker>>
    BY <1>10 DEF Claim
  <2>3. op[o].envelope # {}
    BY <1>1, <1>10 DEF Claim, At
  <2> QED
    BY <1>6, <2>1, <2>2, <2>3 DEF OperatorPcs
<1>11. CASE CancelJob(o) \/ StartCancelSweep(o)
  <2>1. /\ \/ Return(o) \/ Proceed(o, "clean_cancelled")
           \/ Proceed(o, "sweeping") /\ ~IsOpen
        /\ UNCHANGED <<run, rows, queue, worker>>
    BY <1>11 DEF CancelJob, StartCancelSweep, MayClean, IsOpen, Terminal
  <2> QED
    BY <1>1, <1>2, <1>6, <2>1 DEF OperatorPcs, IsOpen
<1>12. CASE OperatorSweep(o)
  <2>1. op[o].pc = "sweeping" /\ ~IsOpen /\ UNCHANGED <<run, queue, worker>>
    BY <1>1, <1>12 DEF OperatorSweep, At
  <2>2. \/ rows' \subseteq rows /\ UNCHANGED op
        \/ Return(o) /\ UNCHANGED rows
    BY <1>12, <2>1 DEF OperatorSweep, DeleteChunk, At
  <2> QED
    BY <1>2, <1>6, <2>1, <2>2, ChunkGone DEF OperatorPcs
<1>13. CASE PauseRoute(o)
  <2>1. PauseBacktestRun({}) /\ UNCHANGED <<rows, queue, worker, op>>
    BY <1>13 DEF PauseRoute
  <2> QED
    <3>1. RegistryKept(o)
      BY <1>5, <2>1
    <3>2. op[o].pc = "sweeping" => ~IsOpen'
      BY <1>1, <3>1 DEF RegistryKept
    <3> QED
      BY <1>1, <2>1, <3>1, <3>2, RouteGoesOn
<1>14. CASE ReadParked(o)
  <2>1. /\ op' = [op EXCEPT ![o].pc = "claim", ![o].envelope = run.parked] /\ run.parked # {}
        /\ UNCHANGED <<run, rows, queue, worker>>
    BY <1>14 DEF ReadParked, MayClaim
  <2>2. /\ op' \in [Operators -> OperatorOf] /\ op'[o].pc = "claim" /\ op'[o].envelope = run.parked
        /\ \A p \in Operators \ {o} : op'[p] = op[p]
    BY <1>1, <2>1 DEF OperatorOf, OperatorPcs, RunOf
  <2> QED
    BY <1>2, <2>1, <2>2, RouteGoesOn
<1>15. CASE CancelRoute(o) \/ CleanupRoute(o)
  <2>1. RegistryKept(o) /\ UNCHANGED <<rows, queue, worker>>
    BY <1>2, <1>15, <1>3 DEF CancelRoute, CleanupRoute
  <2>2. \/ Proceed(o, "cancel_job")
        \/ Proceed(o, "sweeping") /\ ~IsOpen'
    BY <1>15 DEF CancelRoute, CleanupRoute, MayCleanUp, IsOpen
  <2> QED
    BY <1>6, <2>1, <2>2 DEF OperatorPcs
<1>16. ~DeleteRow(o) /\ ~PurgeRoute(o)
  BY <1>1 DEF DeleteRow, PurgeRoute, At
<1> QED
  BY <1>7, <1>8, <1>9, <1>10, <1>11, <1>12, <1>13, <1>14, <1>15, <1>16 DEF RouteStep, Request

-----------------------------------------------------------------------------
(* The theorems.                                                            *)

LEMMA Invariance ==
  ASSUME "purge" \notin Routes
  PROVE  Spec => []RunInv
<1>1. Init => RunInv
  <2> SUFFICES ASSUME Init PROVE RunInv
    OBVIOUS
  <2>1. /\ run.status = "absent" /\ run.parked = {} /\ run \in RunOf /\ rows = {} /\ worker = Idle
        /\ DOMAIN queue = {}
    BY DEF Init, RunOf, EmptyBag, SetToBag
  <2>2. PICK o \in Operators :
          op = [p \in Operators |-> IF p = o THEN [pc |-> "register", envelope |-> {FirstPart}, registered |-> FALSE]
                                    ELSE IdleOperator]
    BY DEF Init
  <2>3. FirstPart \in PartOf /\ FirstPart.at = 0
    BY BoundsAssumption DEF FirstPart, PartOf
  <2>4. IdleOperator \in OperatorOf /\ IdleOperator.pc = "idle" /\ IdleOperator.envelope = {}
    BY DEF IdleOperator, OperatorOf, OperatorPcs
  <2>5. op \in [Operators -> OperatorOf]
    BY <2>2, <2>3, <2>4 DEF OperatorOf, OperatorPcs
  <2>6. \A p \in Operators : \/ op[p].pc = "register" /\ op[p].envelope = {FirstPart}
                             \/ op[p].pc = "idle" /\ op[p].envelope = {}
    BY <2>2, <2>4
  <2>7. RunTypeOK /\ HandsFull /\ SweepsEnded
    BY <2>1, <2>5, <2>6, IdleTyped DEF RunTypeOK, HandsFull, SweepsEnded
  <2>8. CursorsCovered
    BY <2>1, <2>3, <2>6, IdleTyped DEF CursorsCovered, Covered
  <2> QED
    BY <2>7, <2>8 DEF RunInv
<1>2. RunInv /\ [Next]_vars => RunInv'
  <2> SUFFICES ASSUME RunInv, [Next]_vars PROVE RunInv'
    OBVIOUS
  <2>1. CASE UNCHANGED vars
    BY <2>1 DEF vars, RunInv, RunTypeOK, HandsFull, SweepsEnded, CursorsCovered, Covered, IsOpen
  <2> QED
    BY <2>1, WorkerKeeps, RoutesKeep DEF Next
<1> QED
  BY <1>1, <1>2, PTL DEF Spec

\* A live run that completes is scored on every unit of the walk, whatever was redelivered,
\* repeated by a second chain or interrupted by a death (runBacktest's end, completeBacktestRun).
THEOREM CompleteIsWholeHolds ==
  ASSUME "purge" \notin Routes
  PROVE  Spec => CompleteIsWhole
<1>1. RunInv /\ [Next]_vars => [run.status \in Live /\ run'.status = "complete" => run'.scored = Units]_vars
  <2> SUFFICES ASSUME RunInv, Next, run.status \in Live, run'.status = "complete"
               PROVE  run'.scored = Units
    OBVIOUS
  <2>1. run \in RunOf /\ (worker.pc = "complete" => worker.scored = Units)
    BY DEF RunInv, RunTypeOK, CursorsCovered, IsOpen, Live, Terminal
  <2>2. run.status # "complete"
    BY DEF Live
  <2>3. ~InsertBacktestRun /\ ~FailBacktestRun /\ ~CancelBacktestRun /\ ~ClaimForResume /\ ~DeleteBacktestRun
    BY <2>1, <2>2 DEF InsertBacktestRun, FailBacktestRun, CancelBacktestRun, ClaimForResume, DeleteBacktestRun, RunOf
  <2>4. \A envelope : ~PauseBacktestRun(envelope)
    BY <2>1, <2>2 DEF PauseBacktestRun, RunOf
  <2>5. run' # run
    BY <2>2
  <2>6. CASE WorkerStep \/ Die
    <3>1. CASE CompleteRun
      BY <3>1, <2>1, <2>5 DEF CompleteRun, CompleteBacktestRun, RunOf
    <3>2. CASE ~CompleteRun
      BY <3>2, <2>3, <2>4, <2>5, <2>6 DEF WorkerStep, Die, Receive, SaveCursor, CheckQuota, StartJob, RegisterRun,
           WalkUnit, YieldPart, WalkFails, HandOver, Score, ReportComplete, FailRun, ReportFailed, StartSweep, Sweep, Ack
    <3> QED
      BY <3>1, <3>2
  <2>7. ASSUME NEW o \in Operators, RouteStep(o) \/ Request(o)
        PROVE  FALSE
    <3>1. ~RouteStep(o)
      BY <2>3, <2>4, <2>5 DEF RouteStep, Register, Send, Unregister, Repark, Claim, CancelJob, StartCancelSweep,
           OperatorSweep, DeleteRow
    <3>2. ~Request(o)
      BY <2>3, <2>4, <2>5 DEF Request, PauseRoute, ReadParked, CancelRoute, CleanupRoute, PurgeRoute
    <3> QED
      BY <2>7, <3>1, <3>2
  <2> QED
    BY <2>6, <2>7 DEF Next
<1> QED
  BY <1>1, Invariance, PTL DEF Spec, CompleteIsWhole

\* Only a run that has ended loses rows (cleanup.js, and the sweeps of the worker and the routes).
THEOREM OnlyEndedRunsLoseRowsHolds ==
  ASSUME "purge" \notin Routes
  PROVE  Spec => OnlyEndedRunsLoseRows
<1>1. RunInv /\ [Next]_vars => [run.status \in Live => rows \subseteq rows']_vars
  <2> SUFFICES ASSUME RunInv, Next, run.status \in Live
               PROVE  rows \subseteq rows'
    OBVIOUS
  <2>1. worker.pc # "sweeping" /\ \A o \in Operators : op[o].pc \notin {"sweeping", "purging"}
    BY DEF RunInv, SweepsEnded, IsOpen, Live, Terminal
  <2>2. CASE WorkerStep \/ Die
    BY <2>1, <2>2 DEF WorkerStep, Die, Receive, SaveCursor, CheckQuota, StartJob, RegisterRun, WalkUnit, YieldPart,
         WalkFails, HandOver, Score, CompleteRun, ReportComplete, FailRun, ReportFailed, StartSweep, Sweep, Ack
  <2>3. ASSUME NEW o \in Operators, RouteStep(o) \/ Request(o)
        PROVE  rows \subseteq rows'
    BY <2>1, <2>3 DEF RouteStep, Register, Send, Unregister, Repark, Claim, CancelJob, StartCancelSweep, OperatorSweep,
         DeleteRow, Request, PauseRoute, ReadParked, CancelRoute, CleanupRoute, PurgeRoute, At
  <2> QED
    BY <2>2, <2>3 DEF Next
<1> QED
  BY <1>1, Invariance, PTL DEF Spec, OnlyEndedRunsLoseRows
-----------------------------------------------------------------------------
(* The life of the run, the purge included.                                 *)

AnyRunOf == [status : {"absent", "purged"} \cup Live \cup Terminal, parked : SUBSET PartOf, scored : SUBSET Units]

TypeOK ==
  /\ run \in AnyRunOf /\ rows \subseteq Units /\ DOMAIN queue \subseteq MessageOf
  /\ worker \in WorkerOf /\ op \in [Operators -> OperatorOf]
  /\ HandsFull /\ (worker.pc = "idle" => worker.message = {})

\* The request that starts the run, until its first part is sent: nothing else has happened.
Starting(o) == op[o].pc \in {"register", "unregister"} \/ (op[o].pc = "send" /\ \E e \in op[o].envelope : e.part = 1)
NothingYet(o) ==
  /\ DOMAIN queue = {} /\ worker.pc = "idle" /\ run.parked = {} /\ op[o].envelope = {FirstPart}
  /\ \A p \in Operators \ {o} : op[p].envelope = {}
  /\ run.status \in {"absent"} \cup Live /\ (op[o].pc = "register" => run.status = "absent")

\* Only the first part may insert the row, and the purge waits until that one is gone.
LaterParts ==
  /\ \A e \in run.parked : e.part > 1
  /\ \A o \in Operators : \A e \in op[o].envelope : e.part > 1 \/ Starting(o)
  /\ worker.pc \in {"save", "quota"} => \A m \in worker.message : m.envelope.part > 1
NoFirstPart == \A m \in DOMAIN queue \cup worker.message : m.envelope.part > 1
IsPurging(o) == op[o].pc \in {"purging", "delete_row"}
PurgeInv ==
  /\ (run.status = "purged" \/ \E o \in Operators : IsPurging(o)) =>
       NoFirstPart /\ run.status \in Purgeable \cup {"purged"}
  /\ (run.status = "purged" \/ \E o \in Operators : op[o].pc = "delete_row") => rows = {}

\* A part works on a run that has not ended; from its walk on, on one that has begun.
PartInv ==
  /\ worker.pc \in {"start", "register"} => run.status \in {"absent"} \cup Live
  /\ worker.pc \in {"save", "quota", "walk", "hand_over", "complete", "fail"} => run.status \in Live

LifeInv == TypeOK /\ (\A o \in Operators : Starting(o) => NothingYet(o)) /\ LaterParts /\ PurgeInv /\ PartInv

LEMMA AnyRegistryTyped ==
  ASSUME run \in AnyRunOf,
         \/ run' = run \/ InsertBacktestRun \/ FailBacktestRun \/ CancelBacktestRun \/ ClaimForResume \/ DeleteBacktestRun
         \/ \E scored \in SUBSET Units : CompleteBacktestRun(scored)
         \/ \E envelope \in SUBSET PartOf : PauseBacktestRun(envelope)
  PROVE  run' \in AnyRunOf
<1> USE DEF AnyRunOf, Live, Terminal
<1>1. CASE InsertBacktestRun \/ FailBacktestRun \/ CancelBacktestRun \/ ClaimForResume \/ DeleteBacktestRun
  BY <1>1 DEF InsertBacktestRun, FailBacktestRun, CancelBacktestRun, ClaimForResume, DeleteBacktestRun
<1>2. ASSUME NEW scored \in SUBSET Units, CompleteBacktestRun(scored)
      PROVE  run' \in AnyRunOf
  BY <1>2 DEF CompleteBacktestRun
<1>3. ASSUME NEW envelope \in SUBSET PartOf, PauseBacktestRun(envelope)
      PROVE  run' \in AnyRunOf
  BY <1>3 DEF PauseBacktestRun
<1> QED
  BY <1>1, <1>2, <1>3

\* What the statements do to a row of a run that has not ended.
LEMMA RegistryMoves ==
  ASSUME run \in AnyRunOf
  PROVE  /\ InsertBacktestRun => run'.parked = run.parked
                                 /\ run'.status = IF run.status \in {"absent", "purged"} THEN "running" ELSE run.status
         /\ FailBacktestRun => run'.parked = run.parked /\ run'.status \in {run.status, "failed"}
         /\ \A scored : CompleteBacktestRun(scored) => run'.parked = run.parked /\ run'.status \in {run.status, "complete"}
         /\ CancelBacktestRun => run.status \in Live /\ run'.parked = {} /\ run'.status = "cancelled"
         /\ ClaimForResume => run'.parked = {} /\ run'.status = "running"
         /\ DeleteBacktestRun => /\ run'.parked = run.parked
                                 /\ run'.status = IF run.status \in Purgeable THEN "purged" ELSE run.status
         /\ \A envelope : PauseBacktestRun(envelope) =>
              /\ run'.parked \in {run.parked, envelope} /\ (envelope = {} => run'.parked = run.parked)
              /\ run'.status = IF run.status \in Live THEN "paused" ELSE run.status
<1> USE DEF AnyRunOf
<1>1. InsertBacktestRun => run'.parked = run.parked
                           /\ run'.status = IF run.status \in {"absent", "purged"} THEN "running" ELSE run.status
  BY DEF InsertBacktestRun, Registered
<1>2. FailBacktestRun => run'.parked = run.parked /\ run'.status \in {run.status, "failed"}
  BY DEF FailBacktestRun
<1>3. \A scored : CompleteBacktestRun(scored) => run'.parked = run.parked /\ run'.status \in {run.status, "complete"}
  BY DEF CompleteBacktestRun
<1>4. CancelBacktestRun => run.status \in Live /\ run'.parked = {} /\ run'.status = "cancelled"
  BY DEF CancelBacktestRun
<1>5. ClaimForResume => run'.parked = {} /\ run'.status = "running"
  BY DEF ClaimForResume
<1>6. DeleteBacktestRun => /\ run'.parked = run.parked
                           /\ run'.status = IF run.status \in Purgeable THEN "purged" ELSE run.status
  BY DEF DeleteBacktestRun
<1>7. \A envelope : PauseBacktestRun(envelope) =>
        /\ run'.parked \in {run.parked, envelope} /\ (envelope = {} => run'.parked = run.parked)
        /\ run'.status = IF run.status \in Live THEN "paused" ELSE run.status
  BY DEF PauseBacktestRun
<1> QED
  BY <1>1, <1>2, <1>3, <1>4, <1>5, <1>6, <1>7

LivePcs == {"save", "quota", "walk", "hand_over", "complete", "fail"}
NotEnded == run.status \in {"absent"} \cup Live

\* A step of the part in the worker's hands, which keeps its message.
LEMMA PartGoesOn ==
  ASSUME LifeInv, worker.pc # "idle", worker' \in WorkerOf, worker'.message = worker.message,
         NEW pc \in WorkerPcs \ {"idle", "save", "quota"}, worker'.pc = pc, op' = op,
         run' \in AnyRunOf, \A e \in run'.parked : e \in run.parked \/ e.part > 1,
         run'.status # run.status => NotEnded /\ run'.status # "purged",
         rows' \subseteq Units, rows' \subseteq rows \/ run.status \in Live,
         \A m \in DOMAIN queue' : m \in DOMAIN queue \/ (m \in MessageOf /\ m.envelope.part > 1),
         pc \in {"start", "register"} => NotEnded', pc \in LivePcs => run'.status \in Live
  PROVE  LifeInv'
<1> USE DEF LifeInv
<1>1. TypeOK'
  BY DEF TypeOK, HandsFull
<1>2. \A o \in Operators : ~Starting(o) /\ ~Starting(o)'
  BY DEF NothingYet, Starting
<1>3. LaterParts'
  BY <1>2 DEF LaterParts
<1>4. PurgeInv'
  <2>1. \A o \in Operators : IsPurging(o)' => IsPurging(o)
    BY DEF IsPurging
  <2>2. NoFirstPart => NoFirstPart'
    BY DEF NoFirstPart
  <2>3. run.status \in Purgeable \cup {"purged"} => run'.status = run.status /\ rows' \subseteq rows
    BY DEF NotEnded, Purgeable, Live
  <2> QED
    BY <2>1, <2>2, <2>3 DEF PurgeInv, NotEnded, IsPurging
<1>5. PartInv'
  BY DEF PartInv, NotEnded, LivePcs
<1> QED
  BY <1>1, <1>2, <1>3, <1>4, <1>5

LEMMA PartEnds ==
  ASSUME LifeInv, worker.pc # "idle", worker' = Idle, UNCHANGED <<run, rows, op>>,
         \A m \in DOMAIN queue' : m \in DOMAIN queue \/ (m \in MessageOf /\ \E n \in worker.message : m.envelope = n.envelope)
  PROVE  LifeInv'
<1> USE DEF LifeInv
<1>1. TypeOK'
  BY IdleTyped DEF TypeOK, HandsFull
<1>2. \A o \in Operators : ~Starting(o) /\ ~Starting(o)'
  BY DEF NothingYet, Starting
<1>3. LaterParts'
  BY <1>2, IdleTyped DEF LaterParts
<1>4. PurgeInv'
  <2>1. NoFirstPart => NoFirstPart'
    BY IdleTyped DEF NoFirstPart
  <2> QED
    BY <2>1 DEF PurgeInv, IsPurging
<1>5. PartInv'
  BY IdleTyped DEF PartInv
<1> QED
  BY <1>1, <1>2, <1>3, <1>4, <1>5

LEMMA PartArrives ==
  ASSUME LifeInv, NEW m \in BagToSet(queue), Receive(m)
  PROVE  LifeInv'
<1>1. m \in DOMAIN queue /\ m \in MessageOf /\ m.envelope \in PartOf /\ m.envelope.at \in 0 .. Length
  BY DEF LifeInv, TypeOK, BagToSet, MessageOf, PartOf
<1>2. AfterReceive(m.envelope) \in WorkerPcs \ {"sweeping", "complete", "idle"}
  BY DEF AfterReceive, WorkerPcs
<1>3. /\ worker' \in WorkerOf /\ worker'.pc = AfterReceive(m.envelope) /\ worker'.message = {m}
  <2>1. worker' = [Idle EXCEPT !.pc = AfterReceive(m.envelope), !.message = {m}, !.at = m.envelope.at]
    BY DEF Receive
  <2> HIDE DEF AfterReceive
  <2> QED
    BY <2>1, <1>1, <1>2 DEF Idle, WorkerOf
<1>4. DOMAIN queue' \subseteq DOMAIN queue
  BY Taken DEF Receive
<1>5. UNCHANGED <<run, rows, op>>
  BY DEF Receive
<1>6. TypeOK'
  BY <1>2, <1>3, <1>4, <1>5 DEF LifeInv, TypeOK, HandsFull
<1>7. \A o \in Operators : ~Starting(o) /\ ~Starting(o)'
  BY <1>1, <1>5 DEF LifeInv, NothingYet, Starting
<1>8. m.envelope.part \in Nat
  BY <1>1 DEF PartOf
<1>9. LaterParts'
  BY <1>3, <1>5, <1>7, <1>8 DEF LifeInv, LaterParts, AfterReceive
<1>10. NoFirstPart => NoFirstPart'
  BY <1>1, <1>3, <1>4 DEF NoFirstPart
<1>11. PurgeInv'
  BY <1>5, <1>10 DEF LifeInv, PurgeInv, IsPurging
<1>12. PartInv'
  <2>1. run.status = "purged" => m.envelope.part > 1
    BY <1>1 DEF LifeInv, PurgeInv, NoFirstPart
  <2>2. run.status \in {"absent", "purged"} \cup Live \cup Terminal
    BY DEF LifeInv, TypeOK, AnyRunOf
  <2> QED
    BY <1>3, <1>5, <1>8, <2>1, <2>2 DEF PartInv, AfterReceive, Terminal, Live, Registered
<1> QED
  BY <1>6, <1>7, <1>9, <1>11, <1>12 DEF LifeInv

\* A worker step that only goes on.
LEMMA PartProceeds ==
  ASSUME LifeInv, worker.pc # "idle", NEW pc \in WorkerPcs \ {"idle", "save", "quota"}, Become(pc),
         UNCHANGED <<rows, queue, op>>,
         run' \in AnyRunOf, \A e \in run'.parked : e \in run.parked \/ e.part > 1,
         run'.status # run.status => NotEnded /\ run'.status # "purged",
         pc \in {"start", "register"} => NotEnded', pc \in LivePcs => run'.status \in Live
  PROVE  LifeInv'
<1>1. worker' \in WorkerOf /\ worker'.pc = pc /\ worker'.message = worker.message
  BY Becomes DEF LifeInv, TypeOK
<1>2. rows' \subseteq Units /\ rows' \subseteq rows
  BY DEF LifeInv, TypeOK
<1> QED
  BY <1>1, <1>2, PartGoesOn

StatusMoves == run'.status = run.status \/ Lifecycle!Next

LEMMA WorkerLives ==
  ASSUME LifeInv, WorkerStep \/ Die
  PROVE  LifeInv' /\ StatusMoves
<1>1. /\ run \in AnyRunOf /\ worker \in WorkerOf /\ TypeOK /\ HandsFull /\ rows \subseteq Units /\ PartInv
      /\ Length \in Nat
  BY BoundsAssumption DEF LifeInv, TypeOK
<1>2. ASSUME NEW m \in BagToSet(queue), Receive(m)
      PROVE  LifeInv' /\ StatusMoves
  <2>1. run' = run
    BY <1>2 DEF Receive
  <2> QED
    BY <1>2, <2>1, PartArrives DEF StatusMoves
<1>3. ASSUME worker.pc # "idle"
      PROVE  /\ Envelope \in PartOf
             /\ worker.pc \in {"save", "quota"} => Envelope.part > 1
             /\ NextPart \in PartOf /\ NextPart.part > 1
  <2>1. The(worker.message) \in worker.message /\ Envelope \in PartOf
    <3>1. worker.message # {} /\ worker.message \subseteq MessageOf
      BY <1>1, <1>3 DEF HandsFull, WorkerOf
    <3> QED
      BY <3>1, Chosen DEF Envelope, MessageOf
  <2>2. worker.pc \in {"save", "quota"} => Envelope.part > 1
    BY <2>1 DEF LifeInv, LaterParts, Envelope
  <2>3. worker.at \in 0 .. Length /\ Envelope.part \in Nat \ {0}
    BY <1>1, <2>1 DEF WorkerOf, PartOf
  <2> QED
    BY <2>1, <2>2, <2>3 DEF NextPart, PartOf
\* The registry statements of the worker.
<1>4. ASSUME run' = run
      PROVE  /\ run' \in AnyRunOf /\ (\A e \in run'.parked : e \in run.parked \/ e.part > 1)
             /\ run'.status = run.status /\ StatusMoves
  BY <1>1, <1>4 DEF StatusMoves
<1>5. ASSUME NEW envelope \in PartOf, envelope.part > 1, PauseBacktestRun({envelope}), run.status \in Live
      PROVE  /\ run' \in AnyRunOf /\ (\A e \in run'.parked : e \in run.parked \/ e.part > 1)
             /\ run'.status \in Live /\ NotEnded /\ StatusMoves
  <2>1. run' \in AnyRunOf
    BY <1>1, <1>5, AnyRegistryTyped
  <2>2. run'.parked \in {run.parked, {envelope}} /\ run'.status = "paused"
    BY <1>1, <1>5, RegistryMoves
  <2>3. StatusMoves
    BY <1>5, <2>2 DEF StatusMoves, Live, Lifecycle!Next, Lifecycle!Pause
  <2> QED
    BY <1>5, <2>1, <2>2, <2>3 DEF NotEnded, Live
<1>6. CASE SaveCursor
  <2>1. /\ worker.pc = "save" /\ PauseBacktestRun({Envelope}) /\ Become("ack") /\ UNCHANGED <<rows, queue, op>>
        /\ run.status \in Live
    BY <1>1, <1>6 DEF SaveCursor, PartInv
  <2> QED
    BY <1>3, <1>5, <2>1, PartProceeds DEF WorkerPcs, LivePcs, Live
<1>7. CASE CheckQuota
  <2>1. worker.pc = "quota" /\ UNCHANGED <<rows, queue, op>> /\ run.status \in Live
    BY <1>1, <1>7 DEF CheckQuota, PartInv
  <2>2. CASE run' = run /\ Become("walk")
    BY <1>4, <2>1, <2>2, PartProceeds DEF WorkerPcs, LivePcs
  <2>3. CASE PauseBacktestRun({Envelope}) /\ Become("ack")
    BY <1>3, <1>5, <2>1, <2>3, PartProceeds DEF WorkerPcs, LivePcs, Live
  <2> QED
    BY <1>7, <2>2, <2>3 DEF CheckQuota
<1>8. CASE StartJob \/ YieldPart \/ WalkFails \/ ReportComplete \/ ReportFailed \/ StartSweep
  <2>1. run' = run /\ UNCHANGED <<rows, queue, op>> /\ worker.pc # "idle"
    BY <1>8 DEF StartJob, YieldPart, WalkFails, ReportComplete, ReportFailed, StartSweep
  <2>2. PICK pc \in {"register", "fail", "hand_over", "ack", "clean_failed", "sweeping"} :
          /\ Become(pc) /\ (pc = "register" => worker.pc = "start") /\ (pc \in LivePcs => worker.pc = "walk")
    BY <1>8 DEF StartJob, YieldPart, WalkFails, ReportComplete, ReportFailed, StartSweep, LivePcs
  <2>3. (pc \in {"start", "register"} => NotEnded') /\ (pc \in LivePcs => run'.status \in Live)
    BY <1>1, <2>1, <2>2 DEF PartInv, NotEnded, LivePcs
  <2>4. pc \in WorkerPcs \ {"idle", "save", "quota"}
    BY DEF WorkerPcs
  <2> QED
    BY <1>4, <2>1, <2>2, <2>3, <2>4, PartProceeds
<1>9. CASE RegisterRun
  <2>1. /\ InsertBacktestRun /\ UNCHANGED <<rows, queue, op>> /\ worker.pc = "register"
        /\ run.status \in {"absent"} \cup Live
    BY <1>1, <1>9 DEF RegisterRun, PartInv
  <2>2. PICK pc \in {"walk", "fail"} : Become(pc)
    BY <1>9 DEF RegisterRun
  <2>3. run' \in AnyRunOf
    BY <1>1, <2>1, AnyRegistryTyped
  <2>4. run'.parked = run.parked /\ run'.status = IF run.status = "absent" THEN "running" ELSE run.status
    BY <1>1, <2>1, RegistryMoves DEF Live
  <2>5. StatusMoves
    BY <2>4 DEF StatusMoves, Lifecycle!Next, Lifecycle!Begin
  <2>6. run'.status \in Live /\ NotEnded
    BY <2>1, <2>4 DEF NotEnded, Live
  <2> QED
    BY <2>1, <2>2, <2>3, <2>4, <2>5, <2>6, PartProceeds DEF WorkerPcs, LivePcs, Live
<1>10. CASE WalkUnit
  <2>1. /\ rows' = rows \cup {worker.at + 1} /\ worker.pc = "walk" /\ worker.at < Length
        /\ worker' = [worker EXCEPT !.at = @ + 1] /\ UNCHANGED <<run, queue, op>> /\ run.status \in Live
    BY <1>1, <1>10 DEF WalkUnit, PartInv
  <2>2. worker.at \in 0 .. Length /\ worker.at + 1 \in Units
    BY <1>1, <2>1 DEF WorkerOf, Units
  <2>3. worker' \in WorkerOf /\ worker'.pc = "walk" /\ worker'.message = worker.message
    BY <1>1, <2>1, <2>2 DEF WorkerOf, Units
  <2>4. rows' \subseteq Units
    BY <1>1, <2>1, <2>2
  <2> QED
    BY <1>1, <1>4, <2>1, <2>3, <2>4, PartGoesOn DEF WorkerPcs, LivePcs, LifeInv, TypeOK
<1>11. CASE HandOver
  <2>1. worker.pc = "hand_over" /\ UNCHANGED <<rows, op>> /\ run.status \in Live
    BY <1>1, <1>11 DEF HandOver, PartInv
  <2>2. CASE PauseBacktestRun({NextPart}) /\ Become("ack") /\ UNCHANGED queue
    BY <1>3, <1>5, <2>1, <2>2, PartProceeds DEF WorkerPcs, LivePcs, Live
  <2>3. CASE Enqueue(NextPart) /\ Become("ack") /\ run' = run
    <3>1. DOMAIN queue' = DOMAIN queue \cup {[envelope |-> NextPart, tries |-> 1]}
      BY <2>3, Sent
    <3>2. [envelope |-> NextPart, tries |-> 1] \in MessageOf /\ NextPart.part > 1
      BY <1>3, <2>1 DEF MessageOf
    <3>3. worker' \in WorkerOf /\ worker'.pc = "ack" /\ worker'.message = worker.message
      BY <1>1, <2>3, Becomes DEF WorkerPcs
    <3>4. \A m \in DOMAIN queue' : m \in DOMAIN queue \/ (m \in MessageOf /\ m.envelope.part > 1)
      BY <3>1, <3>2
    <3> QED
      BY <1>1, <1>4, <2>1, <2>3, <3>3, <3>4, PartGoesOn DEF WorkerPcs, LivePcs
  <2> QED
    BY <1>11, <2>2, <2>3 DEF HandOver, AfterPark
<1>12. CASE Score
  <2>1. /\ worker.pc = "walk" /\ UNCHANGED <<run, rows, queue, op>> /\ run.status \in Live
        /\ worker' = [worker EXCEPT !.pc = "complete", !.scored = rows]
    BY <1>1, <1>12 DEF Score, PartInv
  <2>2. worker' \in WorkerOf /\ worker'.pc = "complete" /\ worker'.message = worker.message
    BY <1>1, <2>1 DEF WorkerOf, WorkerPcs
  <2> QED
    BY <1>1, <1>4, <2>1, <2>2, PartGoesOn DEF WorkerPcs, LivePcs
<1>13. CASE CompleteRun
  <2>1. worker.pc = "complete" /\ UNCHANGED <<rows, queue, op>> /\ run.status \in Live
    BY <1>1, <1>13 DEF CompleteRun, PartInv
  <2>2. CASE run' = run /\ Become("fail")
    BY <1>4, <2>1, <2>2, PartProceeds DEF WorkerPcs, LivePcs
  <2>3. CASE CompleteBacktestRun(worker.scored) /\ Become("report_complete")
    <3>1. worker.scored \in SUBSET Units
      BY <1>1 DEF WorkerOf
    <3>2. run' \in AnyRunOf
      BY <1>1, <2>3, <3>1, AnyRegistryTyped
    <3>3. run'.parked = run.parked /\ run'.status \in {run.status, "complete"}
      BY <1>1, <2>3, RegistryMoves
    <3>4. StatusMoves /\ NotEnded /\ run'.status # "purged"
      BY <2>1, <3>3 DEF StatusMoves, Lifecycle!Next, Lifecycle!End, Lifecycle!Live, Lifecycle!Terminal, NotEnded, Live
    <3> QED
      BY <2>1, <2>3, <3>2, <3>3, <3>4, PartProceeds DEF WorkerPcs, LivePcs
  <2> QED
    BY <1>13, <2>2, <2>3 DEF CompleteRun
<1>14. CASE FailRun
  <2>1. /\ worker.pc = "fail" /\ FailBacktestRun /\ Become("report_failed") /\ UNCHANGED <<rows, queue, op>>
        /\ run.status \in Live
    BY <1>1, <1>14 DEF FailRun, PartInv
  <2>2. run' \in AnyRunOf
    BY <1>1, <2>1, AnyRegistryTyped
  <2>3. run'.parked = run.parked /\ run'.status \in {run.status, "failed"}
    BY <1>1, <2>1, RegistryMoves
  <2>4. StatusMoves /\ NotEnded /\ run'.status # "purged"
    BY <2>1, <2>3 DEF StatusMoves, Lifecycle!Next, Lifecycle!End, Lifecycle!Live, Lifecycle!Terminal, NotEnded, Live
  <2> QED
    BY <2>1, <2>2, <2>3, <2>4, PartProceeds DEF WorkerPcs, LivePcs
<1>15. CASE Sweep
  <2>1. worker.pc = "sweeping" /\ UNCHANGED <<run, queue, op>>
    BY <1>15 DEF Sweep
  <2>2. CASE DeleteChunk(TRUE) /\ UNCHANGED worker
    <3>1. rows' \subseteq rows
      BY <2>2 DEF DeleteChunk
    <3> QED
      BY <1>1, <1>4, <2>1, <2>2, <3>1, PartGoesOn DEF WorkerPcs, LivePcs
  <2>3. CASE Become("ack") /\ UNCHANGED rows
    BY <1>4, <2>1, <2>3, PartProceeds DEF WorkerPcs, LivePcs
  <2> QED
    BY <1>15, <2>2, <2>3 DEF Sweep
<1>16. CASE Ack
  <2>1. worker.pc # "idle" /\ worker' = Idle /\ UNCHANGED <<run, rows, op, queue>>
    BY <1>16 DEF Ack
  <2> QED
    BY <1>4, <2>1, PartEnds
<1>17. CASE Die
  <2> DEFINE again == [The(worker.message) EXCEPT !.tries = @ + 1]
  <2>1. worker' = Idle /\ UNCHANGED <<run, rows, op>> /\ worker.pc # "idle"
    BY <1>17 DEF Die
  <2>2. DOMAIN queue' \subseteq DOMAIN queue \cup {again}
    BY <1>17 DEF Die, (+), SetToBag
  <2>3. /\ The(worker.message) \in worker.message
        /\ again \in MessageOf /\ again.envelope = The(worker.message).envelope
    <3>1. worker.message # {} /\ worker.message \subseteq MessageOf
      BY <1>1, <2>1 DEF HandsFull, WorkerOf
    <3> QED
      BY <3>1, Chosen DEF MessageOf
  <2> HIDE DEF again
  <2> QED
    BY <1>4, <2>1, <2>2, <2>3, PartEnds
<1> QED
  BY <1>2, <1>6, <1>7, <1>8, <1>9, <1>10, <1>11, <1>12, <1>13, <1>14, <1>15, <1>16, <1>17 DEF WorkerStep

-----------------------------------------------------------------------------
(* The routes.                                                              *)

\* A step of a route whose request did not start the run, or has sent its first part.
NobodyStarting == \A p \in Operators : ~Starting(p)
StatusGoesOn(o) ==
  \/ run'.status = run.status
  \/ run.status \in Live /\ run'.status \in Live
  \/ run.status \in Live /\ run'.status = "cancelled" /\ worker.pc = "idle" /\ NobodyStarting
  \/ run.status \in Purgeable /\ run'.status = "purged" /\ op[o].pc = "delete_row"
MayPurge(o) ==
  /\ op'[o].pc = "purging" => op[o].pc = "purging" \/ (DOMAIN queue = {} /\ worker.pc = "idle" /\ run.status \in Purgeable)
  /\ op'[o].pc = "delete_row" => op[o].pc = "purging" /\ rows' = {}
RouteEffect(o) ==
  /\ op' \in [Operators -> OperatorOf] /\ \A p \in Operators \ {o} : op'[p] = op[p]
  /\ op'[o].envelope \subseteq op[o].envelope \cup run.parked
  /\ op'[o].pc \notin {"register", "unregister"} /\ (op'[o].pc \in {"claim", "send"} => op'[o].envelope # {})
  /\ MayPurge(o) /\ StatusGoesOn(o)
  /\ run' \in AnyRunOf /\ run'.parked \subseteq run.parked \cup op[o].envelope
  /\ \A m \in DOMAIN queue' : m \in DOMAIN queue \/ (m \in MessageOf /\ m.envelope \in op[o].envelope)
  /\ worker' = worker /\ rows' \subseteq rows

LEMMA RouteMoves ==
  ASSUME LifeInv, NEW o \in Operators, ~Starting(o), RouteEffect(o)
  PROVE  LifeInv'
<1>1. TypeOK'
  <2>1. rows \subseteq Units /\ DOMAIN queue \subseteq MessageOf /\ worker \in WorkerOf
    BY DEF LifeInv, TypeOK
  <2>2. HandsFull'
    BY DEF LifeInv, TypeOK, HandsFull, RouteEffect
  <2> QED
    BY <2>1, <2>2 DEF LifeInv, TypeOK, RouteEffect
<1>2. \A e \in op[o].envelope \cup run.parked : e.part > 1
  BY DEF LifeInv, LaterParts
<1>3. ~Starting(o)'
  <2>1. \A e \in op'[o].envelope : e.part > 1
    BY <1>2 DEF RouteEffect
  <2> QED
    BY <2>1 DEF RouteEffect, Starting
<1>4. \A p \in Operators : Starting(p)' => NothingYet(p)'
  <2> SUFFICES ASSUME NEW p \in Operators, Starting(p)'
               PROVE  NothingYet(p)'
    OBVIOUS
  <2>1. p # o /\ op'[p] = op[p]
    BY <1>3 DEF RouteEffect
  <2>2. Starting(p) /\ NothingYet(p)
    BY <2>1 DEF Starting, LifeInv
  <2>3. op[o].envelope = {} /\ run.parked = {} /\ DOMAIN queue = {}
    BY <2>1, <2>2 DEF NothingYet
  <2>4. DOMAIN queue' = {} /\ run'.parked = {} /\ op'[o].envelope = {} /\ worker' = worker
    BY <2>3 DEF RouteEffect
  <2>5. run'.status = run.status \/ (run.status \in Live /\ run'.status \in Live)
    BY <2>2 DEF RouteEffect, StatusGoesOn, NobodyStarting, NothingYet, Live, Purgeable
  <2>6. \A q \in Operators \ {p} : op'[q].envelope = {}
    BY <2>2, <2>4 DEF RouteEffect, NothingYet
  <2>7. run'.status \in {"absent"} \cup Live /\ (op'[p].pc = "register" => run'.status = "absent")
    BY <2>1, <2>2, <2>5 DEF NothingYet, Live
  <2> QED
    BY <2>1, <2>2, <2>4, <2>6, <2>7 DEF NothingYet
<1>5. LaterParts'
  <2>1. \A e \in run'.parked : e.part > 1
    BY <1>2 DEF RouteEffect
  <2>2. \A p \in Operators : \A e \in op'[p].envelope : e.part > 1 \/ Starting(p)'
    <3> SUFFICES ASSUME NEW p \in Operators, NEW e \in op'[p].envelope
                 PROVE  e.part > 1 \/ Starting(p)'
      OBVIOUS
    <3>1. CASE p = o
      BY <3>1, <1>2 DEF RouteEffect
    <3>2. CASE p # o
      BY <3>2 DEF RouteEffect, LifeInv, LaterParts, Starting
    <3> QED
      BY <3>1, <3>2
  <2> QED
    BY <2>1, <2>2 DEF RouteEffect, LifeInv, LaterParts
<1>6. PurgeInv'
  <2>1. NoFirstPart => NoFirstPart'
    BY <1>2 DEF RouteEffect, NoFirstPart
  <2>2. worker.pc = "idle" /\ DOMAIN queue = {} => NoFirstPart
    BY DEF LifeInv, TypeOK, NoFirstPart
  <2>3. \A p \in Operators : IsPurging(p)' => IsPurging(p) \/ (NoFirstPart /\ run.status \in Purgeable)
    BY <2>2 DEF RouteEffect, MayPurge, IsPurging
  <2>4. run.status \in Purgeable \cup {"purged"} => run'.status \in {run.status, "purged"}
    BY DEF RouteEffect, StatusGoesOn, Live, Purgeable
  <2>5. run'.status = "purged" => run.status = "purged" \/ op[o].pc = "delete_row"
    BY DEF RouteEffect, StatusGoesOn, Live
  <2>6. (run'.status = "purged" \/ \E p \in Operators : IsPurging(p)') =>
          NoFirstPart /\ run.status \in Purgeable \cup {"purged"}
    BY <2>3, <2>5 DEF LifeInv, PurgeInv, IsPurging
  <2>7. (run'.status = "purged" \/ \E p \in Operators : op'[p].pc = "delete_row") => rows' = {}
    <3>1. \A p \in Operators : op'[p].pc = "delete_row" => op[p].pc = "delete_row" \/ rows' = {}
      BY DEF RouteEffect, MayPurge
    <3> QED
      BY <3>1, <2>5 DEF LifeInv, PurgeInv, RouteEffect
  <2> QED
    BY <2>1, <2>4, <2>6, <2>7 DEF PurgeInv
<1>7. PartInv'
  BY DEF RouteEffect, StatusGoesOn, LifeInv, PartInv, Live, Purgeable
<1> QED
  BY <1>1, <1>4, <1>5, <1>6, <1>7 DEF LifeInv

\* A step of the request that starts the run.
StartEffect(o) ==
  /\ op' \in [Operators -> OperatorOf] /\ \A p \in Operators \ {o} : op'[p] = op[p]
  /\ op'[o].pc \in {"send", "unregister", "idle"} /\ op'[o].envelope = IF op'[o].pc = "idle" THEN {} ELSE op[o].envelope
  /\ run' \in AnyRunOf /\ run'.parked = run.parked
  /\ run'.status \in {"absent", run.status, "running"} \/ (run'.status = "failed" /\ op'[o].pc = "idle")
  /\ DOMAIN queue' \subseteq MessageOf /\ (op'[o].pc # "idle" => queue' = queue)
  /\ worker' = worker /\ rows' = rows

LEMMA StartMoves ==
  ASSUME LifeInv, NEW o \in Operators, Starting(o), StartEffect(o)
  PROVE  LifeInv'
<1>1. NothingYet(o) /\ op[o].envelope = {FirstPart}
  BY DEF LifeInv, NothingYet
<1>2. \A p \in Operators \ {o} : op'[p] = op[p] /\ op[p].envelope = {} /\ ~Starting(p)
  <2>1. \A p \in Operators \ {o} : op'[p] = op[p] /\ op[p].envelope = {}
    BY <1>1 DEF NothingYet, StartEffect
  <2>2. \A p \in Operators \ {o} : ~NothingYet(p)
    BY <2>1 DEF NothingYet
  <2> QED
    BY <2>1, <2>2 DEF LifeInv
<1>3. TypeOK'
  BY <1>1 DEF LifeInv, TypeOK, HandsFull, StartEffect
<1>4. \A p \in Operators : Starting(p)' => NothingYet(p)'
  <2> SUFFICES ASSUME NEW p \in Operators, Starting(p)'
               PROVE  NothingYet(p)'
    OBVIOUS
  <2>1. p = o /\ op'[o].pc \in {"send", "unregister"}
    BY <1>2 DEF Starting, StartEffect
  <2>2. run'.status \in {"absent"} \cup Live
    BY <1>1, <2>1 DEF StartEffect, NothingYet, Live
  <2>3. \A q \in Operators \ {o} : op'[q].envelope = {}
    BY <1>2
  <2> QED
    BY <1>1, <2>1, <2>2, <2>3 DEF NothingYet, StartEffect
<1>5. LaterParts'
  <2>1. \A p \in Operators : \A e \in op'[p].envelope : Starting(p)'
    <3>1. \A p \in Operators \ {o} : op'[p].envelope = {}
      BY <1>2
    <3>2. \A e \in op'[o].envelope : Starting(o)'
      BY <1>1 DEF StartEffect, Starting, FirstPart
    <3> QED
      BY <3>1, <3>2
  <2> QED
    BY <1>1, <2>1 DEF StartEffect, NothingYet, LaterParts
<1>6. PurgeInv'
  <2>1. run.status \notin Purgeable \cup {"purged"}
    BY <1>1 DEF NothingYet, Live, Purgeable
  <2>2. run'.status # "purged" /\ \A p \in Operators : ~IsPurging(p)'
    <3>1. \A p \in Operators : ~IsPurging(p)
      BY <2>1 DEF LifeInv, PurgeInv
    <3> QED
      BY <2>1, <3>1 DEF StartEffect, IsPurging
  <2> QED
    BY <2>2 DEF PurgeInv, IsPurging
<1>7. PartInv'
  BY <1>1 DEF NothingYet, StartEffect, PartInv
<1> QED
  BY <1>3, <1>4, <1>5, <1>6, <1>7 DEF LifeInv

\* What a registry statement of such a route may do.
RowEffect(o) ==
  StatusGoesOn(o) /\ StatusMoves /\ run' \in AnyRunOf /\ run'.parked \subseteq run.parked \cup op[o].envelope

\* A step that sends nothing, and goes on or returns.
LEMMA RouteSteps ==
  ASSUME LifeInv, NEW o \in Operators, ~Starting(o), NEW pc \in OperatorPcs \ {"register", "unregister"},
         Proceed(o, pc) \/ Return(o), pc \in {"claim", "send"} => op[o].envelope # {},
         pc = "purging" => DOMAIN queue = {} /\ worker.pc = "idle" /\ run.status \in Purgeable,
         pc = "delete_row" => op[o].pc = "purging" /\ rows = {},
         RowEffect(o), UNCHANGED <<rows, worker, queue>>
  PROVE  LifeInv' /\ StatusMoves
<1>1. op \in [Operators -> OperatorOf]
  BY DEF LifeInv, TypeOK
<1>2. /\ op' \in [Operators -> OperatorOf] /\ \A p \in Operators \ {o} : op'[p] = op[p]
      /\ \/ op'[o].pc = pc /\ op'[o].envelope = op[o].envelope
         \/ op'[o].pc = "idle" /\ op'[o].envelope = {}
  <2>1. CASE Proceed(o, pc)
    BY <1>1, <2>1, Proceeds
  <2>2. CASE Return(o)
    BY <1>1, <2>2, Returns
  <2> QED
    BY <2>1, <2>2
<1>3. MayPurge(o)
  BY <1>2 DEF MayPurge
<1>4. RouteEffect(o)
  BY <1>2, <1>3 DEF RouteEffect, RowEffect
<1> QED
  BY <1>4, RouteMoves DEF RowEffect

\* The registry statements of the routes.
LEMMA RowMoves ==
  ASSUME LifeInv, NEW o \in Operators
  PROVE  /\ run' = run => RowEffect(o)
         /\ ClaimForResume /\ MayClaim => RowEffect(o)
         /\ \A envelope \in SUBSET op[o].envelope : PauseBacktestRun(envelope) => RowEffect(o)
         /\ CancelBacktestRun /\ worker.pc = "idle" /\ NobodyStarting => RowEffect(o)
         /\ DeleteBacktestRun /\ op[o].pc = "delete_row" => RowEffect(o)
<1>1. run \in AnyRunOf /\ op[o].envelope \in SUBSET PartOf
  BY DEF LifeInv, TypeOK, OperatorOf
<1> USE DEF RowEffect, StatusGoesOn, StatusMoves, Lifecycle!Next, Live
<1>2. run' = run => RowEffect(o)
  BY <1>1
<1>3. ASSUME ClaimForResume, MayClaim
      PROVE  RowEffect(o)
  <2>1. run' \in AnyRunOf
    BY <1>1, <1>3, AnyRegistryTyped
  <2>2. run.status = "paused" /\ run'.status = "running" /\ run'.parked = {}
    BY <1>1, <1>3, RegistryMoves DEF MayClaim
  <2> QED
    BY <2>1, <2>2 DEF Lifecycle!Resume
<1>4. ASSUME NEW envelope \in SUBSET op[o].envelope, PauseBacktestRun(envelope)
      PROVE  RowEffect(o)
  <2>1. run' \in AnyRunOf
    BY <1>1, <1>4, AnyRegistryTyped
  <2>2. /\ run'.parked \in {run.parked, envelope}
        /\ run'.status = IF run.status \in Live THEN "paused" ELSE run.status
    BY <1>1, <1>4, RegistryMoves
  <2> QED
    BY <2>1, <2>2, <1>4 DEF Lifecycle!Pause
<1>5. ASSUME CancelBacktestRun, worker.pc = "idle", NobodyStarting
      PROVE  RowEffect(o)
  <2>1. run' \in AnyRunOf
    BY <1>1, <1>5, AnyRegistryTyped
  <2>2. run.status \in Live /\ run'.parked = {} /\ run'.status = "cancelled"
    BY <1>1, <1>5, RegistryMoves
  <2> QED
    BY <2>1, <2>2, <1>5 DEF Lifecycle!End, Lifecycle!Live, Lifecycle!Terminal
<1>6. ASSUME DeleteBacktestRun, op[o].pc = "delete_row"
      PROVE  RowEffect(o)
  <2>1. run' \in AnyRunOf
    BY <1>1, <1>6, AnyRegistryTyped
  <2>2. run'.parked = run.parked /\ run'.status = IF run.status \in Purgeable THEN "purged" ELSE run.status
    BY <1>1, <1>6, RegistryMoves
  <2> QED
    BY <2>1, <2>2, <1>6 DEF Lifecycle!Purge, Lifecycle!Purgeable, Purgeable
<1> QED
  BY <1>2, <1>3, <1>4, <1>5, <1>6

\* The steps of the request that starts the run.
LEMMA StartSteps ==
  ASSUME LifeInv, NEW o \in Operators, Starting(o), RouteStep(o) \/ Request(o)
  PROVE  LifeInv' /\ StatusMoves
<1>1. /\ run \in AnyRunOf /\ op \in [Operators -> OperatorOf] /\ op[o].envelope = {FirstPart} /\ NothingYet(o)
      /\ run.status \in {"absent"} \cup Live /\ DOMAIN queue \subseteq MessageOf
      /\ op[o].pc = "register" => run.status = "absent"
  BY DEF LifeInv, TypeOK, NothingYet
<1>2. op[o].pc \in {"register", "unregister", "send"}
  BY DEF Starting
<1> USE DEF StartEffect, StatusMoves
<1>3. CASE Register(o)
  <2>1. op[o].pc = "register" /\ UNCHANGED <<rows, queue, worker>>
    BY <1>3 DEF Register, At
  <2>2. CASE InsertBacktestRun /\ op' = [op EXCEPT ![o].pc = "send", ![o].registered = TRUE]
    <3>1. /\ op' \in [Operators -> OperatorOf] /\ op'[o].pc = "send" /\ op'[o].envelope = op[o].envelope
          /\ \A p \in Operators \ {o} : op'[p] = op[p]
      BY <1>1, <2>2 DEF OperatorOf, OperatorPcs
    <3>2. run' \in AnyRunOf
      BY <1>1, <2>2, AnyRegistryTyped
    <3>3. run'.parked = run.parked /\ run'.status = "running" /\ run.status = "absent"
      BY <1>1, <2>1, <2>2, RegistryMoves
    <3>4. StartEffect(o)
      BY <1>1, <2>1, <3>1, <3>2, <3>3
    <3>5. StatusMoves
      BY <3>3 DEF Lifecycle!Next, Lifecycle!Begin
    <3> QED
      BY <3>4, <3>5, StartMoves
  <2>3. CASE run' = run /\ Proceed(o, "send")
    <3>1. /\ op' \in [Operators -> OperatorOf] /\ op'[o].pc = "send" /\ op'[o].envelope = op[o].envelope
          /\ \A p \in Operators \ {o} : op'[p] = op[p]
      BY <1>1, <2>3, Proceeds DEF OperatorPcs
    <3>2. StartEffect(o)
      BY <1>1, <2>1, <2>3, <3>1
    <3> QED
      BY <2>3, <3>2, StartMoves
  <2> QED
    BY <1>3, <2>2, <2>3 DEF Register
<1>4. CASE Send(o)
  <2>1. UNCHANGED <<run, rows, worker>>
    BY <1>4 DEF Send
  <2>2. The(op[o].envelope) = FirstPart /\ FirstPart.part = 1 /\ FirstPart \in PartOf
    BY <1>1, Chosen, BoundsAssumption DEF FirstPart, PartOf
  <2>3. CASE Enqueue(The(op[o].envelope)) /\ Return(o)
    <3>1. /\ op' \in [Operators -> OperatorOf] /\ op'[o].pc = "idle" /\ op'[o].envelope = {}
          /\ \A p \in Operators \ {o} : op'[p] = op[p]
      BY <1>1, <2>3, Returns
    <3>2. DOMAIN queue' = DOMAIN queue \cup {[envelope |-> FirstPart, tries |-> 1]}
      BY <2>2, <2>3, Sent
    <3>3. [envelope |-> FirstPart, tries |-> 1] \in MessageOf
      BY <2>2 DEF MessageOf
    <3>4. StartEffect(o)
      BY <1>1, <2>1, <3>1, <3>2, <3>3
    <3> QED
      BY <2>1, <3>4, StartMoves
  <2>4. CASE UNCHANGED queue /\ (Return(o) \/ Proceed(o, "unregister"))
    <3>1. /\ op' \in [Operators -> OperatorOf] /\ \A p \in Operators \ {o} : op'[p] = op[p]
          /\ \/ op'[o].pc = "idle" /\ op'[o].envelope = {}
             \/ op'[o].pc = "unregister" /\ op'[o].envelope = op[o].envelope
      BY <1>1, <2>4, Returns, Proceeds DEF OperatorPcs
    <3>2. StartEffect(o)
      BY <1>1, <2>1, <2>4, <3>1
    <3> QED
      BY <2>1, <3>2, StartMoves
  <2> QED
    BY <1>4, <2>2, <2>3, <2>4 DEF Send
<1>5. CASE Unregister(o)
  <2>1. Return(o) /\ UNCHANGED <<rows, queue, worker>>
    BY <1>5 DEF Unregister
  <2>2. /\ op' \in [Operators -> OperatorOf] /\ op'[o].pc = "idle" /\ op'[o].envelope = {}
        /\ \A p \in Operators \ {o} : op'[p] = op[p]
    BY <1>1, <2>1, Returns
  <2>3. /\ run' \in AnyRunOf /\ run'.parked = run.parked
        /\ run'.status = run.status \/ (run.status \in Live /\ run'.status = "failed")
    <3>1. FailBacktestRun => run' \in AnyRunOf
      BY <1>1, AnyRegistryTyped
    <3>2. FailBacktestRun => /\ run'.parked = run.parked
                             /\ run'.status = run.status \/ (run.status \in Live /\ run'.status = "failed")
      BY <1>1 DEF FailBacktestRun, Registered, AnyRunOf
    <3> QED
      BY <1>1, <1>5, <3>1, <3>2 DEF Unregister
  <2>4. StartEffect(o)
    BY <1>1, <2>1, <2>2, <2>3
  <2>5. StatusMoves
    BY <2>3 DEF Lifecycle!Next, Lifecycle!End, Lifecycle!Live, Lifecycle!Terminal, Live
  <2> QED
    BY <2>4, <2>5, StartMoves
<1>6. CASE PauseRoute(o)
  BY <1>2, <1>6 DEF PauseRoute, At
<1>7. ~Repark(o) /\ ~Claim(o) /\ ~CancelJob(o) /\ ~StartCancelSweep(o) /\ ~OperatorSweep(o) /\ ~DeleteRow(o)
  BY <1>2 DEF Repark, Claim, CancelJob, StartCancelSweep, OperatorSweep, DeleteRow, At
<1>8. ~ReadParked(o) /\ ~CancelRoute(o) /\ ~CleanupRoute(o) /\ ~PurgeRoute(o)
  BY <1>2 DEF ReadParked, CancelRoute, CleanupRoute, PurgeRoute, At
<1> QED
  BY <1>3, <1>4, <1>5, <1>6, <1>7, <1>8 DEF RouteStep, Request

\* The other steps, where a cancel waits for the part and a purge for the queue.
LEMMA RoutesLive ==
  ASSUME CancelMidPart = FALSE, PurgeQueued = FALSE, LifeInv,
         NEW o \in Operators, ~Starting(o), RouteStep(o) \/ Request(o)
  PROVE  LifeInv' /\ StatusMoves
<1>1. /\ run \in AnyRunOf /\ op \in [Operators -> OperatorOf] /\ op[o].envelope \subseteq PartOf
      /\ run.parked \subseteq PartOf
      /\ op[o].pc \in {"claim", "send"} => op[o].envelope # {}
  BY DEF LifeInv, TypeOK, HandsFull, OperatorOf, AnyRunOf
<1>2. op[o].pc \notin {"register", "unregister"}
  BY DEF Starting
<1>3. CASE Send(o)
  <2> DEFINE sent == The(op[o].envelope)
  <2>1. op[o].pc = "send" /\ UNCHANGED <<run, rows, worker>>
    BY <1>3 DEF Send, At
  <2>2. sent \in op[o].envelope /\ sent \in PartOf /\ sent.part > 1
    <3>1. sent \in op[o].envelope
      BY <1>1, <2>1, Chosen
    <3> QED
      BY <1>1, <3>1 DEF LifeInv, LaterParts
  <2>3. \/ Enqueue(sent) /\ Return(o)
        \/ Proceed(o, "repark") /\ UNCHANGED queue
    BY <1>3, <2>2 DEF Send
  <2> HIDE DEF sent
  <2>4. CASE Enqueue(sent) /\ Return(o)
    <3>1. /\ op' \in [Operators -> OperatorOf] /\ op'[o].pc = "idle" /\ op'[o].envelope = {}
          /\ \A p \in Operators \ {o} : op'[p] = op[p]
      BY <1>1, <2>4, Returns
    <3>2. DOMAIN queue' = DOMAIN queue \cup {[envelope |-> sent, tries |-> 1]}
      BY <2>4, Sent
    <3>3. [envelope |-> sent, tries |-> 1] \in MessageOf
      BY <2>2 DEF MessageOf
    <3>4. RowEffect(o)
      BY <2>1, RowMoves
    <3>5. RouteEffect(o)
      BY <2>1, <2>2, <3>1, <3>2, <3>3, <3>4 DEF RouteEffect, RowEffect, MayPurge
    <3> QED
      BY <3>4, <3>5, RouteMoves DEF RowEffect
  <2>5. CASE Proceed(o, "repark") /\ UNCHANGED queue
    <3>1. RowEffect(o)
      BY <2>1, RowMoves
    <3> QED
      BY <2>1, <2>5, <3>1, RouteSteps DEF OperatorPcs
  <2> QED
    BY <2>3, <2>4, <2>5
<1>4. CASE Repark(o)
  <2>1. Return(o) /\ UNCHANGED <<rows, queue, worker>> /\ RowEffect(o)
    BY <1>4, RowMoves DEF Repark
  <2> QED
    BY <2>1, RouteSteps DEF OperatorPcs
<1>5. CASE Claim(o)
  <2>1. op[o].envelope # {} /\ UNCHANGED <<rows, queue, worker>> /\ RowEffect(o)
    BY <1>1, <1>5, RowMoves DEF Claim, At
  <2>2. Return(o) \/ Proceed(o, "send")
    BY <1>5 DEF Claim
  <2> QED
    BY <2>1, <2>2, RouteSteps DEF OperatorPcs
<1>6. CASE CancelJob(o) \/ StartCancelSweep(o)
  <2>1. UNCHANGED <<rows, queue, worker>> /\ RowEffect(o)
    BY <1>6, RowMoves DEF CancelJob, StartCancelSweep
  <2>2. PICK pc \in {"clean_cancelled", "sweeping"} : Return(o) \/ Proceed(o, pc)
    BY <1>6 DEF CancelJob, StartCancelSweep
  <2> QED
    BY <2>1, <2>2, RouteSteps DEF OperatorPcs
<1>7. CASE OperatorSweep(o)
  <2>1. op[o].pc \in {"sweeping", "purging"} /\ UNCHANGED <<run, queue, worker>> /\ RowEffect(o)
    BY <1>7, RowMoves DEF OperatorSweep, At
  <2>2. CASE UNCHANGED op /\ rows' \subseteq rows
    <3>1. RouteEffect(o)
      BY <1>1, <1>2, <2>1, <2>2 DEF RouteEffect, RowEffect, MayPurge
    <3> QED
      BY <2>1, <3>1, RouteMoves DEF RowEffect
  <2>3. CASE Return(o) /\ UNCHANGED rows
    BY <2>1, <2>3, RouteSteps DEF OperatorPcs
  <2>4. CASE Proceed(o, "delete_row") /\ UNCHANGED rows /\ rows = {} /\ op[o].pc = "purging"
    BY <2>1, <2>4, RouteSteps DEF OperatorPcs
  <2>5. \/ UNCHANGED op /\ rows' \subseteq rows
        \/ Return(o) /\ UNCHANGED rows
        \/ Proceed(o, "delete_row") /\ UNCHANGED rows /\ rows = {} /\ op[o].pc = "purging"
    BY <1>7, <2>1 DEF OperatorSweep, DeleteChunk, NothingLeft, At
  <2> QED
    BY <2>2, <2>3, <2>4, <2>5
<1>8. CASE DeleteRow(o)
  <2>1. Return(o) /\ UNCHANGED <<rows, queue, worker>> /\ RowEffect(o)
    BY <1>8, RowMoves DEF DeleteRow, At
  <2> QED
    BY <2>1, RouteSteps DEF OperatorPcs
<1>9. CASE PauseRoute(o)
  <2>1. PauseBacktestRun({}) /\ UNCHANGED <<rows, queue, worker, op>> /\ op[o].pc = "idle"
    BY <1>9 DEF PauseRoute, At
  <2>2. RowEffect(o)
    BY <2>1, RowMoves
  <2>3. RouteEffect(o)
    BY <1>1, <1>2, <2>1, <2>2 DEF RouteEffect, RowEffect, MayPurge
  <2> QED
    BY <2>2, <2>3, RouteMoves DEF RowEffect
<1>10. CASE ReadParked(o)
  <2>1. /\ op' = [op EXCEPT ![o].pc = "claim", ![o].envelope = run.parked] /\ run.parked # {}
        /\ UNCHANGED <<run, rows, queue, worker>> /\ RowEffect(o)
    BY <1>10, RowMoves DEF ReadParked, MayClaim
  <2>2. /\ op' \in [Operators -> OperatorOf] /\ op'[o].pc = "claim" /\ op'[o].envelope = run.parked
        /\ \A p \in Operators \ {o} : op'[p] = op[p]
    BY <1>1, <2>1 DEF OperatorOf, OperatorPcs
  <2>3. RouteEffect(o)
    BY <1>1, <2>1, <2>2 DEF RouteEffect, RowEffect, MayPurge
  <2> QED
    BY <2>1, <2>3, RouteMoves DEF RowEffect
<1>11. CASE CancelRoute(o)
  <2>1. /\ CancelBacktestRun /\ worker.pc = "idle" /\ Proceed(o, "cancel_job") /\ UNCHANGED <<rows, queue, worker>>
        /\ \A p \in Operators : op[p].pc \notin {"send", "unregister"}
    BY <1>11 DEF CancelRoute, At
  <2>2. NobodyStarting
    <3>1. run.status \in Live
      BY <2>1 DEF CancelBacktestRun
    <3>2. \A p \in Operators : op[p].pc # "register"
      BY <3>1 DEF LifeInv, NothingYet, Starting, Live
    <3> QED
      BY <2>1, <3>2 DEF NobodyStarting, Starting
  <2>3. RowEffect(o)
    BY <2>1, <2>2, RowMoves
  <2> QED
    BY <2>1, <2>3, RouteSteps DEF OperatorPcs
<1>12. CASE CleanupRoute(o)
  <2>1. Proceed(o, "sweeping") /\ UNCHANGED <<rows, queue, worker>> /\ RowEffect(o)
    BY <1>12, RowMoves DEF CleanupRoute
  <2> QED
    BY <2>1, RouteSteps DEF OperatorPcs
<1>13. CASE PurgeRoute(o)
  <2>1. /\ Proceed(o, "purging") /\ UNCHANGED <<rows, queue, worker>> /\ RowEffect(o)
        /\ queue = EmptyBag /\ worker.pc = "idle" /\ run.status \in Purgeable
    BY <1>13, RowMoves DEF PurgeRoute
  <2>2. DOMAIN queue = {}
    BY <2>1 DEF EmptyBag, SetToBag
  <2> QED
    BY <2>1, <2>2, RouteSteps DEF OperatorPcs
<1> QED
  BY <1>2, <1>3, <1>4, <1>5, <1>6, <1>7, <1>8, <1>9, <1>10, <1>11, <1>12, <1>13
     DEF RouteStep, Request, Register, Unregister, At

-----------------------------------------------------------------------------
LEMMA LifeStarts ==
  ASSUME Init
  PROVE  LifeInv
<1>1. /\ run.status = "absent" /\ run.parked = {} /\ run \in AnyRunOf /\ rows = {} /\ worker = Idle
      /\ DOMAIN queue = {}
  BY DEF Init, AnyRunOf, EmptyBag, SetToBag
<1>2. PICK o \in Operators :
        op = [p \in Operators |-> IF p = o THEN [pc |-> "register", envelope |-> {FirstPart}, registered |-> FALSE]
                                  ELSE IdleOperator]
  BY DEF Init
<1>3. FirstPart \in PartOf
  BY BoundsAssumption DEF FirstPart, PartOf
<1>4. IdleOperator \in OperatorOf /\ IdleOperator.pc = "idle" /\ IdleOperator.envelope = {}
  BY DEF IdleOperator, OperatorOf, OperatorPcs
<1>5. op \in [Operators -> OperatorOf]
  BY <1>2, <1>3, <1>4 DEF OperatorOf, OperatorPcs
<1>6. /\ op[o].pc = "register" /\ op[o].envelope = {FirstPart}
      /\ \A p \in Operators \ {o} : op[p].pc = "idle" /\ op[p].envelope = {}
  BY <1>2, <1>4
<1>7. TypeOK
  BY <1>1, <1>5, <1>6, IdleTyped DEF TypeOK, HandsFull
<1>8. Starting(o) /\ NothingYet(o) /\ \A p \in Operators \ {o} : ~Starting(p)
  BY <1>1, <1>6, IdleTyped DEF Starting, NothingYet, Live
<1>9. LaterParts
  BY <1>1, <1>6, <1>8, IdleTyped DEF LaterParts
<1>10. PurgeInv
  BY <1>1, <1>6 DEF PurgeInv, IsPurging
<1>11. PartInv
  BY <1>1, IdleTyped DEF PartInv
<1> QED
  BY <1>7, <1>8, <1>9, <1>10, <1>11 DEF LifeInv

LEMMA LifeSteps ==
  ASSUME CancelMidPart = FALSE, PurgeQueued = FALSE, LifeInv, [Next]_vars
  PROVE  LifeInv' /\ StatusMoves
<1>1. CASE UNCHANGED vars
  BY <1>1 DEF vars, LifeInv, TypeOK, HandsFull, Starting, NothingYet, LaterParts, PurgeInv, NoFirstPart, IsPurging,
              PartInv, StatusMoves
<1>2. ASSUME NEW o \in Operators, RouteStep(o) \/ Request(o)
      PROVE  LifeInv' /\ StatusMoves
  BY <1>2, StartSteps, RoutesLive
<1> QED
  BY <1>1, <1>2, WorkerLives DEF Next

\* The registry row goes through the life of RunLifecycle, whatever is paused, resumed, split, redelivered or purged,
\* where a cancel waits until no part executes (storage/sim_registry.js, whose ends are not guarded on the status).
THEOREM LifecycleHolds ==
  ASSUME CancelMidPart = FALSE, PurgeQueued = FALSE
  PROVE  Spec => KeepsLifecycle
<1>1. Init => LifeInv /\ Lifecycle!Init
  BY LifeStarts DEF Init, Lifecycle!Init
<1>2. LifeInv /\ [Next]_vars => LifeInv' /\ [Lifecycle!Next]_(run.status)
  BY LifeSteps DEF StatusMoves
<1> QED
  BY <1>1, <1>2, PTL DEF Spec, KeepsLifecycle, Lifecycle!Spec

\* A purged run leaves no state rows that nothing points at (deleteRun before deleteBacktestRun, and no part left that
\* would write or insert the run again).
THEOREM NoOrphanRowsHolds ==
  ASSUME CancelMidPart = FALSE, PurgeQueued = FALSE
  PROVE  Spec => []NoOrphanRows
<1>1. Init => LifeInv
  BY LifeStarts
<1>2. LifeInv /\ [Next]_vars => LifeInv'
  BY LifeSteps
<1>3. LifeInv => NoOrphanRows
  BY DEF LifeInv, PurgeInv, NoOrphanRows
<1> QED
  BY <1>1, <1>2, <1>3, PTL DEF Spec

-----------------------------------------------------------------------------
(* One chain.                                                               *)

\* Who holds an envelope that is to be sent, and nobody else does.
Holding == {o \in Operators : op[o].pc \in {"register", "send", "repark"}}
AtMostOne(S) == \A x, y \in S : x = y

Shapes ==
  /\ DOMAIN run = {"status", "parked", "scored"}
  /\ DOMAIN worker = {"pc", "message", "at", "scored"}
  /\ DOMAIN op = Operators /\ \A o \in Operators : DOMAIN op[o] = {"pc", "envelope", "registered"}

\* The chain is in one place: the queue, the parked envelope, a request or the worker.
OnePlace ==
  /\ DOMAIN queue # {} => run.parked = {} /\ Holding = {} /\ ~WorkersPart
  /\ run.parked # {} => Holding = {} /\ ~WorkersPart
  /\ Holding # {} => ~WorkersPart
OneOfEach ==
  /\ AtMostOne(DOMAIN queue) /\ (\A m \in DOMAIN queue : queue[m] = 1)
  /\ AtMostOne(run.parked) /\ (\A o \in Operators : AtMostOne(op[o].envelope)) /\ AtMostOne(Holding)

ChainInv == faults = 0 /\ Shapes /\ OnePlace /\ OneOfEach

LEMMA OneSent ==
  ASSUME NEW envelope, DOMAIN queue = {}, Enqueue(envelope)
  PROVE  AtMostOne(DOMAIN queue') /\ \A m \in DOMAIN queue' : queue'[m] = 1
<1> DEFINE m == [envelope |-> envelope, tries |-> 1]
<1>1. queue' = queue (+) SetToBag({m})
  BY DEF Enqueue
<1> HIDE DEF m
<1>2. DOMAIN queue' = {m} /\ queue'[m] = 1
  BY <1>1 DEF (+), SetToBag
<1> QED
  BY <1>2 DEF AtMostOne

LEMMA OneTaken ==
  ASSUME NEW m \in DOMAIN queue, OneOfEach, queue' = queue (-) SetToBag({m})
  PROVE  DOMAIN queue' = {}
<1>1. DOMAIN queue = {m} /\ queue[m] = 1
  BY DEF OneOfEach, AtMostOne
<1> QED
  BY <1>1 DEF (-), SetToBag

\* What the statements do to the parked envelope.
LEMMA ChainRow ==
  ASSUME Shapes
  PROVE  /\ InsertBacktestRun => DOMAIN run' = DOMAIN run /\ run'.parked = run.parked
         /\ FailBacktestRun => DOMAIN run' = DOMAIN run /\ run'.parked = run.parked
         /\ \A scored : CompleteBacktestRun(scored) => DOMAIN run' = DOMAIN run /\ run'.parked = run.parked
         /\ DeleteBacktestRun => DOMAIN run' = DOMAIN run /\ run'.parked = run.parked
         /\ CancelBacktestRun => DOMAIN run' = DOMAIN run /\ run'.parked = {}
         /\ ClaimForResume => DOMAIN run' = DOMAIN run /\ run'.parked = {}
         /\ PauseBacktestRun({}) => DOMAIN run' = DOMAIN run /\ run'.parked = run.parked
         /\ \A envelope : PauseBacktestRun(envelope) => DOMAIN run' = DOMAIN run /\ run'.parked \in {run.parked, envelope}
<1> USE DEF Shapes
<1>1. InsertBacktestRun => DOMAIN run' = DOMAIN run /\ run'.parked = run.parked
  BY DEF InsertBacktestRun
<1>2. FailBacktestRun => DOMAIN run' = DOMAIN run /\ run'.parked = run.parked
  BY DEF FailBacktestRun
<1>3. \A scored : CompleteBacktestRun(scored) => DOMAIN run' = DOMAIN run /\ run'.parked = run.parked
  BY DEF CompleteBacktestRun
<1>4. DeleteBacktestRun => DOMAIN run' = DOMAIN run /\ run'.parked = run.parked
  BY DEF DeleteBacktestRun
<1>5. CancelBacktestRun => DOMAIN run' = DOMAIN run /\ run'.parked = {}
  BY DEF CancelBacktestRun
<1>6. ClaimForResume => DOMAIN run' = DOMAIN run /\ run'.parked = {}
  BY DEF ClaimForResume
<1>7. PauseBacktestRun({}) => DOMAIN run' = DOMAIN run /\ run'.parked = run.parked
  BY DEF PauseBacktestRun
<1>8. \A envelope : PauseBacktestRun(envelope) => DOMAIN run' = DOMAIN run /\ run'.parked \in {run.parked, envelope}
  BY DEF PauseBacktestRun
<1> QED
  BY <1>1, <1>2, <1>3, <1>4, <1>5, <1>6, <1>7, <1>8

\* A step of the worker: it keeps its part, lets it go, or parks or sends it.
LEMMA ChainOfWorker ==
  ASSUME ChainInv, UNCHANGED <<op, faults>>, DOMAIN run' = DOMAIN run,
         DOMAIN worker' = {"pc", "message", "at", "scored"},
         \/ queue' = queue /\ run'.parked = run.parked /\ (WorkersPart' => WorkersPart)
         \/ queue' = queue /\ WorkersPart /\ ~WorkersPart' /\ AtMostOne(run'.parked)
         \/ /\ WorkersPart /\ ~WorkersPart' /\ run'.parked = run.parked
            /\ AtMostOne(DOMAIN queue') /\ \A m \in DOMAIN queue' : queue'[m] = 1
         \/ DOMAIN queue # {} /\ DOMAIN queue' = {} /\ run'.parked = run.parked
  PROVE  ChainInv'
<1>1. Shapes' /\ faults' = 0
  BY DEF ChainInv, Shapes
<1>2. Holding' = Holding /\ AtMostOne(Holding)' /\ \A o \in Operators : AtMostOne(op[o].envelope)'
  BY DEF ChainInv, OneOfEach, Holding, AtMostOne
<1>3. OnePlace'
  BY <1>2 DEF ChainInv, OnePlace
<1>4. OneOfEach'
  <2>1. AtMostOne(DOMAIN queue)' /\ \A m \in DOMAIN queue' : queue'[m] = 1
    BY DEF ChainInv, OneOfEach, AtMostOne
  <2>2. AtMostOne(run.parked)'
    BY DEF ChainInv, OneOfEach, AtMostOne
  <2> QED
    BY <1>2, <2>1, <2>2 DEF OneOfEach
<1> QED
  BY <1>1, <1>3, <1>4 DEF ChainInv

LEMMA WorkerShape ==
  ASSUME Shapes
  PROVE  \A pc : Become(pc) => DOMAIN worker' = {"pc", "message", "at", "scored"} /\ worker'.pc = pc
BY DEF Shapes, Become

LEMMA ChainWorkerSteps ==
  ASSUME MaxFaults = 0, ChainInv, WorkerStep \/ Die
  PROVE  ChainInv'
<1>1. Shapes /\ faults = 0 /\ OneOfEach /\ OnePlace
  BY DEF ChainInv
<1> USE DEF WorkersPart
<1>2. ASSUME NEW m \in BagToSet(queue), Receive(m)
      PROVE  ChainInv'
  <2>1. m \in DOMAIN queue /\ queue' = queue (-) SetToBag({m}) /\ UNCHANGED <<run, op, faults>>
    BY <1>2 DEF Receive, BagToSet
  <2>2. DOMAIN queue' = {} /\ DOMAIN queue # {}
    BY <1>1, <2>1, OneTaken
  <2>3. DOMAIN worker' = {"pc", "message", "at", "scored"}
    BY <1>2 DEF Receive, Idle
  <2> QED
    BY <2>1, <2>2, <2>3, ChainOfWorker
<1>3. ~Die
  BY <1>1 DEF Die
<1>4. ASSUME NEW pc, Become(pc), UNCHANGED <<queue, op, faults>>, DOMAIN run' = DOMAIN run, run'.parked = run.parked,
             pc \in {"save", "quota", "start", "register", "walk", "hand_over"} => WorkersPart
      PROVE  ChainInv'
  BY <1>1, <1>4, WorkerShape, ChainOfWorker
<1>5. ASSUME NEW envelope, PauseBacktestRun({envelope}), Become("ack"), WorkersPart, UNCHANGED <<queue, op, faults>>
      PROVE  ChainInv'
  <2>1. DOMAIN run' = DOMAIN run /\ run'.parked \in {run.parked, {envelope}}
    BY <1>1, <1>5, ChainRow
  <2>2. AtMostOne(run'.parked)
    BY <1>1, <2>1 DEF OneOfEach, AtMostOne
  <2>3. DOMAIN worker' = {"pc", "message", "at", "scored"} /\ worker'.pc = "ack"
    BY <1>1, <1>5, WorkerShape
  <2> QED
    BY <1>5, <2>1, <2>2, <2>3, ChainOfWorker
<1>6. CASE SaveCursor
  BY <1>5, <1>6 DEF SaveCursor
<1>7. CASE CheckQuota
  BY <1>4, <1>5, <1>7 DEF CheckQuota
<1>8. CASE StartJob \/ YieldPart \/ WalkFails \/ ReportComplete \/ ReportFailed \/ StartSweep
  <2>1. UNCHANGED <<run, queue, op, faults>>
    BY <1>8 DEF StartJob, YieldPart, WalkFails, ReportComplete, ReportFailed, StartSweep
  <2>2. PICK pc \in {"register", "fail", "hand_over", "ack", "clean_failed", "sweeping"} :
          Become(pc) /\ (pc \in {"register", "hand_over"} => worker.pc \in {"start", "walk"})
    BY <1>8 DEF StartJob, YieldPart, WalkFails, ReportComplete, ReportFailed, StartSweep
  <2> QED
    BY <1>4, <2>1, <2>2
<1>9. CASE RegisterRun
  <2>1. InsertBacktestRun /\ UNCHANGED <<queue, op, faults>> /\ worker.pc = "register"
    BY <1>9 DEF RegisterRun
  <2>2. PICK pc \in {"walk", "fail"} : Become(pc)
    BY <1>9 DEF RegisterRun
  <2> QED
    BY <1>1, <1>4, <2>1, <2>2, ChainRow
<1>10. CASE WalkUnit
  <2>1. worker' = [worker EXCEPT !.at = @ + 1] /\ UNCHANGED <<run, queue, op, faults>>
    BY <1>10 DEF WalkUnit
  <2>2. DOMAIN worker' = {"pc", "message", "at", "scored"} /\ worker'.pc = worker.pc
    BY <1>1, <2>1 DEF Shapes
  <2> QED
    BY <2>1, <2>2, ChainOfWorker
<1>11. CASE HandOver
  <2>1. worker.pc = "hand_over" /\ UNCHANGED <<op, faults>>
    BY <1>11 DEF HandOver
  <2>2. CASE PauseBacktestRun({NextPart}) /\ Become("ack") /\ UNCHANGED queue
    BY <1>5, <2>1, <2>2
  <2>3. CASE Enqueue(NextPart) /\ Become("ack") /\ UNCHANGED run
    <3>1. DOMAIN queue = {}
      BY <1>1, <2>1 DEF OnePlace
    <3>2. AtMostOne(DOMAIN queue') /\ \A m \in DOMAIN queue' : queue'[m] = 1
      BY <2>3, <3>1, OneSent
    <3>3. DOMAIN worker' = {"pc", "message", "at", "scored"} /\ worker'.pc = "ack"
      BY <1>1, <2>3, WorkerShape
    <3> QED
      BY <2>1, <2>3, <3>2, <3>3, ChainOfWorker
  <2> QED
    BY <1>11, <2>2, <2>3 DEF HandOver, AfterPark
<1>12. CASE Score
  <2>1. worker' = [worker EXCEPT !.pc = "complete", !.scored = rows] /\ UNCHANGED <<run, queue, op, faults>>
    BY <1>12 DEF Score
  <2>2. DOMAIN worker' = {"pc", "message", "at", "scored"} /\ worker'.pc = "complete"
    BY <1>1, <2>1 DEF Shapes
  <2> QED
    BY <2>1, <2>2, ChainOfWorker
<1>13. CASE CompleteRun
  <2>1. UNCHANGED <<queue, op, faults>>
    BY <1>13 DEF CompleteRun
  <2>2. CompleteBacktestRun(worker.scored) => DOMAIN run' = DOMAIN run /\ run'.parked = run.parked
    BY <1>1, ChainRow
  <2> QED
    BY <1>4, <1>13, <2>1, <2>2 DEF CompleteRun
<1>14. CASE FailRun
  BY <1>1, <1>4, <1>14, ChainRow DEF FailRun
<1>15. CASE Sweep
  <2>1. UNCHANGED <<run, queue, op, faults>>
    BY <1>15 DEF Sweep
  <2>2. CASE UNCHANGED worker
    BY <1>1, <2>1, <2>2, ChainOfWorker DEF Shapes
  <2>3. CASE Become("ack")
    BY <1>4, <2>1, <2>3
  <2> QED
    BY <1>15, <2>2, <2>3 DEF Sweep
<1>16. CASE Ack
  <2>1. worker' = Idle /\ UNCHANGED <<run, queue, op, faults>>
    BY <1>16 DEF Ack
  <2>2. DOMAIN worker' = {"pc", "message", "at", "scored"} /\ worker'.pc = "idle"
    BY <2>1 DEF Idle
  <2> QED
    BY <2>1, <2>2, ChainOfWorker
<1> QED
  BY <1>2, <1>3, <1>6, <1>7, <1>8, <1>9, <1>10, <1>11, <1>12, <1>13, <1>14, <1>15, <1>16 DEF WorkerStep

\* A step of a route: it keeps its envelope, lets it go, sends it, parks it again, or claims the parked one.
HoldingPcs == {"register", "send", "repark"}
LEMMA ChainOfRoute ==
  ASSUME ChainInv, NEW o \in Operators, UNCHANGED <<worker, faults>>, DOMAIN run' = DOMAIN run,
         DOMAIN op' = Operators, DOMAIN op'[o] = {"pc", "envelope", "registered"},
         \A p \in Operators \ {o} : op'[p] = op[p], AtMostOne(op'[o].envelope),
         \/ /\ queue' = queue /\ run'.parked \in {run.parked, {}}
            /\ op'[o].pc \in HoldingPcs => op[o].pc \in HoldingPcs
         \/ queue' = queue /\ op[o].pc \in HoldingPcs /\ op'[o].pc \notin HoldingPcs /\ AtMostOne(run'.parked)
         \/ /\ run'.parked = run.parked /\ op[o].pc \in HoldingPcs /\ op'[o].pc \notin HoldingPcs
            /\ AtMostOne(DOMAIN queue') /\ \A m \in DOMAIN queue' : queue'[m] = 1
         \/ queue' = queue /\ run.parked # {} /\ run'.parked = {}
  PROVE  ChainInv'
<1>1. Shapes' /\ faults' = 0
  BY DEF ChainInv, Shapes
<1>2. (WorkersPart' <=> WorkersPart) /\ OnePlace /\ OneOfEach
  BY DEF WorkersPart, ChainInv
<1>3. \A p \in Operators : AtMostOne(op[p].envelope)'
  <2>1. \A p \in Operators \ {o} : AtMostOne(op[p].envelope)'
    BY <1>2 DEF OneOfEach, AtMostOne
  <2> QED
    BY <2>1 DEF AtMostOne
<1>4. CASE queue' = queue /\ run'.parked \in {run.parked, {}} /\ (op'[o].pc \in HoldingPcs => op[o].pc \in HoldingPcs)
  <2>1. Holding' \subseteq Holding
    BY <1>4 DEF Holding, HoldingPcs
  <2>2. OnePlace'
    BY <1>2, <1>4, <2>1 DEF OnePlace
  <2>3. OneOfEach'
    BY <1>2, <1>3, <1>4, <2>1 DEF OneOfEach, AtMostOne
  <2> QED
    BY <1>1, <2>2, <2>3 DEF ChainInv
<1>5. CASE op[o].pc \in HoldingPcs /\ op'[o].pc \notin HoldingPcs
  <2>1. o \in Holding /\ Holding' = {}
    BY <1>2, <1>5 DEF Holding, HoldingPcs, OneOfEach, AtMostOne
  <2>2. DOMAIN queue = {} /\ run.parked = {} /\ ~WorkersPart
    BY <1>2, <2>1 DEF OnePlace
  <2>3. \/ queue' = queue /\ AtMostOne(run'.parked)
        \/ run'.parked = run.parked /\ AtMostOne(DOMAIN queue') /\ \A m \in DOMAIN queue' : queue'[m] = 1
    BY <2>2 DEF AtMostOne
  <2>4. OnePlace'
    BY <1>2, <2>1, <2>2, <2>3 DEF OnePlace
  <2>5. OneOfEach'
    BY <1>2, <1>3, <2>1, <2>2, <2>3 DEF OneOfEach, AtMostOne
  <2> QED
    BY <1>1, <2>4, <2>5 DEF ChainInv
<1>6. CASE queue' = queue /\ run.parked # {} /\ run'.parked = {}
  <2>1. DOMAIN queue = {} /\ Holding = {} /\ ~WorkersPart
    BY <1>2, <1>6 DEF OnePlace
  <2>2. Holding' \subseteq {o}
    BY <2>1 DEF Holding
  <2>3. OnePlace'
    BY <1>2, <1>6, <2>1, <2>2 DEF OnePlace
  <2>4. OneOfEach'
    BY <1>3, <1>6, <2>1, <2>2 DEF OneOfEach, AtMostOne
  <2> QED
    BY <1>1, <2>3, <2>4 DEF ChainInv
<1> QED
  BY <1>4, <1>5, <1>6

LEMMA ChainRouteSteps ==
  ASSUME ChainInv, NEW o \in Operators, RouteStep(o) \/ Request(o)
  PROVE  ChainInv'
<1>1. /\ Shapes /\ OneOfEach /\ OnePlace /\ DOMAIN op = Operators
      /\ DOMAIN op[o] = {"pc", "envelope", "registered"} /\ AtMostOne(op[o].envelope)
  BY DEF ChainInv, Shapes, OneOfEach
<1>2. ASSUME NEW pc, Proceed(o, pc)
      PROVE  /\ DOMAIN op' = Operators /\ DOMAIN op'[o] = {"pc", "envelope", "registered"}
             /\ \A p \in Operators \ {o} : op'[p] = op[p]
             /\ op'[o].envelope = op[o].envelope /\ AtMostOne(op'[o].envelope) /\ op'[o].pc = pc
  <2>1. op' = [op EXCEPT ![o] = [op[o] EXCEPT !.pc = pc]]
    BY <1>2 DEF Proceed
  <2> QED
    BY <1>1, <2>1
<1>3. ASSUME Return(o)
      PROVE  /\ DOMAIN op' = Operators /\ DOMAIN op'[o] = {"pc", "envelope", "registered"}
             /\ \A p \in Operators \ {o} : op'[p] = op[p]
             /\ AtMostOne(op'[o].envelope) /\ op'[o].pc = "idle"
  BY <1>1, <1>3 DEF Return, IdleOperator, AtMostOne
<1>4. ASSUME NEW pc, Proceed(o, pc) \/ Return(o), pc \in HoldingPcs => op[o].pc \in HoldingPcs,
             UNCHANGED <<queue, worker, faults>>, DOMAIN run' = DOMAIN run, run'.parked \in {run.parked, {}}
      PROVE  ChainInv'
  <2>1. CASE Proceed(o, pc)
    BY <1>2, <1>4, <2>1, ChainOfRoute
  <2>2. CASE Return(o)
    BY <1>3, <1>4, <2>2, ChainOfRoute DEF HoldingPcs
  <2> QED
    BY <1>4, <2>1, <2>2
<1>5. CASE Register(o)
  <2>1. op[o].pc = "register" /\ UNCHANGED <<queue, worker, faults>>
    BY <1>5 DEF Register, At
  <2>2. CASE InsertBacktestRun /\ op' = [op EXCEPT ![o].pc = "send", ![o].registered = TRUE]
    <3>1. DOMAIN run' = DOMAIN run /\ run'.parked = run.parked
      BY <1>1, <2>2, ChainRow
    <3>2. /\ DOMAIN op' = Operators /\ DOMAIN op'[o] = {"pc", "envelope", "registered"}
          /\ \A p \in Operators \ {o} : op'[p] = op[p]
          /\ op'[o].envelope = op[o].envelope /\ op'[o].pc = "send"
      BY <1>1, <2>2
    <3> QED
      BY <1>1, <2>1, <3>1, <3>2, ChainOfRoute DEF HoldingPcs
  <2>3. CASE Proceed(o, "send") /\ UNCHANGED run
    BY <1>4, <2>1, <2>3 DEF HoldingPcs
  <2> QED
    BY <1>5, <2>2, <2>3 DEF Register
<1>6. CASE Send(o)
  <2>1. op[o].pc = "send" /\ UNCHANGED <<run, worker, faults>>
    BY <1>6 DEF Send, At
  <2>2. CASE Enqueue(The(op[o].envelope)) /\ Return(o)
    <3>1. DOMAIN queue = {}
      BY <1>1, <2>1 DEF OnePlace, Holding
    <3>2. AtMostOne(DOMAIN queue') /\ \A m \in DOMAIN queue' : queue'[m] = 1
      BY <2>2, <3>1, OneSent
    <3> QED
      BY <1>3, <2>1, <2>2, <3>2, ChainOfRoute DEF HoldingPcs
  <2>3. CASE UNCHANGED queue /\ (Return(o) \/ \E pc \in {"repark", "unregister"} : Proceed(o, pc))
    BY <1>4, <2>1, <2>3 DEF HoldingPcs
  <2> QED
    BY <1>6, <2>2, <2>3 DEF Send
<1>7. CASE Unregister(o)
  BY <1>1, <1>4, <1>7, ChainRow DEF Unregister, HoldingPcs
<1>8. CASE Repark(o)
  <2>1. op[o].pc = "repark" /\ Return(o) /\ UNCHANGED <<queue, worker, faults>>
    BY <1>8 DEF Repark, At
  <2>2. DOMAIN run' = DOMAIN run /\ run'.parked \in {run.parked, op[o].envelope}
    BY <1>1, <1>8, ChainRow DEF Repark
  <2>3. AtMostOne(run'.parked)
    BY <1>1, <2>2 DEF OneOfEach
  <2> QED
    BY <1>3, <2>1, <2>2, <2>3, ChainOfRoute DEF HoldingPcs
<1>9. CASE PauseRoute(o)
  <2>1. PauseBacktestRun({}) /\ UNCHANGED <<queue, worker, op, faults>>
    BY <1>9 DEF PauseRoute
  <2>2. DOMAIN run' = DOMAIN run /\ run'.parked = run.parked
    BY <1>1, <2>1, ChainRow
  <2> QED
    BY <1>1, <2>1, <2>2, ChainOfRoute
<1>10. CASE ReadParked(o)
  <2>1. /\ op' = [op EXCEPT ![o].pc = "claim", ![o].envelope = run.parked]
        /\ UNCHANGED <<run, queue, worker, faults>>
    BY <1>10 DEF ReadParked
  <2>2. /\ DOMAIN op' = Operators /\ DOMAIN op'[o] = {"pc", "envelope", "registered"}
        /\ \A p \in Operators \ {o} : op'[p] = op[p]
        /\ op'[o].envelope = run.parked /\ op'[o].pc = "claim"
    BY <1>1, <2>1
  <2>3. AtMostOne(op'[o].envelope)
    BY <1>1, <2>2 DEF OneOfEach
  <2> QED
    BY <2>1, <2>2, <2>3, ChainOfRoute DEF HoldingPcs
<1>11. CASE Claim(o)
  <2>1. UNCHANGED <<queue, worker, faults>>
    BY <1>11 DEF Claim
  <2>2. CASE MayClaim /\ ClaimForResume /\ Proceed(o, "send")
    <3>1. DOMAIN run' = DOMAIN run /\ run'.parked = {} /\ run.parked # {}
      BY <1>1, <2>2, ChainRow DEF MayClaim
    <3> QED
      BY <1>2, <2>1, <2>2, <3>1, ChainOfRoute
  <2>3. CASE Return(o) /\ UNCHANGED run
    BY <1>4, <2>1, <2>3 DEF HoldingPcs
  <2> QED
    BY <1>11, <2>2, <2>3 DEF Claim
<1>12. CASE CancelRoute(o)
  <2>1. CancelBacktestRun /\ Proceed(o, "cancel_job") /\ UNCHANGED <<queue, worker, faults>>
    BY <1>12 DEF CancelRoute
  <2> QED
    BY <1>1, <1>4, <2>1, ChainRow DEF HoldingPcs
<1>13. CASE CancelJob(o) \/ StartCancelSweep(o) \/ CleanupRoute(o) \/ PurgeRoute(o)
  <2>1. UNCHANGED <<run, queue, worker, faults>>
    BY <1>13 DEF CancelJob, StartCancelSweep, CleanupRoute, PurgeRoute
  <2>2. PICK pc \in {"clean_cancelled", "sweeping", "purging"} : Proceed(o, pc) \/ Return(o)
    BY <1>13 DEF CancelJob, StartCancelSweep, CleanupRoute, PurgeRoute
  <2> QED
    BY <1>4, <2>1, <2>2 DEF HoldingPcs
<1>14. CASE OperatorSweep(o)
  <2>1. UNCHANGED <<run, queue, worker, faults>>
    BY <1>14 DEF OperatorSweep
  <2>2. UNCHANGED op \/ Proceed(o, "delete_row") \/ Return(o)
    BY <1>14 DEF OperatorSweep
  <2>3. CASE UNCHANGED op
    BY <1>1, <2>1, <2>3, ChainOfRoute
  <2> QED
    BY <1>4, <2>1, <2>2, <2>3 DEF HoldingPcs
<1>15. CASE DeleteRow(o)
  BY <1>1, <1>4, <1>15, ChainRow DEF DeleteRow, HoldingPcs
<1> QED
  BY <1>5, <1>6, <1>7, <1>8, <1>9, <1>10, <1>11, <1>12, <1>13, <1>14, <1>15 DEF RouteStep, Request

LEMMA ChainIsSingle ==
  ASSUME ChainInv
  PROVE  SingleChain
<1> DEFINE Queued == UNION {{<<"queued", m, i>> : i \in 1 .. queue[m]} : m \in BagToSet(queue)}
           Parked == {<<"parked", e>> : e \in run.parked}
           Claimed == {<<"sending", o>> : o \in Sending}
           Worked == IF WorkersPart THEN {<<"part">>} ELSE {}
<1>1. OnePlace /\ OneOfEach /\ Sending \subseteq Holding
  BY DEF ChainInv, Sending, Holding
<1>2. AtMostOne(Queued) /\ (Queued # {} => DOMAIN queue # {})
  <2>1. \A m \in DOMAIN queue : 1 .. queue[m] = {1}
    BY <1>1 DEF OneOfEach
  <2> QED
    BY <1>1, <2>1 DEF OneOfEach, AtMostOne, BagToSet
<1>3. AtMostOne(Parked) /\ (Parked # {} => run.parked # {})
  BY <1>1 DEF OneOfEach, AtMostOne
<1>4. AtMostOne(Claimed) /\ (Claimed # {} => Holding # {})
  BY <1>1 DEF OneOfEach, AtMostOne
<1>5. AtMostOne(Worked) /\ (Worked # {} => WorkersPart)
  BY DEF AtMostOne
<1>6. Continuations = Queued \cup Parked \cup Claimed \cup Worked
  BY DEF Continuations
<1> HIDE DEF Queued, Parked, Claimed, Worked
<1> QED
  BY <1>1, <1>2, <1>3, <1>4, <1>5, <1>6 DEF OnePlace, AtMostOne, SingleChain

\* A run is one chain of parts while the worker loses none, whatever is paused, resumed, cancelled or purged meanwhile
\* (the hand-over is the part's last step, and the claim of a resume is a compare-and-swap).
THEOREM SingleChainHolds ==
  ASSUME MaxFaults = 0
  PROVE  Spec => []SingleChain
<1>1. Init => ChainInv
  <2> SUFFICES ASSUME Init PROVE ChainInv
    OBVIOUS
  <2>1. /\ DOMAIN run = {"status", "parked", "scored"} /\ run.parked = {} /\ DOMAIN queue = {} /\ faults = 0
        /\ DOMAIN worker = {"pc", "message", "at", "scored"} /\ worker.pc = "idle"
    BY DEF Init, Idle, EmptyBag, SetToBag
  <2>2. PICK o \in Operators :
          op = [p \in Operators |-> IF p = o THEN [pc |-> "register", envelope |-> {FirstPart}, registered |-> FALSE]
                                    ELSE IdleOperator]
    BY DEF Init
  <2>3. /\ DOMAIN op = Operators /\ op[o].envelope = {FirstPart}
        /\ \A p \in Operators : DOMAIN op[p] = {"pc", "envelope", "registered"}
        /\ \A p \in Operators \ {o} : op[p].pc = "idle" /\ op[p].envelope = {}
    BY <2>2 DEF IdleOperator
  <2>4. Holding \subseteq {o}
    BY <2>3 DEF Holding
  <2>5. OneOfEach
    <3>1. \A p \in Operators : AtMostOne(op[p].envelope)
      BY <2>3 DEF AtMostOne
    <3> QED
      BY <2>1, <2>4, <3>1 DEF OneOfEach, AtMostOne
  <2> QED
    BY <2>1, <2>3, <2>5 DEF ChainInv, Shapes, OnePlace, WorkersPart
<1>2. ChainInv /\ [Next]_vars => ChainInv'
  <2> SUFFICES ASSUME ChainInv, [Next]_vars PROVE ChainInv'
    OBVIOUS
  <2>1. CASE UNCHANGED vars
    BY <2>1 DEF vars, ChainInv, Shapes, OnePlace, OneOfEach, AtMostOne, Holding, WorkersPart
  <2> QED
    BY <2>1, ChainWorkerSteps, ChainRouteSteps DEF Next
<1> QED
  BY <1>1, <1>2, ChainIsSingle, PTL DEF Spec

-----------------------------------------------------------------------------
(* A running run is not forgotten.                                          *)

\* No delivery is the last one: every fault so far has used up at most one.
TriesInv ==
  /\ Shapes /\ faults \in Nat
  /\ worker.pc # "idle" => worker.message # {}
  /\ \A m \in DOMAIN queue \cup worker.message : DOMAIN m = {"envelope", "tries"} /\ m.tries \in 1 .. faults + 1
ForgetInv == TriesInv /\ NeverForgotten

\* What the statements do to a run that is or becomes running.
LEMMA RunningRow ==
  ASSUME Shapes
  PROVE  /\ FailBacktestRun => run'.status # "running"
         /\ \A scored : CompleteBacktestRun(scored) => run'.status # "running"
         /\ CancelBacktestRun => run'.status # "running"
         /\ \A envelope : PauseBacktestRun(envelope) => run'.status # "running"
         /\ DeleteBacktestRun => (run'.status = "running" => run.status = "running")
<1> USE DEF Shapes
<1>1. FailBacktestRun => run'.status # "running"
  BY DEF FailBacktestRun, Registered
<1>2. \A scored : CompleteBacktestRun(scored) => run'.status # "running"
  BY DEF CompleteBacktestRun, Registered
<1>3. CancelBacktestRun => run'.status # "running"
  BY DEF CancelBacktestRun
<1>4. \A envelope : PauseBacktestRun(envelope) => run'.status # "running"
  BY DEF PauseBacktestRun, Live
<1>5. DeleteBacktestRun => (run'.status = "running" => run.status = "running")
  BY DEF DeleteBacktestRun
<1> QED
  BY <1>1, <1>2, <1>3, <1>4, <1>5

\* A part in the worker's hands that sends, parks or ends.
PartPcs == {"save", "quota", "start", "register", "walk", "hand_over", "complete", "fail"}

LEMMA NotForgotten ==
  NeverForgotten <=> (run.status = "running" => DOMAIN queue # {} \/ Sending # {} \/ worker.pc \in PartPcs)
  BY DEF NeverForgotten, WorkersPart, BagToSet, PartPcs

LEMMA NotForgottenNext ==
  NeverForgotten' <=> (run'.status = "running" => DOMAIN queue' # {} \/ Sending' # {} \/ worker'.pc \in PartPcs)
  BY DEF NeverForgotten, WorkersPart, BagToSet, PartPcs

\* A step of the worker on the message in its hands: a part that is let go has ended the run,
\* parked it or sent the next part.
LEMMA TriesOfWorker ==
  ASSUME ForgetInv, UNCHANGED <<op, faults, queue>>, worker.pc # "idle", NEW pc,
         DOMAIN run' = DOMAIN run, DOMAIN worker' = DOMAIN worker,
         worker'.pc = pc, worker'.message = worker.message,
         run' = run \/ run'.status # "running" \/ pc \in PartPcs,
         worker.pc \in PartPcs => pc \in PartPcs \/ run'.status # "running"
  PROVE  ForgetInv'
<1>1. TriesInv'
  BY DEF ForgetInv, TriesInv, Shapes
<1>2. Sending' = Sending
  BY DEF Sending
<1>3. NeverForgotten'
  BY <1>2, NotForgotten, NotForgottenNext DEF ForgetInv
<1> QED
  BY <1>1, <1>3 DEF ForgetInv

LEMMA MessageBecomes ==
  ASSUME Shapes
  PROVE  \A pc : Become(pc) => DOMAIN worker' = DOMAIN worker /\ worker'.pc = pc /\ worker'.message = worker.message
  BY DEF Shapes, Become

LEMMA ForgetWorkerSteps ==
  ASSUME ~Failures, MaxFaults < MaxDeliveries, ForgetInv, WorkerStep \/ Die
  PROVE  ForgetInv'
<1>1. TriesInv /\ NeverForgotten /\ Shapes /\ faults \in Nat
  BY DEF ForgetInv, TriesInv
<1>2. ASSUME NEW m \in BagToSet(queue), Receive(m)
      PROVE  ForgetInv'
  <2>1. /\ worker.pc = "idle" /\ m \in DOMAIN queue /\ queue' = queue (-) SetToBag({m}) /\ UNCHANGED <<run, op, faults>>
        /\ worker' = [Idle EXCEPT !.pc = AfterReceive(m.envelope), !.message = {m}, !.at = m.envelope.at]
    BY <1>2 DEF Receive, BagToSet
  <2>2. DOMAIN queue' \subseteq DOMAIN queue
    BY <2>1, Taken
  <2>3. /\ DOMAIN worker' = {"pc", "message", "at", "scored"}
        /\ worker'.pc = AfterReceive(m.envelope) /\ worker'.message = {m}
    BY <2>1 DEF Idle
  <2>4. TriesInv'
    BY <1>1, <2>1, <2>2, <2>3 DEF TriesInv, Shapes
  <2>5. run.status = "running" => AfterReceive(m.envelope) \in {"quota", "start"}
    BY DEF AfterReceive, Terminal, Registered
  <2>6. NeverForgotten'
    BY <2>1, <2>3, <2>5, NotForgottenNext DEF PartPcs
  <2> QED
    BY <2>4, <2>6 DEF ForgetInv
<1>3. CASE SaveCursor \/ StartJob \/ YieldPart
  <2>1. /\ UNCHANGED <<op, faults, queue>> /\ worker.pc \in PartPcs
        /\ \/ run' = run /\ \E pc \in PartPcs : Become(pc)
           \/ (\E e : PauseBacktestRun(e)) /\ Become("ack")
    BY <1>3 DEF SaveCursor, StartJob, YieldPart, PartPcs
  <2>2. DOMAIN run' = DOMAIN run
    BY <1>1, <2>1, ChainRow
  <2> QED
    BY <1>1, <2>1, <2>2, MessageBecomes, RunningRow, TriesOfWorker DEF PartPcs
<1>4. CASE CheckQuota
  <2>1. /\ UNCHANGED <<op, faults, queue>> /\ worker.pc \in PartPcs
        /\ \/ run' = run /\ Become("walk")
           \/ (\E e : PauseBacktestRun(e)) /\ Become("ack")
    BY <1>4 DEF CheckQuota, PartPcs
  <2>2. DOMAIN run' = DOMAIN run
    BY <1>1, <2>1, ChainRow
  <2> QED
    BY <1>1, <2>1, <2>2, MessageBecomes, RunningRow, TriesOfWorker DEF PartPcs
<1>5. CASE RegisterRun
  <2>1. UNCHANGED <<op, faults, queue>> /\ worker.pc \in PartPcs /\ InsertBacktestRun /\ Become("walk")
    BY <1>5 DEF RegisterRun, PartPcs
  <2>2. DOMAIN run' = DOMAIN run
    BY <1>1, <2>1, ChainRow
  <2> QED
    BY <1>1, <2>1, <2>2, MessageBecomes, TriesOfWorker DEF PartPcs
<1>6. CASE WalkUnit \/ Score
  <2>1. /\ UNCHANGED <<op, faults, queue, run>> /\ worker.pc \in PartPcs /\ worker'.pc \in PartPcs
        /\ DOMAIN worker' = DOMAIN worker /\ worker'.message = worker.message
    BY <1>1, <1>6 DEF WalkUnit, Score, Shapes, PartPcs
  <2> QED
    BY <2>1, TriesOfWorker DEF PartPcs
<1>7. CASE HandOver
  <2>1. CASE \E e : PauseBacktestRun(e) /\ Become(AfterPark) /\ UNCHANGED queue
    <3>1. /\ UNCHANGED <<op, faults, queue>> /\ worker.pc \in PartPcs /\ Become("ack")
          /\ \E e : PauseBacktestRun(e)
      BY <1>7, <2>1 DEF HandOver, AfterPark, PartPcs
    <3>2. DOMAIN run' = DOMAIN run
      BY <1>1, <3>1, ChainRow
    <3> QED
      BY <1>1, <3>1, <3>2, MessageBecomes, RunningRow, TriesOfWorker DEF PartPcs
  <2>2. CASE Enqueue(NextPart) /\ Become("ack") /\ UNCHANGED run
    <3> DEFINE next == [envelope |-> NextPart, tries |-> 1]
    <3>1. DOMAIN queue' = DOMAIN queue \cup {next} /\ UNCHANGED <<run, op, faults>> /\ worker.pc # "idle"
      BY <1>7, <2>2, Sent DEF HandOver
    <3>2. DOMAIN next = {"envelope", "tries"} /\ next.tries = 1
      OBVIOUS
    <3> HIDE DEF next
    <3>3. TriesInv'
      BY <1>1, <2>2, <3>1, <3>2, MessageBecomes DEF TriesInv, Shapes
    <3>4. NeverForgotten'
      BY <3>1, NotForgottenNext
    <3> QED
      BY <3>3, <3>4 DEF ForgetInv
  <2> QED
    BY <1>7, <2>1, <2>2 DEF HandOver
<1>8. CASE CompleteRun \/ FailRun
  <2>1. /\ UNCHANGED <<op, faults, queue>> /\ worker.pc \in PartPcs
        /\ \E pc : Become(pc)
        /\ FailBacktestRun \/ \E scored : CompleteBacktestRun(scored)
    BY <1>8 DEF CompleteRun, FailRun, PartPcs
  <2>2. DOMAIN run' = DOMAIN run
    BY <1>1, <2>1, ChainRow
  <2> QED
    BY <1>1, <2>1, <2>2, MessageBecomes, RunningRow, TriesOfWorker DEF PartPcs
<1>9. CASE ReportComplete \/ ReportFailed \/ StartSweep \/ Sweep
  <2>1. /\ UNCHANGED <<op, faults, queue, run>> /\ worker.pc \notin PartPcs /\ worker.pc # "idle"
        /\ worker' = worker \/ \E pc : Become(pc)
    BY <1>9 DEF ReportComplete, ReportFailed, StartSweep, Sweep, PartPcs
  <2>2. DOMAIN worker' = DOMAIN worker /\ worker'.message = worker.message
    BY <1>1, <2>1, MessageBecomes
  <2> QED
    BY <2>1, <2>2, TriesOfWorker
<1>10. CASE Ack
  <2>1. UNCHANGED <<op, faults, queue, run>> /\ worker.pc = "ack" /\ worker' = Idle
    BY <1>10 DEF Ack
  <2>2. DOMAIN worker' = {"pc", "message", "at", "scored"} /\ worker'.pc = "idle" /\ worker'.message = {}
    BY <2>1 DEF Idle
  <2>3. TriesInv'
    BY <1>1, <2>1, <2>2 DEF TriesInv, Shapes
  <2>4. Sending' = Sending
    BY <2>1 DEF Sending
  <2>5. NeverForgotten'
    BY <1>1, <2>1, <2>4, NotForgotten, NotForgottenNext DEF PartPcs
  <2> QED
    BY <2>3, <2>5 DEF ForgetInv
<1>11. CASE Die
  <2> DEFINE message == The(worker.message)
             again == [message EXCEPT !.tries = @ + 1]
  <2>1. /\ worker.pc # "idle" /\ faults < MaxFaults /\ worker' = Idle /\ faults' = faults + 1
        /\ queue' = IF message.tries < MaxDeliveries THEN queue (+) SetToBag({again}) ELSE queue
        /\ UNCHANGED <<run, op>>
    BY <1>11 DEF Die
  <2>2. message \in worker.message
    BY <1>1, <2>1, Chosen DEF TriesInv
  <2>3. DOMAIN message = {"envelope", "tries"} /\ message.tries \in 1 .. faults + 1
    BY <1>1, <2>2 DEF TriesInv
  <2>4. MaxFaults \in Nat /\ MaxDeliveries \in Nat
    BY BoundsAssumption
  <2>5. DOMAIN again = {"envelope", "tries"} /\ again.tries = message.tries + 1
    BY <2>3
  <2>6. queue' = queue (+) SetToBag({again})
    BY <1>1, <2>1, <2>3, <2>4
  <2> HIDE DEF again, message
  <2>7. DOMAIN queue' = DOMAIN queue \cup {again}
    BY <2>6 DEF (+), SetToBag
  <2>8. DOMAIN worker' = {"pc", "message", "at", "scored"} /\ worker'.pc = "idle" /\ worker'.message = {}
    BY <2>1 DEF Idle
  <2>9. TriesInv'
    <3>1. Shapes' /\ faults' \in Nat /\ worker'.message = {} /\ worker'.pc = "idle"
      BY <1>1, <2>1, <2>8 DEF Shapes
    <3>2. ASSUME NEW m \in DOMAIN queue PROVE DOMAIN m = {"envelope", "tries"} /\ m.tries \in 1 .. faults' + 1
      <4>1. DOMAIN m = {"envelope", "tries"} /\ m.tries \in 1 .. faults + 1
        BY <1>1 DEF TriesInv
      <4> QED
        BY <1>1, <2>1, <4>1
    <3>3. DOMAIN again = {"envelope", "tries"} /\ again.tries \in 1 .. faults' + 1
      BY <1>1, <2>1, <2>3, <2>5
    <3> QED
      BY <2>7, <3>1, <3>2, <3>3 DEF TriesInv
  <2>10. NeverForgotten'
    BY <2>7, NotForgottenNext
  <2> QED
    BY <2>9, <2>10 DEF ForgetInv
<1>12. ~WalkFails
  BY DEF WalkFails
<1> QED
  BY <1>2, <1>3, <1>4, <1>5, <1>6, <1>7, <1>8, <1>9, <1>10, <1>11, <1>12 DEF WorkerStep

\* A step of a route that leaves the queue and the worker alone.
LEMMA ForgetOfRoute ==
  ASSUME ForgetInv, UNCHANGED <<worker, queue, faults>>, DOMAIN run' = DOMAIN run, NEW o \in Operators,
         DOMAIN op' = Operators, DOMAIN op'[o] = {"pc", "envelope", "registered"},
         \A p \in Operators \ {o} : op'[p] = op[p],
         \/ run'.status # "running"
         \/ op'[o].pc = "send"
         \/ (run'.status = "running" => run.status = "running") /\ op[o].pc \notin {"send", "repark"}
  PROVE  ForgetInv'
<1>1. TriesInv'
  BY DEF ForgetInv, TriesInv, Shapes
<1>2. op'[o].pc = "send" => Sending' # {}
  BY DEF Sending
<1>3. op[o].pc \notin {"send", "repark"} => (Sending # {} => Sending' # {})
  BY DEF Sending
<1>4. NeverForgotten'
  BY <1>2, <1>3, NotForgotten, NotForgottenNext DEF ForgetInv
<1> QED
  BY <1>1, <1>4 DEF ForgetInv

LEMMA OperatorMoves ==
  ASSUME Shapes, NEW o \in Operators
  PROVE  /\ \A pc : Proceed(o, pc) => /\ DOMAIN op' = Operators /\ DOMAIN op'[o] = {"pc", "envelope", "registered"}
                                      /\ op'[o].pc = pc /\ \A p \in Operators \ {o} : op'[p] = op[p]
         /\ Return(o) => /\ DOMAIN op' = Operators /\ DOMAIN op'[o] = {"pc", "envelope", "registered"}
                         /\ \A p \in Operators \ {o} : op'[p] = op[p]
  BY DEF Shapes, Proceed, Return, IdleOperator

LEMMA ForgetRouteSteps ==
  ASSUME ~Failures, ForgetInv, NEW o \in Operators, RouteStep(o) \/ Request(o)
  PROVE  ForgetInv'
<1>1. TriesInv /\ NeverForgotten /\ Shapes
  BY DEF ForgetInv, TriesInv
<1>2. CASE Register(o)
  <2>1. /\ UNCHANGED <<worker, queue, faults>> /\ InsertBacktestRun
        /\ op' = [op EXCEPT ![o].pc = "send", ![o].registered = TRUE]
    BY <1>2 DEF Register
  <2>2. /\ DOMAIN op' = Operators /\ DOMAIN op'[o] = {"pc", "envelope", "registered"} /\ op'[o].pc = "send"
        /\ \A p \in Operators \ {o} : op'[p] = op[p]
    BY <1>1, <2>1 DEF Shapes
  <2>3. DOMAIN run' = DOMAIN run
    BY <1>1, <2>1, ChainRow
  <2> QED
    BY <2>1, <2>2, <2>3, ForgetOfRoute
<1>3. CASE Send(o)
  <2> DEFINE envelope == The(op[o].envelope)
             next == [envelope |-> envelope, tries |-> 1]
  <2>1. Enqueue(envelope) /\ Return(o) /\ UNCHANGED <<run, worker, faults>>
    BY <1>3 DEF Send
  <2>2. DOMAIN queue' = DOMAIN queue \cup {next}
    BY <2>1, Sent
  <2>3. DOMAIN next = {"envelope", "tries"} /\ next.tries = 1
    OBVIOUS
  <2> HIDE DEF next
  <2>4. Shapes'
    BY <1>1, <2>1, OperatorMoves DEF Shapes
  <2>5. TriesInv'
    BY <1>1, <2>1, <2>2, <2>3, <2>4 DEF TriesInv
  <2>6. NeverForgotten'
    BY <2>2, NotForgottenNext
  <2> QED
    BY <2>5, <2>6 DEF ForgetInv
<1>4. CASE Unregister(o) \/ Repark(o)
  <2>1. /\ UNCHANGED <<worker, queue, faults>> /\ Return(o)
        /\ FailBacktestRun \/ \E e : PauseBacktestRun(e)
    BY <1>4 DEF Unregister, Repark
  <2>2. DOMAIN run' = DOMAIN run
    BY <1>1, <2>1, ChainRow
  <2> QED
    BY <1>1, <2>1, <2>2, RunningRow, OperatorMoves, ForgetOfRoute
<1>5. CASE Claim(o)
  <2>1. UNCHANGED <<worker, queue, faults>> /\ op[o].pc = "claim"
    BY <1>5 DEF Claim, At
  <2>2. CASE ClaimForResume /\ Proceed(o, "send")
    <3>1. DOMAIN run' = DOMAIN run
      BY <1>1, <2>2, ChainRow
    <3> QED
      BY <1>1, <2>1, <2>2, <3>1, OperatorMoves, ForgetOfRoute
  <2>3. CASE Return(o) /\ UNCHANGED run
    BY <1>1, <2>1, <2>3, OperatorMoves, ForgetOfRoute
  <2> QED
    BY <1>5, <2>2, <2>3 DEF Claim
<1>6. CASE CancelJob(o) \/ StartCancelSweep(o) \/ OperatorSweep(o) \/ CleanupRoute(o) \/ PurgeRoute(o)
  <2>1. /\ UNCHANGED <<run, worker, queue, faults>> /\ op[o].pc \notin {"send", "repark"}
        /\ (\E pc : Proceed(o, pc)) \/ Return(o) \/ UNCHANGED op
    BY <1>6 DEF CancelJob, StartCancelSweep, OperatorSweep, CleanupRoute, PurgeRoute, At
  <2>2. /\ DOMAIN op' = Operators /\ DOMAIN op'[o] = {"pc", "envelope", "registered"}
        /\ \A p \in Operators \ {o} : op'[p] = op[p]
    BY <1>1, <2>1, OperatorMoves DEF Shapes
  <2> QED
    BY <2>1, <2>2, ForgetOfRoute
<1>7. CASE DeleteRow(o)
  <2>1. /\ UNCHANGED <<worker, queue, faults>> /\ op[o].pc = "delete_row" /\ DeleteBacktestRun /\ Return(o)
    BY <1>7 DEF DeleteRow, At
  <2>2. DOMAIN run' = DOMAIN run
    BY <1>1, <2>1, ChainRow
  <2> QED
    BY <1>1, <2>1, <2>2, RunningRow, OperatorMoves, ForgetOfRoute
<1>8. CASE PauseRoute(o)
  <2>1. UNCHANGED <<worker, queue, faults, op>> /\ PauseBacktestRun({})
    BY <1>8 DEF PauseRoute
  <2>2. DOMAIN run' = DOMAIN run
    BY <1>1, <2>1, ChainRow
  <2> QED
    BY <1>1, <2>1, <2>2, RunningRow, ForgetOfRoute DEF Shapes
<1>9. CASE ReadParked(o)
  <2>1. /\ UNCHANGED <<run, worker, queue, faults>> /\ op[o].pc = "idle"
        /\ op' = [op EXCEPT ![o].pc = "claim", ![o].envelope = run.parked]
    BY <1>9 DEF ReadParked, At
  <2>2. /\ DOMAIN op' = Operators /\ DOMAIN op'[o] = {"pc", "envelope", "registered"}
        /\ \A p \in Operators \ {o} : op'[p] = op[p]
    BY <1>1, <2>1 DEF Shapes
  <2> QED
    BY <2>1, <2>2, ForgetOfRoute
<1>10. CASE CancelRoute(o)
  <2>1. UNCHANGED <<worker, queue, faults>> /\ CancelBacktestRun /\ Proceed(o, "cancel_job")
    BY <1>10 DEF CancelRoute
  <2>2. DOMAIN run' = DOMAIN run
    BY <1>1, <2>1, ChainRow
  <2> QED
    BY <1>1, <2>1, <2>2, RunningRow, OperatorMoves, ForgetOfRoute
<1> QED
  BY <1>2, <1>3, <1>4, <1>5, <1>6, <1>7, <1>8, <1>9, <1>10 DEF RouteStep, Request

\* A run that is registered as running has a message, a part or a resume that will go on with it
\* or end it, on every route and after every death that leaves a delivery (backtest-worker.js and
\* the routes of index.js).
THEOREM NeverForgottenHolds ==
  ASSUME ~Failures, MaxFaults < MaxDeliveries
  PROVE  Spec => []NeverForgotten
<1>1. Init => ForgetInv
  <2> SUFFICES ASSUME Init PROVE ForgetInv
    OBVIOUS
  <2>1. /\ DOMAIN run = {"status", "parked", "scored"} /\ run.status = "absent" /\ DOMAIN queue = {} /\ faults = 0
        /\ DOMAIN worker = {"pc", "message", "at", "scored"} /\ worker.pc = "idle" /\ worker.message = {}
    BY DEF Init, Idle, EmptyBag, SetToBag
  <2>2. PICK o \in Operators :
          op = [p \in Operators |-> IF p = o THEN [pc |-> "register", envelope |-> {FirstPart}, registered |-> FALSE]
                                    ELSE IdleOperator]
    BY DEF Init
  <2>3. DOMAIN op = Operators /\ \A p \in Operators : DOMAIN op[p] = {"pc", "envelope", "registered"}
    BY <2>2 DEF IdleOperator
  <2> QED
    BY <2>1, <2>3 DEF ForgetInv, TriesInv, Shapes, NeverForgotten
<1>2. ForgetInv /\ [Next]_vars => ForgetInv'
  <2> SUFFICES ASSUME ForgetInv, [Next]_vars PROVE ForgetInv'
    OBVIOUS
  <2>1. CASE UNCHANGED vars
    BY <2>1 DEF vars, ForgetInv, TriesInv, Shapes, NeverForgotten, Sending, WorkersPart
  <2> QED
    BY <2>1, ForgetWorkerSteps, ForgetRouteSteps DEF Next
<1>3. ForgetInv => NeverForgotten
  BY DEF ForgetInv
<1> QED
  BY <1>1, <1>2, <1>3, PTL DEF Spec
=============================================================================

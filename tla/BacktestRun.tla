---------------------------- MODULE BacktestRun -----------------------------
(***************************************************************************)
(* One backtest run: its row in the registry (storage/sim_registry.js), its*)
(* chain of parts on the BACKTEST queue (backtest-worker.js, around        *)
(* backtest/runBacktest.js), the operator's routes (index.js) and the      *)
(* deletion of its data (backtest/cleanup.js).  A step is what happens     *)
(* between two awaits.  The worker handles one message at a time; it may   *)
(* die, or throw, at any step, and the message is then delivered again.    *)
(*                                                                         *)
(* The walk is abstracted to Length units, one news item or exit check     *)
(* each: a cursor is the number of units done, and the state rows the run  *)
(* owns are the units that wrote some.  Every part counts toward MaxParts, *)
(* the idle ones too.  A statement that throws has had no effect.          *)
(*                                                                         *)
(* D_Change, just before a definition D, is D with a plausible bug in it;  *)
(* README.md says what these are for.                                      *)
(***************************************************************************)
EXTENDS Integers, Bags

CONSTANTS
  Length,         \* units of the walk
  MaxParts,       \* BACKTEST_MAX_PARTS
  MaxDeliveries,  \* the first delivery and max_retries
  MaxFaults,      \* bound: deaths and throws of the worker
  Operators,      \* concurrent requests to the routes
  Routes,         \* the routes that the operators use
  Quotas,         \* a daily quota may be reached
  Failures,       \* queue sends, progress writes and the walk itself may fail
  CancelMidPart,  \* a run may be cancelled while a part of it executes or is sent
  PurgeQueued     \* a run may be purged while the queue still holds a part of it

ASSUME BoundsAssumption == {Length, MaxParts, MaxDeliveries, MaxFaults} \subseteq Nat
ASSUME RoutesAssumption == Routes \subseteq {"pause", "resume", "cancel", "cleanup", "purge"}
ASSUME FlagsAssumption == {Quotas, Failures, CancelMidPart, PurgeQueued} \subseteq BOOLEAN

Units == 1 .. Length
\* The part to run next and the cursor it starts from; only part 1 has no cursor.
Envelopes == [part : 1 .. MaxParts, at : 0 .. Length]
Messages == [envelope : Envelopes, tries : 1 .. MaxDeliveries]
FirstPart == [part |-> 1, at |-> 0]

VARIABLES
  run,      \* the registry row: status, the parked envelope or {}, the units its result was scored on
  job,      \* the status of the run's job_progress row
  rows,     \* the units whose state rows are stored
  queue,    \* a bag of messages: which delivery comes next, and of what
  worker,   \* the backtest worker: message in hand, units done, units it read to score
  op,       \* the routes in progress: the envelope in hand and whether the row was registered
  faults

vars == <<run, job, rows, queue, worker, op, faults>>

Registered == run.status \notin {"absent", "purged"}
Live == {"running", "paused"}
Terminal == {"complete", "failed", "cancelled"}
Purgeable == {"failed", "cancelled"}

Idle == [pc |-> "idle", message |-> {}, at |-> 0, scored |-> {}]
IdleOperator == [pc |-> "idle", envelope |-> {}, registered |-> FALSE]
The(S) == CHOOSE x \in S : TRUE

Enqueue(envelope) == queue' = queue (+) SetToBag({[envelope |-> envelope, tries |-> 1]})

-----------------------------------------------------------------------------
(* The registry's statements.                                               *)

InsertBacktestRun_Conflicts == ~Registered /\ run' = [run EXCEPT !.status = "running"]
InsertBacktestRun == run' = IF Registered THEN run ELSE [run EXCEPT !.status = "running"]
\* Neither is guarded on the status.
CompleteBacktestRun(scored) ==
  run' = IF Registered THEN [run EXCEPT !.status = "complete", !.scored = scored] ELSE run
FailBacktestRun == run' = IF Registered THEN [run EXCEPT !.status = "failed"] ELSE run

CancelBacktestRun_Unguarded == run' = [run EXCEPT !.status = "cancelled", !.parked = {}]
CancelBacktestRun ==
  /\ run.status \in Live
  /\ run' = [run EXCEPT !.status = "cancelled", !.parked = {}]
\* A cursor that is given wins over a stored one.
PauseBacktestRun(envelope) ==
  run' = IF run.status \in Live
         THEN [run EXCEPT !.status = "paused", !.parked = IF envelope = {} THEN @ ELSE envelope] ELSE run
\* The compare-and-swap of a resume that read its envelope before.
MayClaim == run.status = "paused" /\ run.parked # {}
ClaimForResume == run' = [run EXCEPT !.status = "running", !.parked = {}]
DeleteBacktestRun == run' = IF run.status \in Purgeable THEN [run EXCEPT !.status = "purged"] ELSE run

-----------------------------------------------------------------------------
(* The job row, best effort: a write that fails is only logged.             *)

Report(status) == job' \in {status} \cup (IF Failures THEN {job} ELSE {})
ReportEnd(status) == IF job = "none" THEN UNCHANGED job ELSE Report(status)
\* A progress tick, throttled, of a job that is still in flight.
ReportTick == job' \in {job, IF job = "queued" THEN "running" ELSE job}

\* deleteRun, one chunk of every table; a sweep goes on until a chunk finds nothing.
DeleteChunk(keepJob) ==
  /\ rows # {} \/ (~keepJob /\ job # "none")
  /\ \E chunk \in SUBSET rows : (rows # {} => chunk # {}) /\ rows' = rows \ chunk
  /\ job' = IF keepJob THEN job ELSE "none"
NothingLeft_Unchecked(keepJob) == keepJob \/ job = "none"
NothingLeft(keepJob) == rows = {} /\ (keepJob \/ job = "none")

-----------------------------------------------------------------------------
(* The worker.                                                              *)

Envelope == The(worker.message).envelope
Become(pc) == worker' = [worker EXCEPT !.pc = pc]

\* The status is read once, when the message arrives; the branches follow it.
AfterReceive_NoCleanup(envelope) ==
  IF run.status \in Terminal \/ (envelope.part > 1 /\ ~Registered) THEN "ack"
  ELSE IF run.status = "paused" THEN IF envelope.part > 1 THEN "save" ELSE "ack"
  ELSE IF envelope.part > 1 THEN "quota" ELSE "start"
AfterReceive_SkipsRepeat(envelope) ==
  IF run.status \in Terminal \/ (envelope.part > 1 /\ ~Registered) \/ (envelope.part = 1 /\ rows # {}) THEN "ack"
  ELSE IF run.status = "paused" THEN IF envelope.part > 1 THEN "save" ELSE "ack"
  ELSE IF envelope.part > 1 THEN "quota" ELSE "start"
AfterReceive(envelope) ==
  IF run.status = "cancelled" THEN "clean_cancelled"
  ELSE IF run.status \in Terminal \/ (envelope.part > 1 /\ ~Registered) THEN "ack"
  ELSE IF run.status = "paused" THEN IF envelope.part > 1 THEN "save" ELSE "ack"
  ELSE IF envelope.part > 1 THEN "quota" ELSE "start"
Receive(message) ==
  /\ worker.pc = "idle" /\ BagIn(message, queue)
  /\ queue' = queue (-) SetToBag({message})
  /\ worker' = [Idle EXCEPT !.pc = AfterReceive(message.envelope), !.message = {message},
                            !.at = message.envelope.at]
  /\ UNCHANGED <<run, job, rows, op, faults>>

\* The operator paused the run while this continuation was in flight.
SaveCursor ==
  /\ worker.pc = "save"
  /\ PauseBacktestRun({Envelope})
  /\ Become("ack")
  /\ UNCHANGED <<job, rows, queue, op, faults>>

\* A continuation that would start over a threshold parks instead.
CheckQuota ==
  /\ worker.pc = "quota"
  /\ \/ Quotas /\ PauseBacktestRun({Envelope}) /\ Become("ack")
     \/ UNCHANGED run /\ Become("walk")
  /\ UNCHANGED <<job, rows, queue, op, faults>>

StartJob ==
  /\ worker.pc = "start"
  /\ Report("running")
  /\ Become("register")
  /\ UNCHANGED <<run, rows, queue, op, faults>>

\* A refused seed fails the run before its first model call.
RegisterRun ==
  /\ worker.pc = "register"
  /\ InsertBacktestRun
  /\ Become("walk") \/ (Failures /\ Become("fail"))
  /\ UNCHANGED <<job, rows, queue, op, faults>>

WalkUnit ==
  /\ worker.pc = "walk" /\ worker.at < Length
  /\ rows' = rows \cup {worker.at + 1}
  /\ worker' = [worker EXCEPT !.at = @ + 1]
  /\ ReportTick
  /\ UNCHANGED <<run, queue, op, faults>>

\* The budget is spent or the model is unavailable: at the cap of parts the run fails.
PartsSpent == Envelope.part >= MaxParts
YieldPart ==
  /\ worker.pc = "walk"
  /\ Become(IF PartsSpent THEN "fail" ELSE "hand_over")
  /\ UNCHANGED <<run, job, rows, queue, op, faults>>

WalkFails ==
  /\ Failures /\ worker.pc = "walk"
  /\ Become("fail")
  /\ UNCHANGED <<run, job, rows, queue, op, faults>>

NextPart_SkipsUnit ==
  [part |-> Envelope.part + 1, at |-> IF worker.at < Length THEN worker.at + 1 ELSE Length]
NextPart == [part |-> Envelope.part + 1, at |-> worker.at]
\* Parked over a quota; otherwise the send is the last step before the acknowledgement.
AfterPark_Sends == "hand_over"
AfterPark == "ack"
HandOver ==
  /\ worker.pc = "hand_over"
  /\ \/ Quotas /\ PauseBacktestRun({NextPart}) /\ Become(AfterPark) /\ UNCHANGED queue
     \/ Enqueue(NextPart) /\ Become("ack") /\ UNCHANGED run
  /\ UNCHANGED <<job, rows, op, faults>>

Score ==
  /\ worker.pc = "walk" /\ worker.at = Length
  /\ worker' = [worker EXCEPT !.pc = "complete", !.scored = rows]
  /\ UNCHANGED <<run, job, rows, queue, op, faults>>
CompleteRun ==
  /\ worker.pc = "complete"
  /\ \/ CompleteBacktestRun(worker.scored) /\ Become("report_complete")
     \/ Failures /\ Become("fail") /\ UNCHANGED run
  /\ UNCHANGED <<job, rows, queue, op, faults>>
ReportComplete ==
  /\ worker.pc = "report_complete"
  /\ ReportEnd("complete")
  /\ Become("ack")
  /\ UNCHANGED <<run, rows, queue, op, faults>>

FailRun ==
  /\ worker.pc = "fail"
  /\ FailBacktestRun
  /\ Become("report_failed")
  /\ UNCHANGED <<job, rows, queue, op, faults>>
ReportFailed ==
  /\ worker.pc = "report_failed"
  /\ ReportEnd("failed")
  /\ Become("clean_failed")
  /\ UNCHANGED <<run, rows, queue, op, faults>>

\* cleanupFailedRun and cleanupCancelledRun check the status once, then delete in chunks.
MayClean(status) == run.status = status
StartSweep ==
  /\ \/ worker.pc = "clean_failed" /\ Become(IF MayClean("failed") THEN "sweeping" ELSE "ack")
     \/ worker.pc = "clean_cancelled" /\ Become(IF MayClean("cancelled") THEN "sweeping" ELSE "ack")
  /\ UNCHANGED <<run, job, rows, queue, op, faults>>
Sweep ==
  /\ worker.pc = "sweeping"
  /\ \/ DeleteChunk(TRUE) /\ UNCHANGED worker
     \/ (NothingLeft(TRUE) \/ Failures) /\ Become("ack") /\ UNCHANGED <<rows, job>>
  /\ UNCHANGED <<run, queue, op, faults>>

Ack ==
  /\ worker.pc = "ack"
  /\ worker' = Idle
  /\ UNCHANGED <<run, job, rows, queue, op, faults>>

\* A death, or a throw that reaches the handler: delivered again, or dead-lettered.
Die ==
  /\ worker.pc # "idle" /\ faults < MaxFaults
  /\ LET message == The(worker.message) IN
     queue' = IF message.tries < MaxDeliveries
              THEN queue (+) SetToBag({[message EXCEPT !.tries = @ + 1]}) ELSE queue
  /\ worker' = Idle
  /\ faults' = faults + 1
  /\ UNCHANGED <<run, job, rows, op>>

-----------------------------------------------------------------------------
(* The routes.                                                              *)

At(o, pc) == op[o].pc = pc
Proceed(o, pc) == op' = [op EXCEPT ![o].pc = pc]
Return(o) == op' = [op EXCEPT ![o] = IdleOperator]

\* POST /backtest/run, after its job row: the registry row, then the message.
Register(o) ==
  /\ At(o, "register")
  /\ \/ InsertBacktestRun /\ op' = [op EXCEPT ![o].pc = "send", ![o].registered = TRUE]
     \/ Failures /\ Proceed(o, "send") /\ UNCHANGED run
  /\ UNCHANGED <<job, rows, queue, worker, faults>>

\* A message that cannot be sent: the new run fails, the resumed one is parked again.
Send(o) ==
  /\ At(o, "send")
  /\ \/ Enqueue(The(op[o].envelope)) /\ Return(o)
     \/ /\ Failures
        /\ IF The(op[o].envelope).part > 1 THEN Proceed(o, "repark")
           ELSE IF op[o].registered THEN Proceed(o, "unregister") ELSE Return(o)
        /\ UNCHANGED queue
  /\ UNCHANGED <<run, job, rows, worker, faults>>
Unregister(o) ==
  /\ At(o, "unregister")
  /\ FailBacktestRun \/ (Failures /\ UNCHANGED run)
  /\ Return(o)
  /\ UNCHANGED <<job, rows, queue, worker, faults>>
Repark(o) ==
  /\ At(o, "repark")
  /\ PauseBacktestRun(op[o].envelope) \/ (Failures /\ UNCHANGED run)
  /\ Return(o)
  /\ UNCHANGED <<job, rows, queue, worker, faults>>

PauseRoute(o) ==
  /\ "pause" \in Routes /\ At(o, "idle")
  /\ PauseBacktestRun({})
  /\ UNCHANGED <<job, rows, queue, worker, op, faults>>

\* POST /backtest/:id/resume: reads the envelope, then claims the run.
ReadParked(o) ==
  /\ "resume" \in Routes /\ At(o, "idle") /\ MayClaim
  /\ op' = [op EXCEPT ![o].pc = "claim", ![o].envelope = run.parked]
  /\ UNCHANGED <<run, job, rows, queue, worker, faults>>
Claim(o) ==
  /\ At(o, "claim")
  /\ IF MayClaim THEN ClaimForResume /\ Proceed(o, "send") ELSE Return(o) /\ UNCHANGED run
  /\ UNCHANGED <<job, rows, queue, worker, faults>>

\* POST /backtest/:id/cancel: the row, the job row, then the data.
CancelRoute(o) ==
  /\ "cancel" \in Routes /\ At(o, "idle")
  /\ CancelMidPart \/ (worker.pc = "idle" /\ \A p \in Operators : ~At(p, "send") /\ ~At(p, "unregister"))
  /\ CancelBacktestRun
  /\ Proceed(o, "cancel_job")
  /\ UNCHANGED <<job, rows, queue, worker, faults>>
CancelJob(o) ==
  /\ At(o, "cancel_job")
  /\ ReportEnd("cancelled")
  /\ Proceed(o, "clean_cancelled")
  /\ UNCHANGED <<run, rows, queue, worker, faults>>
StartCancelSweep(o) ==
  /\ At(o, "clean_cancelled")
  /\ IF MayClean("cancelled") THEN Proceed(o, "sweeping") ELSE Return(o)
  /\ UNCHANGED <<run, job, rows, queue, worker, faults>>

\* POST /backtest/cleanup lists the old terminal runs, POST /backtest/purge the failed
\* and cancelled ones; each deletes without looking at the status again.
MayCleanUp_AnyStatus == Registered
MayCleanUp == run.status \in Terminal
CleanupRoute(o) ==
  /\ "cleanup" \in Routes /\ At(o, "idle") /\ MayCleanUp
  /\ Proceed(o, "sweeping")
  /\ UNCHANGED <<run, job, rows, queue, worker, faults>>
PurgeRoute(o) ==
  /\ "purge" \in Routes /\ At(o, "idle") /\ run.status \in Purgeable
  /\ PurgeQueued \/ (queue = EmptyBag /\ worker.pc = "idle")
  /\ Proceed(o, "purging")
  /\ UNCHANGED <<run, job, rows, queue, worker, faults>>

OperatorSweep(o) ==
  /\ At(o, "sweeping") \/ At(o, "purging")
  /\ LET keepJob == At(o, "sweeping") IN
     \/ DeleteChunk(keepJob) /\ UNCHANGED op
     \/ /\ IF NothingLeft(keepJob) /\ ~keepJob THEN Proceed(o, "delete_row")
           ELSE (NothingLeft(keepJob) \/ Failures) /\ Return(o)
        /\ UNCHANGED <<rows, job>>
  /\ UNCHANGED <<run, queue, worker, faults>>
DeleteRow(o) ==
  /\ At(o, "delete_row")
  /\ DeleteBacktestRun
  /\ Return(o)
  /\ UNCHANGED <<job, rows, queue, worker, faults>>

-----------------------------------------------------------------------------
\* POST /backtest/run has taken a fresh id and written its job row.
Init ==
  /\ run = [status |-> "absent", parked |-> {}, scored |-> {}]
  /\ job \in {"queued"} \cup (IF Failures THEN {"none"} ELSE {})
  /\ rows = {} /\ queue = EmptyBag /\ faults = 0
  /\ worker = Idle
  /\ \E o \in Operators :
       op = [p \in Operators |-> IF p = o THEN [pc |-> "register", envelope |-> {FirstPart}, registered |-> FALSE]
                                 ELSE IdleOperator]

WorkerStep ==
  \/ \E message \in BagToSet(queue) : Receive(message)
  \/ SaveCursor \/ CheckQuota \/ StartJob \/ RegisterRun \/ WalkUnit \/ YieldPart \/ WalkFails \/ HandOver
  \/ Score \/ CompleteRun \/ ReportComplete \/ FailRun \/ ReportFailed \/ StartSweep \/ Sweep \/ Ack
\* The steps of a route that has begun.
RouteStep(o) ==
  \/ Register(o) \/ Send(o) \/ Unregister(o) \/ Repark(o) \/ Claim(o)
  \/ CancelJob(o) \/ StartCancelSweep(o) \/ OperatorSweep(o) \/ DeleteRow(o)
Request(o) == PauseRoute(o) \/ ReadParked(o) \/ CancelRoute(o) \/ CleanupRoute(o) \/ PurgeRoute(o)

Next == WorkerStep \/ Die \/ \E o \in Operators : RouteStep(o) \/ Request(o)

Spec == Init /\ [][Next]_vars

\* The queue delivers, an invocation runs on, and a route that began goes on.
FairSpec == Spec /\ WF_vars(WorkerStep) /\ \A o \in Operators : WF_vars(RouteStep(o))

-----------------------------------------------------------------------------
(* Properties.                                                              *)

\* The registry row goes through the life of RunLifecycle: no race of the routes with
\* the worker ends a run twice, or revives one that ended or was purged.
Lifecycle == INSTANCE RunLifecycle WITH status <- run.status
KeepsLifecycle == Lifecycle!Spec

\* A live run that completes is scored on every unit of the walk, however often it was
\* paused, resumed, delivered again or split into parts.
CompleteIsWhole ==
  [][run.status \in Live /\ run'.status = "complete" => run'.scored = Units]_vars

\* What continues the run: a queued message, the part in the worker's hands until it is
\* handed over or ends, the parked envelope, an envelope that a resume has claimed.
WorkersPart == worker.pc \in {"save", "quota", "start", "register", "walk", "hand_over"}
Sending == {o \in Operators : op[o].pc \in {"send", "repark"}}
Continuations ==
  (UNION {{<<"queued", m, i>> : i \in 1 .. queue[m]} : m \in BagToSet(queue)})
  \cup {<<"parked", e>> : e \in run.parked} \cup {<<"sending", o>> : o \in Sending}
  \cup (IF WorkersPart THEN {<<"part">>} ELSE {})
\* A run is one chain of parts, also when pauses and concurrent resumes race with the
\* part that executes: the hand-over is the last step, and only one resume claims.
SingleChain == \A x, y \in Continuations : x = y

\* A run that is registered as running is never forgotten: its next message is queued or about to
\* be, or the worker has a part of it that will send one, park the run or end it, also when a pause,
\* a resume, a cancel or a purge comes between any two steps and the worker dies between others.
NeverForgotten ==
  run.status = "running" =>
    BagToSet(queue) # {} \/ Sending # {} \/ WorkersPart \/ worker.pc \in {"complete", "fail"}

\* State rows are deleted only of a run that has ended.
OnlyEndedRunsLoseRows == [][run.status \in Live => rows \subseteq rows']_vars

\* A purged run leaves no state rows that nothing points at.
NoOrphanRows == run.status = "purged" /\ worker.pc = "idle" /\ queue = EmptyBag => rows = {}

\* A run does not stay running: it ends, or it is paused.
RunEnds == run.status = "running" ~> run.status # "running"

\* The data of a cancelled run is deleted, also what a part still wrote after the cancel.
CancelledIsCleaned == run.status = "cancelled" ~> rows = {} \/ run.status # "cancelled"
=============================================================================

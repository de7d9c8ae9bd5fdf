---------------------------- MODULE AgentBridge ----------------------------
(***************************************************************************)
(* One trial on the host: the adapter's coroutine (HarborHLAgent.run) waits *)
(* for a thread that runs HLAgent.run, which starts the Rust worker and    *)
(* serves its requests over pipes (bench/agent.py, bench/_agent_bridge.py).  *)
(* The coroutine may be cancelled at any time; it then stops the worker    *)
(* while the thread goes on, and a late result of the thread may still     *)
(* correct the counters that the cancellation left in the trial's context.  *)
(***************************************************************************)
EXTENDS ToolResultArchive

CONSTANTS
  MaxRequests,  \* bound on the requests of one worker
  MaxStdout     \* bound on the events in the stdout pipe

ASSUME BoundsAssumption == MaxRequests \in Nat /\ MaxStdout \in Nat

VARIABLES
  host,       \* run, crashed or recovery (the archive was reopened)
  adapter,    \* the step of the coroutine
  thread,     \* the step of the thread
  process,    \* the worker process: none, running, exited (code 0) or failed
  signalled,  \* the process group got SIGTERM or SIGKILL
  worker,     \* the worker's side of the protocol
  stdout,     \* the events in the pipe
  requests,   \* number of requests the worker has sent
  event,      \* the event the thread handles
  run_cancellation,  \* _run_cancellation: none, armed or set
  active_process,    \* _active_process names the process
  turn_count,
  result,     \* what the thread returns: none, complete or error
  context,    \* the trial's context: status and turn_count
  active_run, \* _active_run_id: this run is 1, the adapter's next one is 2
  trajectory, \* trajectory.jsonl: the runs whose events are in it
  published,  \* the late result was offered to the context
  after_cancel, \* history: model calls and tools begun after the cancellation
  disturbed     \* history: the cancellation came before the tool returned

childVars == <<process, signalled, worker, stdout, requests>>
sharedVars == <<run_cancellation, active_process>>
ownVars == <<event, turn_count, result, after_cancel, disturbed>>
adapterVars == <<adapter, context, active_run, published>>
bridgeVars == <<thread, childVars, sharedVars, ownVars, adapterVars, trajectory>>
vars == <<host, bridgeVars, archiveVars>>

Running == process = "running"
IsCancelled == run_cancellation = "set"

Init ==
  /\ host = "run" /\ adapter = "idle" /\ thread = "none"
  /\ process = "none" /\ signalled = FALSE /\ worker = "new"
  /\ stdout = <<>> /\ requests = 0 /\ event = "none"
  /\ run_cancellation = "none" /\ active_process = FALSE
  /\ turn_count = 0 /\ result = "none"
  /\ context = [status |-> "none", turn_count |-> 0]
  /\ active_run = 0 /\ trajectory = {} /\ published = FALSE
  /\ after_cancel = 0 /\ disturbed = {}
  /\ \E usable \in BOOLEAN : NewScope(usable)

-----------------------------------------------------------------------------
(* The worker process, as the bridge meets it: a request waits for its      *)
(* response, and an event that is not one ends the conversation.           *)

Emit(e) ==
  /\ Running /\ worker = "free" /\ Len(stdout) < MaxStdout
  /\ stdout' = Append(stdout, e)
  /\ UNCHANGED <<process, signalled>>

WorkerNote == Emit("note") /\ UNCHANGED <<worker, requests>>

WorkerRequest ==
  /\ requests < MaxRequests
  /\ \E e \in {"llm", "tool", "archive"} : Emit(e)
  /\ worker' = "waiting" /\ requests' = requests + 1

\* fatal stands for unknown, malformed and oversized events, too.
WorkerEnd ==
  /\ \E e \in {"final", "fatal"} : Emit(e)
  /\ worker' = "ended"
  /\ UNCHANGED requests

WorkerExit ==
  /\ Running
  /\ process' \in IF worker = "ended" THEN {"exited", "failed"} ELSE {"failed"}
  /\ UNCHANGED <<signalled, worker, stdout, requests>>

WorkerKilled ==
  /\ Running /\ signalled
  /\ process' = "failed"
  /\ UNCHANGED <<signalled, worker, stdout, requests>>

WorkerStep ==
  /\ host = "run"
  /\ WorkerNote \/ WorkerRequest \/ WorkerEnd \/ WorkerExit \/ WorkerKilled
  /\ UNCHANGED <<host, thread, sharedVars, ownVars, adapterVars, trajectory,
                 archiveVars>>

-----------------------------------------------------------------------------
(* The thread: HLAgent.run and _run_rust_core. *)

Step(from, to) == thread = from /\ thread' = to
Quietly(from, to) == Step(from, to) /\ UNCHANGED <<childVars, sharedVars, ownVars>>

\* SIGTERM or SIGKILL to a process group that has not ended.
Signal ==
  /\ signalled' = (signalled \/ Running)
  /\ UNCHANGED <<process, worker, stdout, requests>>

\* run takes the cancellation that the adapter armed, or arms one, and checks it
\* before the process is started.
Begin ==
  /\ Step("begin", IF IsCancelled THEN "leaving" ELSE "spawning")
  /\ run_cancellation' = IF run_cancellation = "none" THEN "armed" ELSE run_cancellation
  /\ UNCHANGED <<childVars, active_process, ownVars>>

\* Mutant: the process stays when its stderr cannot be drained.
SpawnCareless ==
  /\ \/ Step("spawning", "leaving") /\ UNCHANGED process
     \/ /\ \E next \in {"registering", "leaving"} : Step("spawning", next)
        /\ process' = "running"
  /\ UNCHANGED <<signalled, worker, stdout, requests, sharedVars, ownVars>>

\* Popen, and the start of the thread that drains stderr; either may
\* fail, and the process that is not registered is then stopped.
Spawn ==
  /\ \/ Step("spawning", "leaving") /\ UNCHANGED process
     \/ /\ \E next \in {"registering", "failing"} : Step("spawning", next)
        /\ process' = "running"
  /\ UNCHANGED <<signalled, worker, stdout, requests, sharedVars, ownVars>>

Register ==
  /\ Step("registering", "starting")
  /\ active_process' = TRUE
  /\ UNCHANGED <<childVars, run_cancellation, ownVars>>

\* Mutant: no check behind the registration.
CheckNothing == Quietly("starting", "writing")

\* The check behind the registration.
CheckBeforeStart ==
  Quietly("starting", IF IsCancelled THEN "failing" ELSE "writing")

\* The start event or a response reaches the worker, or the pipe is broken.
Write ==
  /\ IF Running THEN Step("writing", "reading") /\ worker' = "free"
     ELSE Step("writing", "failing") /\ UNCHANGED worker
  /\ event' = "none"
  /\ UNCHANGED <<process, signalled, stdout, requests, sharedVars, turn_count,
                 result, after_cancel, disturbed>>

\* Mutant: an event is handled whether or not the run is cancelled.
ReceiveUnchecked ==
  /\ \/ /\ stdout # <<>> /\ Step("reading", "handling")
        /\ stdout' = Tail(stdout) /\ event' = Head(stdout)
     \/ /\ stdout = <<>> /\ ~ Running /\ Step("reading", "failing")
        /\ UNCHANGED <<stdout, event>>
  /\ UNCHANGED <<process, signalled, worker, requests, sharedVars, turn_count,
                 result, after_cancel, disturbed>>

\* The next event and the check behind it, or the stream ends without final.
Receive ==
  /\ \/ /\ stdout # <<>>
        /\ Step("reading", IF IsCancelled THEN "failing" ELSE "handling")
        /\ stdout' = Tail(stdout) /\ event' = Head(stdout)
     \/ /\ stdout = <<>> /\ ~ Running /\ Step("reading", "failing")
        /\ UNCHANGED <<stdout, event>>
  /\ UNCHANGED <<process, signalled, worker, requests, sharedVars, turn_count,
                 result, after_cancel, disturbed>>

\* A model call, which returns or raises, or a tool of the task's environment.
BeginAction ==
  /\ \/ event = "llm" /\ Step("handling", "writing") /\ turn_count' = turn_count + 1
     \/ event = "tool" /\ Step("handling", "executing") /\ UNCHANGED turn_count
  /\ after_cancel' = after_cancel + IF IsCancelled THEN 1 ELSE 0
  /\ UNCHANGED <<childVars, sharedVars, event, result, disturbed>>

\* The tool returns; its result is archived unless the archive is switched off
\* or it is one of the archive's own tools.
ToolReturns ==
  /\ \E next \in {"archiving", "writing"} : Step("executing", next)
  /\ disturbed' = disturbed \cup IF IsCancelled THEN {captures + 1} ELSE {}
  /\ UNCHANGED <<childVars, sharedVars, event, turn_count, result, after_cancel>>

HandleOther ==
  \/ event = "archive" /\ Quietly("handling", "archiving")
  \/ event = "final" /\ Quietly("handling", "finishing")
  \/ event = "fatal" /\ Quietly("handling", "failing")

\* The worker must leave with code 0 before the deadline.
Finish ==
  /\ IF process = "exited"
     THEN Step("finishing", "cleanup") /\ result' = "complete"
     ELSE Step("finishing", "failing") /\ UNCHANGED result
  /\ UNCHANGED <<childVars, sharedVars, event, turn_count, after_cancel, disturbed>>

\* The except clause, and again the finally clause: _terminate_process.
Terminate ==
  /\ Step("failing", "cleanup") /\ Signal
  /\ UNCHANGED <<sharedVars, ownVars>>

\* The process has ended or outlived the timeouts; the end of the finally clause
\* of _run_rust_core.
Cleanup ==
  /\ Step("cleanup", "leaving")
  /\ active_process' = FALSE
  /\ UNCHANGED <<childVars, run_cancellation, ownVars>>

ThreadLocal ==
  \/ Begin \/ Spawn \/ Register \/ CheckBeforeStart \/ Write \/ Receive
  \/ BeginAction \/ ToolReturns \/ HandleOther \/ Finish \/ Terminate \/ Cleanup

\* The live trajectory sink: the events of a run that is over are dropped.
Sink == trajectory' = IF active_run = 1 THEN trajectory \cup {1} ELSE trajectory

HandleNote ==
  /\ event = "note" /\ Quietly("handling", "reading") /\ Sink
  /\ UNCHANGED archiveVars

\* run returns a result, also for an exception, which it logs.
Leave ==
  /\ Step("leaving", "returned")
  /\ IF result = "complete" THEN UNCHANGED <<result, trajectory>>
     ELSE result' = "error" /\ Sink
  /\ run_cancellation' = "none"
  /\ UNCHANGED <<childVars, active_process, event, turn_count, after_cancel,
                 disturbed, archiveVars>>

\* Mutant: whether a capture is partial does not depend on the cancellation.
ArchiveUnaware ==
  /\ Quietly("archiving", "capturing")
  /\ \E size \in Sizes, sensitive, complete \in BOOLEAN :
       CaptureStart(size, sensitive, IF complete THEN "complete" ELSE "partial")
  /\ UNCHANGED trajectory

\* _archive_bridge_result: complete is what the producer's metadata proves.
Archive ==
  /\ Quietly("archiving", "capturing")
  /\ \E size \in Sizes, sensitive, complete \in BOOLEAN :
       CaptureStart(size, sensitive, IF complete /\ ~ IsCancelled THEN "complete"
                                     ELSE "partial")
  /\ UNCHANGED trajectory

\* The steps of capture, and its return.
Capture ==
  /\ \/ Quietly("capturing", "capturing") /\ CaptureStep
     \/ Quietly("capturing", "writing") /\ capture = Idle /\ UNCHANGED archiveVars
  /\ UNCHANGED trajectory

ThreadStep ==
  /\ host = "run"
  /\ \/ ThreadLocal /\ UNCHANGED <<trajectory, archiveVars>>
     \/ HandleNote \/ Leave \/ Archive \/ Capture
  /\ UNCHANGED <<host, adapterVars>>

-----------------------------------------------------------------------------
(* The coroutine: HarborHLAgent.run. *)

\* The cancellation is armed and the trajectory emptied before the thread starts.
Start ==
  /\ adapter = "idle" /\ adapter' = "waiting" /\ thread' = "begin"
  /\ run_cancellation' = "armed"
  /\ active_run' = 1 /\ trajectory' = {}
  /\ UNCHANGED <<childVars, active_process, ownVars, context, published>>

\* The result arrives and is published.
Publish ==
  /\ adapter = "waiting" /\ thread = "returned" /\ adapter' = "done"
  /\ context' = [status |-> result, turn_count |-> turn_count]
  /\ trajectory' = {1}
  /\ UNCHANGED <<thread, childVars, sharedVars, ownVars, active_run, published>>

\* The coroutine is cancelled: cancel_current_run sets the event, if there is
\* one, and looks for the process.
Cancel ==
  /\ adapter = "waiting"
  /\ adapter' = IF active_process THEN "noting" ELSE "snapshot"
  /\ run_cancellation' = IF run_cancellation = "none" THEN "none" ELSE "set"
  /\ UNCHANGED <<thread, childVars, active_process, ownVars, context, active_run,
                 trajectory, published>>

NoteCancellation ==
  /\ adapter = "noting" /\ adapter' = "stopping"
  /\ Sink
  /\ UNCHANGED <<thread, childVars, sharedVars, ownVars, context, active_run,
                 published>>

StopWorker ==
  /\ adapter = "stopping" /\ adapter' = "snapshot"
  /\ Signal
  /\ UNCHANGED <<thread, sharedVars, ownVars, context, active_run, trajectory,
                 published>>

\* The process has ended, or the timeouts pass and the error is swallowed;
\* _snapshot_cancelled_metrics; the late result is left to a callback.
Snapshot ==
  /\ adapter = "snapshot" /\ adapter' = "cancelled"
  /\ context' = [status |-> "cancelled", turn_count |-> turn_count]
  /\ Sink
  /\ UNCHANGED <<thread, childVars, sharedVars, ownVars, active_run, published>>

\* Mutant: a late result is published like any other.
PublishLateWhole ==
  /\ adapter = "cancelled" /\ thread = "returned" /\ ~ published
  /\ published' = TRUE
  /\ IF active_run = 1
     THEN /\ context' = [status |-> result, turn_count |-> turn_count]
          /\ Sink
     ELSE UNCHANGED <<context, trajectory>>
  /\ UNCHANGED <<thread, childVars, sharedVars, ownVars, adapter, active_run>>

\* publish_late_result: the counters of a run that is still the active one.
PublishLate ==
  /\ adapter = "cancelled" /\ thread = "returned" /\ ~ published
  /\ published' = TRUE
  /\ IF active_run = 1
     THEN /\ context' = [status |-> "cancelled", turn_count |-> turn_count]
          /\ Sink
     ELSE UNCHANGED <<context, trajectory>>
  /\ UNCHANGED <<thread, childVars, sharedVars, ownVars, adapter, active_run>>

\* The adapter is used for another run; of that one only this is modelled.
NextRun ==
  /\ adapter \in {"done", "cancelled"} /\ active_run = 1
  /\ active_run' = 2 /\ trajectory' = {}
  /\ UNCHANGED <<thread, childVars, sharedVars, ownVars, adapter, context,
                 published>>

AdapterWork == NoteCancellation \/ StopWorker \/ Snapshot \/ PublishLate

AdapterStep ==
  /\ host = "run"
  /\ Start \/ Publish \/ Cancel \/ AdapterWork \/ NextRun
  /\ UNCHANGED <<host, archiveVars>>

-----------------------------------------------------------------------------
(* The host process dies; later a trusted caller reopens the archive. *)

Lost ==
  /\ adapter' = "idle" /\ thread' = "none" /\ process' = "none"
  /\ signalled' = FALSE /\ worker' = "new" /\ stdout' = <<>> /\ requests' = 0
  /\ event' = "none" /\ run_cancellation' = "none" /\ active_process' = FALSE
  /\ turn_count' = 0 /\ result' = "none"
  /\ context' = [status |-> "none", turn_count |-> 0]
  /\ active_run' = 0 /\ trajectory' = {} /\ published' = FALSE
  /\ after_cancel' = 0
  /\ UNCHANGED disturbed

Crash == host # "crashed" /\ host' = "crashed" /\ Lost /\ Die

Recover ==
  /\ host = "crashed" /\ host' = "recovery"
  /\ Reopen
  /\ UNCHANGED bridgeVars

CaptureAgain ==
  /\ host = "recovery"
  /\ \/ \E size \in Sizes, sensitive \in BOOLEAN : CaptureStart(size, sensitive, "partial")
     \/ CaptureStep
  /\ UNCHANGED <<host, bridgeVars>>

Next == WorkerStep \/ ThreadStep \/ AdapterStep \/ Crash \/ Recover \/ CaptureAgain

\* The thread and the coroutine go on when they can: model calls and tools come
\* back by their own timeouts. A signal ends a process at last. Nothing is
\* assumed of a worker that gets no signal, nor of Harbor.
Spec ==
  /\ Init /\ [][Next]_vars
  /\ WF_vars(ThreadStep)
  /\ WF_vars(host = "run" /\ AdapterWork /\ UNCHANGED <<host, archiveVars>>)
  /\ WF_vars(host = "run" /\ WorkerKilled /\ WorkerStep)

-----------------------------------------------------------------------------
TypeOK ==
  /\ host \in {"run", "crashed", "recovery"}
  /\ adapter \in {"idle", "waiting", "noting", "stopping", "snapshot",
                  "cancelled", "done"}
  /\ process \in {"none", "running", "exited", "failed"}
  /\ worker \in {"new", "free", "waiting", "ended"}
  /\ Len(stdout) <= MaxStdout /\ requests \in 0 .. MaxRequests
  /\ event \in {"none", "note", "llm", "tool", "archive", "final", "fatal"}
  /\ run_cancellation \in {"none", "armed", "set"}
  /\ turn_count \in 0 .. requests
  /\ result \in {"none", "complete", "error"}
  /\ context.status \in {"none", "complete", "error", "cancelled"}
  /\ {signalled, active_process, published} \subseteq BOOLEAN
  /\ active_run \in 0 .. 2 /\ trajectory \subseteq {1}
  /\ ArchiveTypeOK

\* A cancelled trial never counts as run: whenever the thread returns, its late
\* result only corrects the counters, and nothing of it gets into the
\* trajectory of the adapter's next run.
LateResultsAreContained ==
  /\ adapter = "cancelled" =>
       /\ context.status = "cancelled"
       /\ published /\ active_run = 1 => context.turn_count = turn_count
  /\ active_run = 2 => trajectory = {}

\* Each actor is where the others can expect it.
ActorsFit ==
  /\ thread = "none" \/ adapter # "idle"
  /\ thread \in {"none", "begin", "spawning"} => process = "none"
  /\ adapter = "idle" => active_run = 0 /\ trajectory = {}
  /\ adapter \in {"waiting", "noting", "stopping", "snapshot"} => active_run = 1
  /\ published => adapter = "cancelled" /\ thread = "returned"

\* A thread that is leaving has nothing to stop.
NothingToStop ==
  thread \in {"cleanup", "leaving", "returned"} => process # "running" \/ signalled

\* After an action behind the cancellation the thread finds out or is done.
FindsOut ==
  \/ after_cancel = 0
  \/ /\ after_cancel = 1
     /\ \/ thread \in {"executing", "archiving", "capturing", "writing", "reading"}
           /\ run_cancellation = "set"
        \/ thread \in {"finishing", "failing", "cleanup", "leaving", "returned"}

\* The inductive invariant of the actors.
TrialInv == ActorsFit /\ NothingToStop /\ FindsOut /\ LateResultsAreContained

\* The inductive invariant of the archive: a process that did not die has all
\* its entries, and one that did writes nothing.
RefsInv ==
  ArchiveFits /\ (host = "run" => HasAll) /\ (host = "crashed" => ~ available)

\* A result is marked before its capture has a number, and the thread that marked
\* one without capturing it captures nothing any more.
MarkFits ==
  /\ disturbed \subseteq 1 .. captures + 1
  /\ host = "run" /\ captures + 1 \in disturbed =>
       \/ thread \in {"archiving", "capturing", "writing", "reading"} /\ IsCancelled
       \/ thread \in {"failing", "cleanup", "leaving", "returned"}

\* A complete result has its number, and its number is not marked.
CompleteIsUnmarked(what, status) ==
  what \in 1 .. captures /\ (status = "complete" => what \notin disturbed)

\* The inductive invariant of what is complete.
CompleteInv ==
  /\ MarkFits
  /\ capture # Idle => CompleteIsUnmarked(capture.what, capture.status)
  /\ \A r \in returned : CompleteIsUnmarked(r.entry.what, r.entry.status)

Inv == TypeOK /\ TrialInv /\ RefsInv /\ CompleteInv

\* When the thread has returned, its worker process has ended or was told to,
\* whether or not it was registered, failed, hung or was cancelled.
NoWorkerIsLeftAlone ==
  thread = "returned" => ~ Running \/ signalled

\* A cancellation that comes between the start of the process and its
\* registration, or at any other time, stops the worker and the thread, also
\* one that waits for a worker that hangs.
CancellationEndsTheRun ==
  adapter \in {"noting", "stopping", "snapshot", "cancelled"}
    ~> host # "run" \/ (thread = "returned" /\ ~ Running)

\* Once the cancellation is set, at most the event already taken from the pipe
\* leads to a model call or a tool, although the worker may be slow to die and
\* the pipe may hold more.
OneActionAfterCancellation == after_cancel <= 1

\* A ref that was handed out names its result for the rest of the run and in
\* every archive that could be reopened, whatever failed or was cut off in
\* between; it never names another.
RefsNameTheirResults ==
  \A r \in returned :
    /\ Read(r.n) \subseteq {r}
    /\ host = "run" \/ available => Read(r.n) = {r}

\* A result that was complete although its tool was disturbed would let the
\* model rely on what a cancellation cut off.
CompleteMeansUndisturbed ==
  \A r \in returned : r.entry.status = "complete" => r.entry.what \notin disturbed
=============================================================================

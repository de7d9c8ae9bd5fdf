# A verification project for harness-evolver

harness-evolver runs a *worker* (an LLM agent written in Rust, driven from
Python) on benchmark tasks inside Harbor, records what happened, and lets a
*meta agent* (`codex exec`) edit the harness; every edit is reviewed, validated,
scored and, when it does harm, taken back. A finished campaign may be uploaded
once. This directory models the parts of it that are hard to test: what happens
between two system calls, two processes, two iterations, or a kill and a resume.

The modules are written in TLA+, checked with TLC on the small instances of the
`.cfg` files, and the most important properties are proved with TLAPS for every
value of the constants. `PROJECT.json` lists the components, the runs, the code
lines each definition stands for, a mutation of the code for each property, the
hazards, the findings and the theorems.

## Inventory

| component | state | operations | interacts with | hard behaviour | what makes it correct |
|---|---|---|---|---|---|
| File publication (`harness/tools/publication.py`, callers `file_write`, `file_edit`, `bench/harbor.py`) | the target, a temporary, an intent file, the flock on the directory | `publish_bytes`: lock, validate, claim, write, exchange, unlink | every local or Harbor write of the worker; shell commands that ignore the lock | other writers, foreign programs, I/O errors, kills, power loss, inode reuse | readers see complete bytes; a lost update is impossible or reported; a retry never repeats an effect; what is unresolved is journaled |
| Submission gate (`hl/submit.py`, `hl/submission_storage.py`, `hl/submission_evidence.py`) | intent and result records of a campaign | `check`, `submit_once`, `write_exclusive_json` | Harbor service, the job directory | concurrent submitters, crash between claim and upload, an upload whose answer is lost | at most one upload, announced by a durable record; records that do not lie |
| Codex update engine (`meta/codex_update.py`, `meta/reviewer.py`) | the Git worktree, diff files, the stack of accepted runs | `run_update`, `rollback_last`, `rollback_last_accepted`, `rollback_diff` | the loop and the campaign, `codex exec` | a rollback that detects its own direction, dirty baselines, kills | local work survives; what was rejected is out; what was accepted can be taken back |
| Learning loop (`hl/loop.py`) | pending baseline score, trials of an iteration, history | `run_iteration`: run tasks in a thread pool, record, score, ask for an update | engine, memory, Harbor | tasks that finish, fail or are interrupted in any order | every finished task is recorded once |
| Campaign runner (`scripts/run_campaign.py`) | the campaign checkpoint | rounds, regression gates, frontier gate, change evaluation, rotation, resume | everything | gates that judge an earlier update after a newer one; restart from a checkpoint | a gate takes back what it blames; resume loses and repeats nothing |
| Memory and goals (`hl/memory.py`, `hl/goals.py`) | JSON files | `record_trial`, `record_summary`, `update_usage` | loop, worker's goal tool | several files without a transaction; read-modify-write | a resumed campaign sees whole trials; usage only grows |
| Worker core (`crates/hl-worker-core/src/main.rs`) | messages, pending tool round, usage, blockers | model request, tool call, prune, compact, overflow recovery, done | bridge (stdin/stdout), model provider | compaction with an unanswered tool round; a retry after a context overflow | every tool result follows its call; a failed compaction changes nothing |
| Agent bridge (`bench/_agent_bridge.py`, `bench/agent.py`, `bench/worker_protocol.py`) | worker process, cancellation flag | start, answer tool requests, cancel, terminate | worker core, Harbor thread | cancel while the process starts or ends | a cancelled run leaves no process and reports a cancellation |
| Tool result archive (`bench/tool_result_archive.py`) | payload files, journal, quotas | capture, index, read, reload | bridge, worker | journal append fails, quota, restart | a reference always resolves to the captured bytes |
| Process runner and supervisor (`harness/tools/process_runner.py`, `process_supervisor.py`) | process tree, pipes | run, time out, terminate descendants | shell tool | forks during termination, pid reuse | no descendant survives a command that is reported as cleaned up |
| Path guards and stable reads (`safe_path_io`, `stable_tree`, ...) | directory descriptors | open, read, scan twice | file tools, evidence | the tree changes during the walk | a scan that succeeds saw one state |
| Retry (`harness/recovery`) | attempt counter | delay, wait | provider calls | overflow | delays are bounded and monotone |
| Analysis (`hl/frontier`, `coupling`, `compression`, ...), packets (`meta/packager`, ...), Harbor adapters and scoring (`bench/harbor*`, `scoring`, ...), prompts and configuration, legacy meta agent, scripts | none or derived | pure functions, I/O | campaign | little | not modelled: no transitions of their own |

## Modules

| module | models | role |
|---|---|---|
| `Publication` | `publish_bytes`, one action per system call | detailed specification |
| `ConditionalFile` | what a caller of `publish_bytes` may rely on | abstract specification |
| `PublicationProofs` | | theorems about `Publication` |
| `SubmitGate` | `SubmitGate.submit_once` and its records | specification |
| `SubmitGateProofs` | | theorems about `SubmitGate` |
| `UpdateCycle` | the engine, the update half of `run_iteration`, the gates of the campaign runner | composition of three components |
| `IterationTasks` | the thread pool of one iteration, its trial files and the checkpoint writes | composition of the loop, the memory and the campaign's hooks |
| `IterationTasksProofs` | | theorems about `IterationTasks` |
| `CampaignRotation` | which tasks run in which iteration, across resumes | composition of the campaign runner and the loop |
| `CampaignProofs` | | theorems about `UpdateCycle` and about `CampaignRotation` |
| `WorkerContext` | the conversation of the Rust worker: turns, tool rounds, pruning, compaction, overflow retries | specification |
| `WorkerUsage` | what providers report of token counts and what the worker makes of it | the part of `WorkerContext` that counts |
| `WorkerContextProofs` | | theorems about `WorkerContext` and about what it counts |
| `CompletionGates` | what must have happened before `done` ends a run | specification |
| `CompletionGatesProofs` | | theorems about `CompletionGates` |
| `AgentBridge` | one trial on the host: coroutine, thread, worker process, cancellation, late result | composition of adapter, bridge, worker and archive |
| `AgentBridgeProofs` | | theorems about `AgentBridge` and its archive |
| `ToolResultArchive` | payload files and journal of tool results, with partial writes, a kill and the reload | the part of `AgentBridge` that archives |
| `ProcessSupervisor` | one shell command: runner, supervisor and the processes of the command | composition of runner, supervisor and kernel |
| `ProcessSupervisorProofs` | | theorems about `ProcessSupervisor` |
| `MCPublication`, `MCSubmitGate`, `MCUpdateCycle`, `MCCampaignRotation`, `MCWorkerContext`, `MCCompletionGates` | symmetry sets and the values of structured constants | model checking |

### Publication

A writer is one call of `publish_bytes` for one target of one directory. `dir`
is the directory: the target, one temporary per writer and the intent; a file is
an inode number, bytes and a flag that says whether `fsync` made the bytes
durable. Bytes are named by the writer that produced them. `snapshots` are the
directories a power loss may leave: every state of `dir` since the last
successful `fsync` of the directory. `outcome` is what the call returns.

Each system call of the code is an action: `Acquire`/`Busy` (the flock and its
timeout), `CheckJournal`, `Validate`, `Claim` (`O_EXCL`), `WriteIntent`,
`SyncIntent`, `CreateTemporary`, `FillTemporary`, `PublishNew`
(`RENAME_NOREPLACE`), `PublishExchange` (`RENAME_EXCHANGE`), `Revalidate`,
`SyncPublished`, `UnlinkDisplaced`, `SyncUnlinked`, `UnlinkIntent`, `SyncFinal`,
`Release`. The `except` and `finally` blocks are `FailUnclaimed`, `FailClaimed`,
`FailRevalidate`, `SyncUnsure`, `FailSync`, `FailCleanup`, `Discard`, `Unclaim`,
`FailDiscard`. `Begin` is the caller: a whole-file write expects nothing, an edit
expects the file it read *before* taking the lock. `Crash` and `PowerLoss` may
come between any two steps; `ForeignWrite` is a program that ignores the
protocol and replaces, rewrites or removes the target.

`ConditionalFile` is a register with conditional writes that take effect at once
or never; a write that may have taken effect without its caller being told
blocks the register until somebody reconciles it. Publication implements it when
every program cooperates (`ImplementsConditionalFile`).

What the properties say:
- `RetryableMeansUntouched` (part of `Inv`): a call that returns `not_published` without
  `no_auto_retry` never had its bytes at the target and returns with neither its
  candidate nor its intent in the directory.
- `RefusalIsHarmless` (a theorem): the `finally` block does not sync its unlinks,
  so a power loss may bring candidate and intent back. What comes back never has
  the refused bytes at the target, and no candidate comes back without its
  intent, which the next call reports instead of publishing over it.
- `ExchangeKeepsBothCopies`: wherever the new bytes are at the target after a
  crash or a power loss, the displaced file and the intent are there too until
  the file was validated *and* no power loss can undo the exchange any more. This
  covers the exchange of something nobody validated, the one whose `fsync` fails,
  and the window between the validation and the `fsync`.
- `EditSupersedesItsBasis`: an edit that reports success replaced the very bytes
  it was computed from. Inode numbers are reused, so identity alone would not do.
- `DurablePublication`: success without a durability warning survives power loss.
- `NoOrphanTemporary` (a theorem, implied by `Inv`): a temporary never outlives the
  intent that names it, in any directory a power loss may leave.

### SubmitGate

A submitter is one call of `submit_once`; its `request` is the part of the
configuration that steers control. `files` is the submissions directory,
`snapshots` as above; a record says whose it is, what it says and whether all of
its bytes are there. Campaign ids may contain dots, so the result
`a.intent.json` of campaign `a.intent` *is* the intent of campaign `a`: the
instance has exactly these two campaigns. `job` is the version of the Harbor job
directory, `seen` the version whose fingerprint is the evidence. `Accept` is the
external service, which may accept an upload after its client died.
`JobChanges` keeps the rule of `docs/submission-evidence.md` that nobody writes
the job while an upload starts or runs.

What the properties say:
- `AtMostOneUpload`: two submitters of a once-per-campaign campaign never both
  start an upload, whatever crashes in between.
- `RecordsTellTheTruth`: no record denies an upload that was started or claims one
  that was not accepted.
- `ReturnedVerdictIsDurable`: what a call returned is what its record says.
- `UploadedAsValidated`: what is uploaded is what was validated.
- `UploadHasDurableIntent` and `QuietRefusalLeavesNoClaim` (theorems, implied by
  `Inv`): the intent of every started upload is complete in every directory a
  power loss may leave, and a refusal that reports neither an intent nor an
  unknown outcome left no record.

Observed and not counted as findings, since no text of the repository denies
them: a client that exits with an error after the service accepted the upload
yields `failed` without `outcome_unknown`; `scripts/submit_once.py` exits 0 when
the outcome is unknown; `--record-dry-run` writes `<campaign>.dry_run.json`
without `O_EXCL`, which is also the marker of a campaign called
`<campaign>.dry_run`. The last two are outside the model.

### UpdateCycle

The worktree is a function from *regions* (places that one hunk of a patch
covers) to contents: `Committed`, `Local` (an uncommitted edit of the operator)
or the update that wrote it last. `delta[u]` is the diff file of update `u`: for
each region it changed, the content it replaced. `PatchReviewer.rollback` tries
the reverse direction, then the forward one (`Applied`, `Absent`), and that is how
a second rollback of one diff applies it again. `stack` is
`_accepted_run_stack`; `campaign` is the part of the checkpoint the gates use and
`saved` its file. `pc` walks through one round of the campaign: pre-regression,
tasks and score check (`Score`), `run_update` (`Execute`, `Edit`, `Review`,
`Accept` or `Reject`, then `RollbackRejected` of the loop), the frontier gate,
the evaluation of the pending manifest, the summary (`RecordSummary`) and the
post-regression suites. Each gate ends with the checkpoint, a step of its own
(`SaveState`) before which the next step cannot come and a kill can. `Restart` is a kill anywhere, or an exit, and
`--resume`. The verdicts of suites, scores and reviews are nondeterministic.

What the properties say:
- `LastAcceptedIsReversible`: under a clean baseline the stack holds one update,
  alone in the worktree, and rolling it back restores what was there before.
- `AcceptedUpdateSurvivesRestart` (a theorem, implied by `Inv`): between rounds of
  such a campaign the checkpoint names the update on the stack.
- `LocalWorkIsRecoverable`: under the content of every region lie only recorded
  diffs, down to what was there when the campaign began, unless a `codex exec`
  was killed.

The instance chooses `allow_dirty_baseline` and the operator's edits in `Init`.
With a clean baseline an update that was rejected, then re-applied by the second
rollback, can stay in the worktree beside a retracted one; the next execution is
then refused because the worktree is dirty, which is why
`LastAcceptedIsReversible` survives the findings.

### IterationTasks

The main thread of `_run_iteration_tasks` walks through `pc`; the jobs of the
pool (`agent_runner.run`) end on their own (`Finish`, `JobRaises`). `todo` is what
`submit_next` has not submitted, `futures` the dictionary, `done` the rest of the
set `wait` returned, `current` the task being recorded. A trial is a task and the
life of the process that ran it. `_record_iteration_trial` is a step per effect:
`OpenResult` and `WriteResult` (`result.json` is written in place), `WriteRest`,
`Hook` (the entry of the campaign state), `OpenCheckpoint` and `WriteCheckpoint`
(in place too, once in `on_trial_recorded` and once in `stop_after_trial`), `Count`.
`InterruptWait` is an interrupt in `wait`, which drains (`Drain`, `Drained`);
`Interrupt` is an interrupt or an error at any other step, which does not. With
one worker or one task there is no pool (`RunInline`). `Restart` is a kill at any
step, or an end, and `--resume`: `Load` reads the checkpoint, `Prepare` the
earlier trials of the tasks that are left. `completed_results` is only passed to
hooks and is left out, as is the report that follows each checkpoint.

What the properties say:
- `CheckpointNamesWholeTrials`: an entry of the checkpoint has all its files.
- `RecordedStaysRecorded`: whenever the checkpoint can be read it names every trial it
  has ever named (`named`), with its files. `OpenCheckpoint` empties the file, so that a
  kill or an error before `WriteCheckpoint` loses all entries with it; what must not
  happen, and what the mutant does, is a resume that takes such a file for a new one.
- `InterruptKeepsEvidence`: after an interrupted wait and a complete drain every
  job that returned, also during the drain, is in the checkpoint.
- `IterationEnds`: an iteration that is not killed ends.
- `OneTrialPerTask` and `ReturnedIterationIsRecorded` (theorems, implied by `Inv`): no
  task is recorded twice, whatever is killed and resumed, and an iteration that
  returns has recorded every task and counted each trial it ran once.

### CampaignRotation

`state` is the campaign state and `checkpoint` what was last written of it. `at` is the order, the
cursor and the cycle of the rotation, `next` the same behind the chosen batch
(`next_order`, `next_cursor`, `next_cycle`), `current` what is left of the batch. The
`while` loop of `_iteration_tasks` is `Choose`: the shortest prefix of the rest of
this cycle's order and the next cycle's that holds a batch of different tasks.
`Start` and `BeginIteration` are the two selections a process makes before its
first iteration; the second treats what the first chose as an interrupted batch.
`Run` records a trial, `Diagnose` a diagnostic one, `Summarise` records the summary
and advances the rotation. An iteration's tasks are one step each and the
checkpoint is written at once, since `IterationTasks` looks into both.

What the properties say:
- `CampaignInv`, the module's type, `OnceForASelection` and `OnlyProgressIsLeftOut`: a
  task runs at most once for one selection, and an iteration leaves a task of its
  batch out only for a trial of it that no summary has scored.
- `NoTaskIsForgotten`: a bound on how many selections pass over a task.
- `TrialsAreScoredOnce`: the k-th summary has the number k and scores trials of
  iteration k alone, so that no resume uses a number twice or passes one over.

Observed and not counted as a finding, since no text denies it: an iteration that
was interrupted and resumed is summarised, scored and learned from with the
trials of its last process only. And a trial that stays without a summary, a
diagnostic one or one of an earlier process, counts as progress of every later batch
as well: when its task is chosen again and the selection is repeated, as at the top of
the first iteration after a resume, the task is left out of a batch it was never run for
(`run_campaign.py:1651`). `OnlyProgressIsLeftOut` says that nothing else leaves a
task out; it does not say that the trial is of this batch, which is false.

### WorkerContext and WorkerUsage

`messages` is the list `run_worker` sends on every turn. A message has a kind, its
place in the order of appending (`n`), the ids of its tool calls, or of the call it
answers, and a size; `full` tells a tool result from the placeholder that
`prune_ephemeral_tool_outputs` puts in its place. Sizes are small numbers because
the code only adds and compares them. `UnitEnd` is `completed_message_unit_end`:
the units a compaction may omit are a prompt, an answer, or an answer with *all* the
results of its calls. `Compact` is `compact_context`: it puts the current work state
behind the two messages it always keeps, omits units from the oldest on, and
gives the whole attempt up when that did not help. Its loop is stated by where it
stops (`MayStop`) rather than by its iterations. `Overflow` is the answer "too
long" of the provider: a forced compaction to less than the rejected size, and
another request or the end of the run.

`WorkerUsage` adds up what model calls cost. A call is its cost, the usage
object a provider reports of it, and whether a bridge of this version normalises
it (`Normalize`, `BridgePayload`) or an older one passes it through
(`LegacyCounts`). `LiteLLM`, `OpenAI` and `Anthropic` are how providers report a
cost; `Without` drops counters from a report. What is assumed of a report
(`IsReport`) is that its values of a counter are right, contradict each other or are
out of range (`Tells`). `Miss` is a call that was paid for and whose answer never
reaches the worker: the completion raises after the provider has billed it, or
`_llm_response_payload` does; the worker gets an error and counts nothing.

What the properties say:
- `RequestsAreWellFormed`: every request has the system prompt and the task in
  front and pairs each tool call with its result.
- `HistoryIsExact`: every message ever appended is in the list or in the
  trajectory, in order and not in both, also after a compaction that was given up.
- `RoundsAreShownOrAnnounced`: the first request after a round shows all its
  results in full, whatever was retried, or there is a notice that they were lost.
- `RetriesShrink`: a request rejected as too long is only sent again when it got
  strictly shorter. Sizes are natural numbers, so no provider can keep the worker
  in this loop for ever.
- `UsageIsExactOrUnknown`: a total the worker reports is what all its calls cost
  but for those whose answer got lost (`lost`). An accepted answer that is missing a
  counter, contradicts itself or overflows the sum hides the total for good; a lost
  answer hides nothing, and the total reported is short by its cost.

A round whose answer repeats a call id is modelled, and is never a complete unit
for the code; that its results are shown in full at first is not claimed. The
second prune in the overflow branch changes nothing, since the turn before has
already pruned; it is modelled as the code has it.

### CompletionGates

A call of `done` ends the run only if `completion_gate_passed`. The worker keeps,
next to three kinds of unresolved failure, a *preflight* for each of eighteen
families of contracts ("the regex file must be tested", "the CSV must be
parsed back", ...): the turn in which the artifact was changed, the turn in which
the contract was observed, the turn in which the preflight last passed, and a flag.
The code has a copy of this machinery for each family, and the copies differ: when a
change counts (`touch`), what the preflight is due for (`due`), and what a failed
check that names the contract leaves behind (`traits`). A row of the table at the
head of the module says how, so that one set of actions stands for all eighteen;
`Init` chooses the family. Which commands are checks, which texts name a contract
and which failures have a "focus" are nondeterministic: in the code these are
thousands of lines of text patterns.

What the properties say:
- `FailuresAreRepaired`: a run ends only when each kind of failure was followed by
  what repairs it.
- `ChangesAreChecked`: a run does not end on an artifact that a successful call
  changed in a later turn than its preflight passed, once the family has to watch
  the artifact (`Watched`): always, or since the task or any failed check named the
  contract. `Watched` and the history `unchecked` are told from what happened, not
  from the flags and turns the gate looks at.
- `RememberedContractsAreChecked`: for eleven families (`Remembers`) a contract that
  a failed check named is not forgotten when another check passes.

What these two do not promise, because the code does not keep it:
- `Change` calls `unseen` what a call changed before it failed: the
  `record_..._artifact_progress` functions run only if `result.success`
  (`main.rs:8946`). A run may end on such a change.
- `late` is a change in the same turn as a preflight that passed, behind it or by
  the preflight itself: calls are compared by their turn, although the message at
  `main.rs:9146` asks for a preflight after the change.
- `preflight` is a change by a preflight that did not pass; only the two families
  with the trait `own` count it.
- A family watches nothing before its contract is named, unless its `touch` is
  `always` or `arms`; shards, arithmetic, native crashes, PyTorch and Git
  sanitization watch no artifact at all, but need their preflight once.
- `html_filter` keeps the flag a failed check sets, but `main.rs:11697` asks for the
  preflight only after a later change: the run may end without it.
- Six families have no flag that a failure sets. Those that *read* an unresolved
  failure (regex, CSV, shards, spectral peaks) forget its contract as soon as any
  verification passes.

### AgentBridge and ToolResultArchive

Three actors: the coroutine `HarborHLAgent.run` (`adapter`), the thread that runs
`HLAgent.run` and `_run_rust_core` (`thread`), and the worker process (`process`,
`worker`, `stdout`). They share `run_cancellation` (the event under
`_process_lock`: absent, armed or set), `active_process`, the trial's `context` and
the trajectory file. The coroutine may be cancelled in any state of the others
(`Cancel`); it sets the event, signals the process it finds registered, takes a
snapshot of the counters and leaves a callback (`PublishLate`) for the thread's late
result. `NextRun` is the adapter's next run, of which only the change of
`_active_run_id` and the emptied trajectory are modelled. The thread checks the
event before the process is started, behind its registration and behind each
event it reads; between those checks it may be anywhere. `Spawn` and `Register` are
two steps: a cancellation between them finds no process.

`ToolResultArchive` is the archive the thread writes to. `capture` is a step per
write: `WritePayload` (an exclusive new file), then the line in `index.jsonl`
(`AppendJournal`); `Fail` is any error of either, with whatever a partial write
left (`TornPayload`, `TornJournal`), and `Die` the same for a kill, which
`AgentBridge!Crash` adds. `Reopen` is the constructor with the scope of a
process that died: `splitlines` accepts a last line without its newline, and the
next append then joins it (`JournalGrows`).

What the properties say:
- `NoWorkerIsLeftAlone`: when the thread has returned, its process has ended or was
  signalled.
- `CancellationEndsTheRun`: a cancellation at any moment ends the thread and the
  process.
- `OneActionAfterCancellation`: at most one event already read leads to a model call
  or a tool after the cancellation.
- `LateResultsAreContained` (part of `Inv`): a cancelled trial stays cancelled, its counters are
  corrected, and nothing of it gets into the next run's trajectory.
- `RefsNameTheirResults`: a ref that was handed out resolves to its result for the
  rest of the run, and in a reopened archive to its result or to nothing.
- `CompleteMeansUndisturbed`: no result captured as complete came from a tool that was
  running when the run was cancelled.

Observed: after a reopen the quota counts the journal's entries only, so a payload
without a line (a kill between the two writes) is not counted against the limit
of `docs/architecture.md:292`.

### ProcessSupervisor

Three actors again: the runner (`run`, the thread in `_run_bounded_argv`), the
supervisor it starts (`sup`, `process_supervisor.py`), and the processes of the
command (`life`, `parent`), which fork, end and are reparented to the supervisor as
the kernel does it. Where `_pid_namespace_prefix` finds what it needs the supervisor
is the init of a PID namespace (`namespace`), and everything ends with it.

The supervisor knows of processes what `/proc` tells it, and a scan is not atomic:
`List` takes the ids, `Read` looks at one after the other while the rest goes on, and
a process born behind `List` is not in it. `phase` says what the scan is for: `leave`
(the command ended by itself: is anything left?), `term` and `terms` (before and in
the loop of SIGTERM), `kill` and `kills`, `final` (the last rounds) and `verdict` (the
`return not refresh()`). A process with SIGKILL pending (`dying`) does not fork any
more. A reading may fail: `List` takes a directory that cannot be listed for an empty
one, `Read` skips an entry that cannot be read or decoded (a name that is not UTF-8),
`DecideTerm`, `DecideKill`, `DecideFinal` and `Verdict` take for dead what another
reading of `Met` misses, and `Kill` spares what such a reading misses and what answers
with a `PermissionError` (a setuid program). `failures` counts all of these. When
`root.kill` itself is refused nothing catches the error, and the supervisor ends with
the status of a crash (`RootRefuses`).

The runner sends a token (`Challenge`), watches for the end, the deadline and the
cancellation, and `_terminate_process_tree` is `Signal`, then `Attest` when the
supervisor has ended or `WaitTimesOut` when it has not; `back` says from which of
its three places it was called. Exit status 124 is what the supervisor returns after
a stop, but a command may return it as well, which is why the token has to come back
through the proof pipe.

What the properties say:
- `NobodyIsLeftBehind`: a supervisor that ended in good order left nobody alive in
  a namespace; elsewhere, when no reading and no signal failed, only after three forks
  during its scans; and whoever is left by a confirmed cleanup without ever having got
  a SIGKILL cost three such forks and failures together.
- `Inv`: no call returns or raises while its supervisor runs, and a cleanup is
  confirmed only with a proof.
- `RunEnds`: the caller gets its answer from a supervisor that hangs, is dead or
  cannot be found.

So on a host without PID namespaces the sentence "The managed command tree was
terminated and reaped." (`shell.py:213`) is false in two cases that TLC reaches: a
chain of processes that each fork and end within one scan, and a single failure of
`_linux_process_table`. A process whose name is not valid UTF-8 is skipped in every
scan: it is never found nor signalled, and the cleanup is confirmed without a fork.
Both are exceptions in the property and no findings of a run: a PID
namespace "when the host permits it" is the repository's own remedy
(`_process_runner_issue19_namespace_base.py:3-10`).

### Findings

Two runs check what the repository says of the program and find it false:
- `UpdateRetracted`: the score check rolls an update back but the campaign still
  names it; a gate that condemns it later applies the diff again and records a
  rollback (`scripts/run_campaign.py:9140`).
  The property is violated in a second way, with one more update: a gate that judges
  the packet of an earlier iteration pops the update this iteration accepted
  (`scripts/run_campaign.py:9138`) and records the rollback for the packet it blames.
- `IterationEvidence`: an error of a job, or an interrupt outside `wait`, leaves
  the pool undrained (`hl/loop.py:393`): jobs that returned are not recorded.

They need sequences of calls of two files, or a fault at one step of many; the
unit tests call each function once with stubs. Observed as well, without a run of
its own: a rejected delta that the engine has rolled back is rolled back again by
the loop (`hl/loop.py:240`), which applies it; a checkpoint or a `result.json` whose
writing was cut does not parse and the campaign cannot be resumed
(`scripts/run_campaign.py:2491`); trials that an interrupted iteration left out of
its summary make a later resume drop their tasks from a new batch
(`scripts/run_campaign.py:1651`).

## Runs

| run | instance | shows |
|---|---|---|
| `PublicationCooperating` | 3 writers, 3 inodes, 2 faults | the transaction, its durability and its refinement of `ConditionalFile` |
| `PublicationForeign` | 2 writers, 3 inodes, foreign bytes `f1` and a special file, 1 fault | no update is lost silently when programs ignore the lock |
| `SubmitGate` | 2 submitters, 2 campaigns whose names collide, 3 job versions (one invalid), 2 faults, 1 change | the claim, the upload and its records |
| `UpdateCycle` | 3 updates, 2 regions, 1 restart | the worktree through accepted, rejected and retracted updates |
| `IterationTasks` | 3 tasks, 2 workers, 2 faults, 2 resumes | the pool, the drain, the files and the checkpoint; the iteration ends |
| `CampaignRotation` | 4 tasks in batches of 3, every pair of orders, 3 iterations, 1 diagnostic trial, 2 resumes | selection, numbering and scoring across resumes |
| `WorkerContext` | 9 messages, rounds of one and two calls, one with a repeated id, 2 result sizes, 4 reports of usage, one of them contradictory, at most one answer lost | the conversation stays well-formed, exact and finite; totals are unknown or exact but for lost answers |
| `AgentBridge` | 2 requests, 1 event in the pipe, 3 captures, 2 entries | cancellation, late results and the archive, with a crash and a reopened archive |
| `CompletionGates` | all 18 families, 3 turns of 2 calls | what a run that ended has checked |
| `ProcessSupervisor` | 4 processes and failed readings or signals in the life of a command, 2 last rounds, with and without a namespace | cleanup, its proof and the caller's answer |
| `UpdateRetracted` | 2 updates, 2 regions, no restart | the finding |
| `IterationEvidence` | as `IterationTasks` or smaller, with the one fault it needs | the finding |

Why the bounds are enough. Three writers are one that left an intent, one in the
transaction and one that waits or retries; with two inode numbers besides the
original, numbers are reused. Two faults cover an error and the failure of its
cleanup, or an error and a power loss. The foreign run has fewer writers because
foreign programs play the third one. Two submitters race; a third adds
nothing to exclusive creation, and the theorems cover any number. Three updates are one blamed, one
rolled back and one accepted on top; two regions make patches that overlap and
patches that do not; one restart loses the stack and a second one only repeats
it. Kills (`Crash`) are not bounded: a killed writer does not come back.
With three tasks and two workers
the pool is refilled, futures end together, and after a resume one task is left,
which runs without a pool. Two faults are an interrupt and an error during the
drain; two resumes are one after a kill and one that meets what the first left
behind. Four tasks in batches of three make batches that cross the end of a cycle
and skip tasks they hold. Two orders that alternate stand for the shuffles, which
depend on the cycle and the seed only.
In `WorkerContext` the lists 14 and 12 of the code are the constants 5
(`KeepMessages`) and 2 (`KeepTail`), with which nine messages give two rounds, of
which one can be omitted, and the prompts around them; requests are compacted
unforced and forced, in vain and with success. Token counters are 63 bits wide in
the code; `MaxCount` is 3, so that the second call of two overflows; `MaxLost` lets
one answer be lost, before or after the others. In
`AgentBridge` two requests are one before and one after the cancellation, a model
call and a tool or two tools; with two entries, three bytes and three captures
each quota is met, and a number is used again behind an orphan payload. Three turns
of two calls in `CompletionGates` are one that fails, one that repairs and one that
changes or ends; the theorems cover any number.
In `ProcessSupervisor` four births are the command and the three forks that
`NobodyIsLeftBehind` speaks of: with one fewer nobody could be left behind without a
failure. Births and failures share the bound (`Room`): three forks and no failure, two
and one, one and two are all in it, and a leftover is reached with each. Two last
rounds are one that finds somebody and one that does not, or the last of five.
Symmetry is over writers and inodes, submitters and uuids, updates and regions, and
the tasks of the rotation: no property names one of them, and none of the runs with
symmetry checks liveness.

Deadlock is not checked: each writer or submitter makes one call and ends,
and a campaign, an iteration, a trial, a run of the worker or a command ends.

Fairness: three modules assume it. `IterationTasks`, for `IterationEnds`: weak fairness of the
main thread from `Load` on, which nothing in the process can hold up, and of every
running job. The second is an assumption about Harbor: `run_task` retries failures
of the infrastructure without a limit, so the property is about iterations whose
jobs end. No fairness of interrupts, kills or resumes is assumed: nobody has to
resume a campaign. `AgentBridge`, for `CancellationEndsTheRun`: weak fairness of the
thread (model calls have timeouts of their own, tools that of the environment, and a read of the pipe
ends with the process), of what the coroutine does after it was cancelled, and of
the death of a signalled process, which after SIGTERM gets SIGKILL. That a
running tool ends is an assumption about Harbor: the adapter's `_exec` has no timeout
of its own and relies on that of Harbor's environment. Nothing is assumed of a worker
without a signal, which may hang for ever, and Harbor need not cancel. `ProcessSupervisor`, for `RunEnds`: weak fairness of the runner's
thread alone, whose waits all have timeouts; the supervisor and the command may stop
at any step for ever. The other properties are safety properties; a writer or a
submitter may wait or be killed at any step, and nothing claims that a call ends.

## Proofs

Every safety property that a passing run checks is proved. Eight modules
(`...Proofs`) prove them for any sets of writers, inodes, submitters, campaigns,
updates, regions, families, tasks, rounds and model calls, any batch size, number of
workers, processes, orders, turns, calls, requests, captures, faults, changes,
resumes and restarts, and any quotas, thresholds and sizes.

The assumptions are those of the modules, and TLC evaluates them on every run. Most
say that numbers are numbers and values are distinct. Those that say more:
- `SubmitAssumption`: two campaigns or two uuids never share an *intent* name.
- `RotationAssumption`: there are tasks, finitely many, and a batch is no larger than
  all of them, as for a plan that the code enables.
- `ContextAssumption`: an answer that asks for tools asks for one at least.
- `CallsAssumption` says of a provider's report that the counters it has are right
  and that their names tell whether the input includes the cache hits. An Anthropic
  message that lost its cache-creation counter is excluded, because the code takes a
  missing one as 0; so is a report with `input_tokens` that include the cache hits
  beside `cache_read_input_tokens` but without `prompt_tokens`, which looks like
  Anthropic's.

Only the refinement of `ConditionalFile` has a hypothesis of its own, `Foreign = {}`:
the register promises nothing of a target that other programs write.

Most invariants of the runs are not inductive. The strengthened ones stand in the
`...Proofs` modules, next to the proofs that need them, except where they are the
module's own `Inv`.

| theorem | argument |
|---|---|
| `PublicationProofs!InvHolds` | `Inv` says which parts of the directory a writer at each step owns. Each action changes one writer, so a step is split into what it does to its own writer and the fact that the part of the others is local to them. |
| `TypeCorrect`, `MutualExclusion`, `TemporariesAreJournaled` | consequences of `Inv`; `NoOrphanTemporary` ranges over `snapshots`, which is why `Inv` speaks of all of them |
| `EditsLoseNoUpdate`, `RetryIsSafe`, `ExchangeKeepsBothFiles`, `PublicationIsDurable` | `CustodyInv` adds to `Inv` what each exchange took off the target: where it is, and which survivors of a power loss still show it. Bytes that left the target never come back to it, so a survivor that shows what was displaced is older than the last sync of the directory |
| `PublicationIsConditionalWrite` | `CooperatingInv` adds what holds when all writers take the lock: between `Validate` and the exchange nobody else touches the target. Then the exchange (or the rename, or the power loss that keeps or undoes it) is the register's write, and every other step leaves the register alone |
| `SubmitGateProofs!InvHolds` | a complete record is never overwritten because every creation is exclusive, so facts about records survive the steps of others; snapshots hold what a sync covered |
| `IntentComesFirst`, `UploadsOnce`, `RefusalIsQuiet`, `RecordsAreTrue`, `VerdictsAreDurable`, `UploadsTheEvidence` | consequences of `Inv`; two uploads of one campaign would need one intent with two owners |
| `CampaignProofs!InvHolds` | a clean-baseline campaign starts an execution only from `HEAD`, so an accepted update is alone in the worktree and every rollback empties the stack; the delta against the snapshot accounts for what an execution wrote, and a rollback in either direction only exchanges contents that some diff records |
| `AcceptedIsReversible`, `CheckpointNamesAccepted`, `LocalWorkStays` | consequences of `Inv` |
| `TasksRunOnce` | `Rotation`: batches are ordered by the cycle and the cursor they begin at, and every trial on record was run for an earlier batch than the next one or for the one under way, so that no task is chosen twice for one batch. What is left of the batch has no trial of that batch yet, in memory or in the checkpoint, since both hold the same trials; a selection made again gives the same batch. What is no longer left of it has a trial without a summary (`Explained`), since a trial that a summary names has that summary's number |
| `EveryTaskReturns` | also `Rotation` (`Waiting`): a task that is passed over is farther on in the line, and `BatchSize` times the selections it waited plus its distance never exceed `2 * NTasks - 2`, the distance of a task that is first in one order and last in the next |
| `SummariesShareNothing` | also `Rotation` (`Numbered`): the summaries are numbered in the order they are made, their trials carry their number, and no trial carries one beyond the next, so that a resume goes on with the number after the last summary |
| `IterationTasksProofs!InvHolds` | until the iteration fails, a job that returned is in the pool, being recorded or recorded (`NothingIsLost`); a task that runs has no entry of an earlier life (`TasksFit`); an entry is made when its trial is whole (`RecordFits`, `EntriesFit`) |
| `TrialsAreWhole`, `NoTaskTwice`, `ReturnsWithAll`, `DrainKeepsEvidence` | consequences of `Inv` |
| `EntriesStay` | consequence of `Inv`: the checkpoint is only written from a campaign state that has every entry there ever was (`EntriesFit`), because `Load` starts from a checkpoint that is not cut or ends the process |
| `CompletionGatesProofs!InvHolds` | a failure is kept until something that repairs it happened (`FailuresAreKept`), the preflight's turn is that of the last that passed, a change the family watches and has not preflighted has a later turn, and a failure that named the contract has left its flag (`TurnsAreKept`) |
| `RunsEndRepaired`, `RunsEndChecked`, `RunsEndWithContracts` | consequences of `Inv`: an accepted run passed the gate, and the gate compares these turns. `Watched` implies that the code counts the change, because no flag is ever taken back |
| `AgentBridgeProofs!InvHolds` | `TrialInv`: no action behind the cancellation is followed by another, since the thread passes a check between two (`FindsOut`); it cannot leave a process unsignalled, since every way out of `spawning` that has one leads through `Terminate` (`NothingToStop`); the callback runs only behind the thread's return (`ActorsFit`) |
| `NoWorkerStays`, `OneActionAtMost`, `LateResultsStay` | consequences of `TrialInv` |
| `RefsResolve` | `RefsInv`: as long as the archive may be written, the journal's whole lines are the entries, or the journal can never be read again; a payload is never replaced. There is a lemma per operation of the archive, with every partial write of it |
| `CompleteIsWhole` | `CompleteInv`: a tool that returns under a cancellation marks the number its capture will get, and no other result can take that number, since the thread archives nothing else before it finds out |
| `EverythingFits` | all of `Inv`, with `TypeOK`. A turn is counted only for a model call the worker asked for, because it asks for one thing at a time and waits (`ConversationFits`); a journal that can be read counts no more bytes and lines than the memory that wrote it did, with what is still to be written of the last entry, so that a reopened archive is within the quotas (`QuotasFit`) |
| `WorkerContextProofs!TotalsFit` | `UsageFits`: the sum of a counter that is not unknown is what was spent less what was lost, because each usable value `Normalize` or `LegacyCounts` finds in a report is the cost it reports, and a counter without a value stays unknown |
| `TotalsAreExact` | consequence of `UsageFits` |
| `ConversationIsTyped`, `RequestsAreComplete`, `NothingIsForgotten`, `ResultsAreDelivered`, `OverflowsEnd` | `Context` says which round waits for results and which results are owed to the model. A unit ends only behind all the results of its calls, so pruning, compacting and retrying move whole rounds, and what the list loses is what `recorded` gains, with the numbers in order |
| `ProcessSupervisorProofs!CallsEndTheirSupervisor`, `ConfirmedCleanupIsComplete` | `Account`: every way out of the runner's steps passes a wait for the supervisor that ended, and the token comes back only from a verdict |
| `TreeIsCleaned` | also `Account`: a scan finds everything that was born before it and lives, because a living process has a living parent that is older and was read before, unless a reading fails. Who is overlooked was forked during the scan by somebody who ended in it, or is hidden by a failure (`Excused`); and three scans in a row, the last one for kills, a last round and the verdict, must overlook or spare somebody who is to go without a SIGKILL: each costs a fork or a failure (`Missed`, `Cost`) |

The invariants that the runs check contain the module's type invariant.

A recursive function is defined by its value at the numbers below; that a fact holds
at all numbers cannot be had from the induction theorems of the library, which take an
operator. The proofs use `WFMin` instead: were there numbers at which the fact fails, there
would be a least one, and the number before it refutes that. So the length of what
a compaction omits, the bytes of a journal (`TotalGrows`) and the walk through a line
of orders are proved about.

Only model-checked: liveness (`IterationEnds`, `CancellationEndsTheRun`, `RunEnds`),
which needs `ENABLED` and fairness and is out of this prover's reach, and the two
findings, which are counterexamples. No module declares a recursive operator.

## Abstractions, and what is not modelled

- One target per directory in `Publication`; paths, modes and payload hashes are
  left out, a hash being equality of bytes. Reading, guarding and canonicalising a
  path are another component.
- The evidence parser is one set of valid versions; the thresholds of a summary
  are one refusal.
- `git apply` is atomic; a patch is text in regions. Binary restoration,
  renames and the index are not modelled. A rollback that `git` refuses for other
  reasons than content is not modelled.
- In `UpdateCycle` what a gate does to the worktree and to the campaign state in
  memory is one step: nothing but a kill can come between, and it leaves what a
  kill before `SaveState` leaves.
- In `WorkerContext` the size of the tool schemas, a constant share of each request, is
  left out, and what the recovery functions say is a number of prompts.
- `CompletionGates` leaves out what cannot end a run: the counters, prompts and
  checkpoints that steer the model, and the gates with rules of their own (size
  caps, the generated-solver probe, `single_file`, Core War, missing artifacts).
  `verification_command` is empty for every caller in the repository, so the final
  command is not modelled. A preflight that times out is a failure without focus.
- `AgentBridge`: one run of the agent and the beginning of the next; no output behind
  `final`, no descendant that holds stdout open, no wrapper between thread and
  worker; a request larger than the frame limit is a `fatal` event. A crash is the
  death of the host process: nothing is synced, and a power loss may take anything.
- Most of `main.rs` (47,478 lines, and an identical copy under `bench/resources`) is
  outside the map: its second half is tests, and most of the first is text
  patterns that classify commands, paths and outputs, and the wording of prompts.
  The models see their results as choices. That is why the mapped share of the
  Rust source is small although its control flow is modelled.
- `ProcessSupervisor`: process ids grow and are not reused, so the check of the start
  time is not modelled; zombies of other parents than the supervisor tell it nothing
  and are left out; a signal reaches all it is meant for in one step, and the readings
  of one such step fail together, as one failure. Only Linux, and
  only the supervised path; what is printed, and what becomes of the processes that
  outlive the supervisor, is left out.
- The rate-limit handling of the campaign (`_maybe_reduce_round_task_concurrency`)
  records what it saw and changes nothing.
- The goal store and the retry delays are not modelled, for the reasons in
  `PROJECT.json`.
- Everything listed `not_modelled` in `PROJECT.json`.

## Plan

A module is checked before it is proved about, and helpers are written without
RECURSIVE so that they can be.

1. `Publication`, `ConditionalFile`, `SubmitGate`, `UpdateCycle`, `IterationTasks`:
   done, their safety and the refinement are proved.
2. `CompletionGates`, `AgentBridge`, `ToolResultArchive`, `WorkerUsage`: done, their
   safety is proved.
3. `CampaignRotation`, `WorkerContext`, `ProcessSupervisor`: done, their safety is
   proved.

Modelling that is left: task slices without rotation, the goal store. Theorems worth
proving next: what a checkpoint of `IterationTasks` promises `CampaignRotation`, whose
iterations are one step per task; and that the refinement of `ConditionalFile` holds,
with foreign programs, for every writer whose target they leave alone.

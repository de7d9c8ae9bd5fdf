--------------------------- MODULE IterationTasks ---------------------------
(***************************************************************************)
(* The tasks of one iteration: HLLoop._run_iteration_tasks (hl/loop.py)    *)
(* runs them in a thread pool and records each trial as it ends, in the    *)
(* files of hl/memory.py and, through the hooks of                         *)
(* scripts/run_campaign.py, in the campaign checkpoint.  The main thread   *)
(* may be interrupted or fail between any two steps and the process may be *)
(* killed; a resumed campaign runs what its checkpoint does not name.      *)
(***************************************************************************)
EXTENDS Naturals, FiniteSets

CONSTANTS
  NTasks,      \* length of run_specs in the first life of the process
  Workers,     \* task_concurrency
  MaxFaults,   \* bound on interrupts, I/O errors and jobs that raise
  MaxRestarts  \* bound on resumes

ASSUME IterationAssumption ==
  /\ NTasks \in Nat \ {0} /\ Workers \in Nat \ {0}
  /\ MaxFaults \in Nat /\ MaxRestarts \in Nat

\* Tasks are numbered in the order of run_specs.
Tasks == 1 .. NTasks

VARIABLES
  pc,         \* the step of the main thread
  outcome,    \* how run_iteration ends, or that drain_all_futures is running
  life,       \* number of resumes; a trial is a task and the life that ran it
  serial,     \* run_specs has one task, or the concurrency is one
  todo,       \* run_specs[next_index:]
  job,        \* what became of agent_runner.run for each task in this life
  futures,    \* the tasks of the dictionary futures
  done,       \* what is left of the set wait returned
  current,    \* the task being recorded
  torn,       \* trials whose result.json was opened but not written
  readable,   \* trials with a complete result.json
  whole,      \* trials with all their files
  counted,    \* the share of each task in system.trial_count in this life
  completed,  \* campaign_state["completed"]
  saved,      \* the same in the checkpoint file
  truncated,  \* whether the checkpoint file was opened but not written since
  named,      \* history: every entry that the checkpoint file has ever had
  faults      \* history: the number of faults

memory == <<torn, readable, whole>>
checkpoint == <<saved, truncated, named>>
pool == <<serial, todo, job, futures, done>>
vars == <<pc, outcome, life, pool, current, memory, counted, completed,
          checkpoint, faults>>

Trial(t) == <<t, life>>
Recorded(t, entries) == \E k \in 0 .. life : <<t, k>> \in entries

Ended == {"returned", "raised"}
Steps == {"down", "load", "prepare", "submit", "wait", "take", "drain", "open",
          "result", "rest", "hook", "checkpoint", "count", "audit", "leave",
          "ended"}
Outcomes == {"none", "draining", "drained", "interrupted", "raised",
             "unreadable", "returned"}

TypeOK ==
  /\ pc \in Steps /\ outcome \in Outcomes
  /\ life \in Nat /\ serial \in BOOLEAN
  /\ todo \subseteq Tasks /\ futures \subseteq Tasks /\ done \subseteq Tasks
  /\ job \in [Tasks -> {"none", "running"} \cup Ended]
  /\ current \in Tasks
  /\ torn \subseteq Tasks \X Nat /\ readable \subseteq Tasks \X Nat
  /\ whole \subseteq Tasks \X Nat
  /\ counted \in [Tasks -> Nat]
  /\ completed \subseteq Tasks \X Nat /\ saved \subseteq Tasks \X Nat
  /\ named \subseteq Tasks \X Nat /\ truncated \in BOOLEAN /\ faults \in Nat

Idle == [t \in Tasks |-> "none"]
Zero == [t \in Tasks |-> 0]

\* A new campaign: the checkpoint is there and names nothing.
Init ==
  /\ pc = "down" /\ outcome = "none" /\ life = 0 /\ serial = FALSE
  /\ todo = {} /\ futures = {} /\ done = {} /\ job = Idle /\ current = 1
  /\ torn = {} /\ readable = {} /\ whole = {} /\ counted = Zero
  /\ completed = {} /\ saved = {} /\ truncated = FALSE /\ named = {}
  /\ faults = 0

-----------------------------------------------------------------------------
(* Start of the process and of the iteration. *)

\* Mutant: a checkpoint that was cut is taken for a new one.
LoadCutAsNew ==
  /\ pc = "down"
  /\ pc' = "load" /\ outcome' = "none"
  /\ completed' = saved \cap (readable \cup torn)
  /\ todo' = {t \in Tasks : ~ Recorded(t, completed')}
  /\ UNCHANGED <<life, serial, job, futures, done, current, memory, counted,
                 checkpoint, faults>>

\* A checkpoint that does not parse ends the process (parser.error); entries
\* whose result.json is missing are dropped.
Load ==
  /\ pc = "down"
  /\ IF truncated
     THEN /\ pc' = "ended" /\ outcome' = "unreadable"
          /\ UNCHANGED <<todo, completed>>
     ELSE /\ pc' = "load" /\ outcome' = "none"
          /\ completed' = saved \cap (readable \cup torn)
          /\ todo' = {t \in Tasks : ~ Recorded(t, completed')}
  /\ UNCHANGED <<life, serial, job, futures, done, current, memory, counted,
                 checkpoint, faults>>

\* The contexts are built from the earlier trials of each task; one that does
\* not parse raises.  A batch with nothing left is over.
Prepare ==
  /\ pc = "prepare"
  /\ IF \E t \in todo : Recorded(t, torn)
     THEN pc' = "leave" /\ outcome' = "unreadable"
     ELSE IF todo = {} THEN pc' = "leave" /\ outcome' = "returned"
          ELSE pc' = "submit" /\ UNCHANGED outcome
  /\ serial' = (Workers = 1 \/ Cardinality(todo) = 1)
  /\ UNCHANGED <<life, todo, job, futures, done, current, memory, counted,
                 completed, checkpoint, faults>>

-----------------------------------------------------------------------------
(* The pool. *)

IsNext(t, S) == t \in S /\ \A s \in S : t <= s

\* submit_next, until the pool is full or every task was submitted.
Submit ==
  /\ pc = "submit" /\ ~ serial /\ Cardinality(futures) < Workers
  /\ \E t \in todo :
       /\ IsNext(t, todo)
       /\ todo' = todo \ {t}
       /\ futures' = futures \cup {t}
       /\ job' = [job EXCEPT ![t] = "running"]
  /\ UNCHANGED <<pc, outcome, life, serial, done, current, memory, counted,
                 completed, checkpoint, faults>>

\* Nothing more to submit: wait, or return when no future is left.
Submitted ==
  /\ pc = "submit" /\ ~ serial
  /\ todo = {} \/ Cardinality(futures) >= Workers
  /\ IF futures = {} THEN pc' = "leave" /\ outcome' = "returned"
                     ELSE pc' = "wait" /\ UNCHANGED outcome
  /\ UNCHANGED <<life, pool, current, memory, counted, completed, checkpoint,
                 faults>>

Done == {t \in futures : job[t] \in Ended}

\* wait(futures, return_when=FIRST_COMPLETED)
Wake ==
  /\ pc = "wait" /\ Done # {}
  /\ done' = Done /\ pc' = "take"
  /\ UNCHANGED <<outcome, life, serial, todo, job, futures, current, memory,
                 counted, completed, checkpoint, faults>>

\* Mutant: a future that is recorded but not popped.
TakeKept ==
  /\ pc = "take"
  /\ \E t \in done :
       /\ done' = done \ {t}
       /\ IF job[t] = "raised"
          THEN pc' = "leave" /\ outcome' = "raised" /\ UNCHANGED current
          ELSE /\ pc' = IF counted[t] = 0 THEN "open" ELSE "take"
               /\ current' = t /\ UNCHANGED outcome
  /\ UNCHANGED <<life, serial, todo, job, futures, memory, counted, completed,
                 checkpoint, faults>>

\* One future of the set: its exception is raised, its trial recorded.
Take ==
  /\ pc = "take"
  /\ \E t \in done :
       /\ done' = done \ {t}
       /\ futures' = futures \ {t}
       /\ IF job[t] = "raised"
          THEN pc' = "leave" /\ outcome' = "raised" /\ UNCHANGED current
          ELSE pc' = "open" /\ current' = t /\ UNCHANGED outcome
  /\ UNCHANGED <<life, serial, todo, job, memory, counted, completed, checkpoint,
                 faults>>

Taken ==
  /\ pc = "take" /\ done = {} /\ pc' = "submit"
  /\ UNCHANGED <<outcome, life, pool, current, memory, counted, completed,
                 checkpoint, faults>>

\* Mutant: the drain of the futures that are done (drain_completed_futures).
DrainCompleted ==
  /\ pc = "drain"
  /\ \E t \in futures :
       /\ IsNext(t, futures)
       /\ futures' = futures \ {t}
       /\ IF job[t] # "returned" THEN UNCHANGED <<pc, current>>
                                 ELSE pc' = "open" /\ current' = t
  /\ UNCHANGED <<outcome, life, serial, todo, job, done, memory, counted,
                 completed, checkpoint, faults>>

\* drain_all_futures: in the order of submission, waiting for each future and
\* suppressing its exception.
Drain ==
  /\ pc = "drain"
  /\ \E t \in futures :
       /\ IsNext(t, futures) /\ job[t] \in Ended
       /\ futures' = futures \ {t}
       /\ IF job[t] = "raised" THEN UNCHANGED <<pc, current>>
                               ELSE pc' = "open" /\ current' = t
  /\ UNCHANGED <<outcome, life, serial, todo, job, done, memory, counted,
                 completed, checkpoint, faults>>

Drained ==
  /\ pc = "drain" /\ futures = {}
  /\ pc' = "leave" /\ outcome' = "drained"
  /\ UNCHANGED <<life, pool, current, memory, counted, completed, checkpoint,
                 faults>>

\* The executor waits for its threads when the block is left.
Leave ==
  /\ pc = "leave" /\ \A t \in Tasks : job[t] # "running"
  /\ pc' = "ended"
  /\ UNCHANGED <<outcome, life, pool, current, memory, counted, completed,
                 checkpoint, faults>>

\* Without a pool, agent_runner.run is called by the main thread.
RunInline ==
  /\ pc = "submit" /\ serial
  /\ \E t \in todo :
       /\ IsNext(t, todo)
       /\ todo' = todo \ {t} /\ current' = t
       /\ job' = [job EXCEPT ![t] = "returned"]
  /\ pc' = "open"
  /\ UNCHANGED <<outcome, life, serial, futures, done, memory, counted, completed,
                 checkpoint, faults>>

RunInlineReturns ==
  /\ pc = "submit" /\ serial /\ todo = {}
  /\ pc' = "leave" /\ outcome' = "returned"
  /\ UNCHANGED <<life, pool, current, memory, counted, completed, checkpoint,
                 faults>>

-----------------------------------------------------------------------------
(* _record_iteration_trial *)

\* result.json is created or truncated, then written; the other files follow.
OpenResult ==
  /\ pc = "open" /\ pc' = "result"
  /\ torn' = torn \cup {Trial(current)}
  /\ UNCHANGED <<outcome, life, pool, current, readable, whole, counted, completed,
                 checkpoint, faults>>

\* Mutant: the hook runs before the other files are written.
WriteResultLast ==
  /\ pc = "result" /\ pc' = "hook"
  /\ torn' = torn \ {Trial(current)}
  /\ readable' = readable \cup {Trial(current)}
  /\ UNCHANGED <<outcome, life, pool, current, whole, counted, completed,
                 checkpoint, faults>>


WriteResult ==
  /\ pc = "result" /\ pc' = "rest"
  /\ torn' = torn \ {Trial(current)}
  /\ readable' = readable \cup {Trial(current)}
  /\ UNCHANGED <<outcome, life, pool, current, whole, counted, completed,
                 checkpoint, faults>>

WriteRest ==
  /\ pc = "rest" /\ pc' = "hook"
  /\ whole' = whole \cup {Trial(current)}
  /\ UNCHANGED <<outcome, life, pool, current, torn, readable, counted, completed,
                 checkpoint, faults>>

\* on_trial_recorded appends the entry unless its trial is already there.
Hook ==
  /\ pc = "hook" /\ pc' = "checkpoint"
  /\ completed' = completed \cup {Trial(current)}
  /\ UNCHANGED <<outcome, life, pool, current, memory, counted, checkpoint, faults>>

\* Path.write_text: at the start, in on_trial_recorded and in stop_after_trial.
\* The file is emptied and then written in place.
OpenCheckpoint ==
  /\ pc \in {"load", "checkpoint", "audit"} /\ ~ truncated
  /\ truncated' = TRUE /\ saved' = {}
  /\ UNCHANGED <<pc, outcome, life, pool, current, memory, counted, completed,
                 named, faults>>

\* Mutant: an interrupt that is drained but not raised.
AfterRecordSwallowed == IF serial THEN "submit" ELSE "take"


AfterRecord ==
  CASE outcome = "draining" -> "drain"
    [] outcome # "draining" /\ serial -> "submit"
    [] OTHER -> "take"

WriteCheckpoint ==
  /\ pc \in {"load", "checkpoint", "audit"} /\ truncated
  /\ truncated' = FALSE /\ saved' = completed /\ named' = named \cup completed
  /\ pc' = CASE pc = "load" -> "prepare"
             [] pc = "checkpoint" -> "count"
             [] pc = "audit" -> AfterRecord
  /\ UNCHANGED <<outcome, life, pool, current, memory, counted, completed, faults>>

Count ==
  /\ pc = "count" /\ pc' = "audit"
  /\ counted' = [counted EXCEPT ![current] = @ + 1]
  /\ UNCHANGED <<outcome, life, pool, current, memory, completed, checkpoint,
                 faults>>

Main ==
  \/ Load \/ Prepare
  \/ Submit \/ Submitted \/ Wake \/ Take \/ Taken \/ Drain \/ Drained \/ Leave
  \/ RunInline \/ RunInlineReturns
  \/ OpenResult \/ WriteResult \/ WriteRest \/ Hook
  \/ OpenCheckpoint \/ WriteCheckpoint \/ Count

-----------------------------------------------------------------------------
(* Jobs and faults. *)

Finish(t) ==
  /\ job[t] = "running"
  /\ job' = [job EXCEPT ![t] = "returned"]
  /\ UNCHANGED <<pc, outcome, life, serial, todo, futures, done, current, memory,
                 counted, completed, checkpoint, faults>>

Fault == faults < MaxFaults /\ faults' = faults + 1

\* agent_runner.run raises.
JobRaises(t) ==
  /\ Fault /\ job[t] = "running"
  /\ job' = [job EXCEPT ![t] = "raised"]
  /\ UNCHANGED <<pc, outcome, life, serial, todo, futures, done, current, memory,
                 counted, completed, checkpoint>>

\* An interrupt in wait, the only place that drains.
InterruptWait ==
  /\ Fault /\ pc = "wait"
  /\ pc' = "drain" /\ outcome' = "draining"
  /\ UNCHANGED <<life, pool, current, memory, counted, completed, checkpoint>>

\* An interrupt or an error anywhere else, also in a job run inline.
Interrupt ==
  /\ Fault /\ pc \in Steps \ {"down", "wait", "leave", "ended"}
  /\ pc' = "leave" /\ outcome' \in {"interrupted", "raised"}
  /\ UNCHANGED <<life, pool, current, memory, counted, completed, checkpoint>>

\* The process was killed or has ended, and is started again with --resume.
Restart ==
  /\ pc # "down" /\ life < MaxRestarts
  /\ pc' = "down" /\ outcome' = "none" /\ life' = life + 1 /\ serial' = FALSE
  /\ todo' = {} /\ job' = Idle /\ futures' = {} /\ done' = {}
  /\ current' = 1 /\ counted' = Zero /\ completed' = {}
  /\ UNCHANGED <<memory, checkpoint, faults>>

Next ==
  \/ Main
  \/ \E t \in Tasks : Finish(t) \/ JobRaises(t)
  \/ InterruptWait \/ Interrupt \/ Restart

Spec == Init /\ [][Next]_vars

\* The main thread and the jobs run; nobody has to resume a campaign.
Fairness ==
  /\ WF_vars(Main /\ pc # "down")
  /\ \A t \in Tasks : WF_vars(Finish(t))

FairSpec == Spec /\ Fairness

-----------------------------------------------------------------------------
(* The invariant. *)

Recording == {"open", "result", "rest", "hook", "checkpoint", "count", "audit"}
Iterating == Recording \cup {"prepare", "submit", "wait", "take", "drain"}
Uncounted == Recording \ {"audit"}

\* Which outcomes go with which steps, and when the checkpoint may be cut.
OutcomeFits ==
  /\ pc \in {"down", "load", "prepare", "submit", "wait", "take"} => outcome = "none"
  /\ pc = "drain" => outcome = "draining"
  /\ pc \in Recording => outcome \in {"none", "draining"}
  /\ pc \in {"leave", "ended"} => outcome \notin {"none", "draining"}
  /\ truncated => pc \in {"down", "load", "checkpoint", "audit", "leave", "ended"}
  /\ outcome \in {"drained", "returned"} => ~ truncated
  /\ serial => pc \notin {"wait", "take", "drain"} /\ outcome # "draining"

\* A checkpoint that is not cut has every entry there ever was.  An entry is a
\* whole trial, of this life or an earlier one, and no task has two.
EntriesFit ==
  /\ saved = IF truncated THEN {} ELSE named
  /\ whole \subseteq readable
  /\ readable \cup torn \subseteq Tasks \X (0 .. life)
  /\ named \subseteq whole /\ completed \subseteq whole
  /\ \A e, f \in named : e[1] = f[1] => e = f
  /\ \A e, f \in completed : e[1] = f[1] => e = f
  /\ pc \in {"load"} \cup Iterating => named \subseteq completed

\* A task to be run, or run in this life, has no entry of an earlier one.
TasksFit ==
  /\ \A t \in Tasks : t \in todo \/ job[t] # "none" =>
       \A k \in 0 .. life : <<t, k>> \in completed => k = life
  /\ \A t \in todo : job[t] = "none"
  /\ \A t \in futures : job[t] # "none"
  /\ done \subseteq futures /\ \A t \in done : job[t] \in Ended
  /\ pc \in {"submit", "wait", "drain"} \/ outcome = "draining" => done = {}
  /\ serial => futures = {}
  /\ pc \in {"down", "load", "prepare"} => job = Idle /\ futures = {} /\ counted = Zero
  /\ \A t \in Tasks : (job[t] = "none" \/ t \in futures) => counted[t] = 0
  /\ \A t \in Tasks :
       (job[t] = "none" \/ t \in futures) => Trial(t) \notin readable \cup torn

\* How far the recording of the current task is.
RecordFits ==
  pc \in Recording =>
    /\ job[current] = "returned" /\ current \notin futures
    /\ pc \in Uncounted => counted[current] = 0
    /\ pc \in {"rest"} => Trial(current) \in readable
    /\ pc \in {"hook"} => Trial(current) \in whole
    /\ pc \in {"checkpoint", "count", "audit"} => Trial(current) \in completed
    /\ pc \in {"count", "audit"} => Trial(current) \in named
    /\ pc = "audit" => counted[current] = 1

Kept(t) == Trial(t) \in named /\ counted[t] = 1

\* Until the iteration fails, whatever returned is in the pool, being recorded or
\* recorded; and no task is forgotten.
NothingIsLost ==
  /\ outcome \in {"none", "draining", "drained", "returned"} =>
       \A t \in Tasks : job[t] = "returned" =>
         t \in futures \/ (t = current /\ pc \in Recording) \/ Kept(t)
  /\ outcome = "drained" => futures = {}
  /\ outcome = "returned" => futures = {} /\ todo = {}
  /\ outcome \in {"none", "draining", "drained", "returned"} =>
       \A t \in Tasks : job[t] = "running" => t \in futures
  /\ outcome \in {"none", "returned"} =>
       \A t \in Tasks : job[t] = "raised" => t \in futures
  /\ pc = "load" => \A t \in Tasks : t \in todo \/ Recorded(t, completed)
  /\ pc \in Iterating \/ outcome = "returned" =>
       \A t \in Tasks : t \in todo \/ job[t] # "none" \/ Recorded(t, named)

\* The inductive invariant of the iteration.
Inv ==
  /\ TypeOK
  /\ OutcomeFits
  /\ EntriesFit
  /\ TasksFit
  /\ RecordFits
  /\ NothingIsLost

-----------------------------------------------------------------------------
(* Properties *)

\* Every trial the checkpoint names has all its files, so that a resumed
\* campaign can read it (record_trial before on_trial_recorded).
CheckpointNamesWholeTrials == saved \subseteq whole

\* "--resume: ... skipping tasks already recorded in its checkpoint": however
\* often the campaign is killed and resumed, no task is recorded twice.
OneTrialPerTask == \A e, f \in saved : e[1] = f[1] => e = f

\* Whenever the checkpoint can be read it names every trial that it has ever
\* named, with all its files: interrupts, errors, kills and resumes take nothing
\* out of it.  A kill or an error between the opening and the writing of the file
\* hides all of it, and for good: no later process starts over behind it.
RecordedStaysRecorded == (truncated \/ named \subseteq saved) /\ named \subseteq whole

\* An iteration that returns has recorded every task, in a checkpoint that can
\* be read, and counted once each trial it ran.
ReturnedIterationIsRecorded ==
  outcome = "returned" =>
    /\ ~ truncated
    /\ \A t \in Tasks :
         /\ Recorded(t, saved)
         /\ counted[t] = IF Trial(t) \in saved THEN 1 ELSE 0

\* When the wait is interrupted and the drain gets to its end, every job that
\* returned, also after the interrupt, is in the checkpoint.
InterruptKeepsEvidence ==
  outcome = "drained" =>
    /\ ~ truncated
    /\ \A t \in Tasks : job[t] = "returned" => Trial(t) \in saved

\* An iteration that nobody kills ends, whatever raises or is interrupted, when
\* its jobs do.
IterationEnds == pc = "load" ~> pc \in {"down", "ended"}

\* "Preserve completed task evidence before propagating the interrupt/error"
\* (hl/loop.py:384): the property that _run_iteration_tasks does not have,
\* because only an exception of wait is drained.
EvidenceIsKept ==
  pc = "ended" /\ outcome \in {"drained", "interrupted", "raised"} =>
    \A t \in Tasks : job[t] = "returned" => Trial(t) \in saved

=============================================================================

------------------------ MODULE IterationTasksProofs ------------------------
(***************************************************************************)
(* Inv of IterationTasks is inductive for any number of tasks, workers,    *)
(* faults and resumes, and its safety properties follow.  There is one     *)
(* lemma per action and in it one step per part of Inv.                    *)
(***************************************************************************)
EXTENDS IterationTasks, FiniteSetTheorems, TLAPS

USE IterationAssumption

\* The name of a trial is a task and the life that ran it.
LEMMA TrialType ==
  ASSUME TypeOK, NEW t \in Tasks
  PROVE  Trial(t) \in Tasks \X Nat
BY DEF TypeOK, Trial

\* A new campaign has nothing recorded and nothing running.
LEMMA InitInv == Init => Inv
<1> SUFFICES ASSUME Init PROVE Inv
  OBVIOUS
<1>1. 1 \in Tasks
  BY DEF Tasks
<1>2. job \in [Tasks -> {"none", "running"} \cup Ended] /\ counted \in [Tasks -> Nat]
  BY DEF Init, Idle, Zero
<1>3. TypeOK
  BY <1>1, <1>2 DEF Init, TypeOK, Steps, Outcomes
<1>4. OutcomeFits /\ RecordFits /\ EntriesFit
  BY DEF Init, OutcomeFits, RecordFits, EntriesFit, Recording, Iterating
<1>5. TasksFit /\ NothingIsLost
  BY DEF Init, TasksFit, NothingIsLost, Idle, Zero, Ended, Iterating, Recording
<1> QED
  BY <1>3, <1>4, <1>5 DEF Inv

\* Load keeps the whole checkpoint: what it names is readable, so nothing is pruned.
LEMMA LoadInv ==
  ASSUME Inv, Load
  PROVE  Inv'
<1>1. TypeOK'
  BY DEF Inv, TypeOK, Steps, Outcomes, memory, checkpoint, Load
<1>2. OutcomeFits'
  BY DEF Inv, OutcomeFits, Recording, Load
<1>3. EntriesFit'
  BY DEF Inv, EntriesFit, Recording, Iterating, memory, checkpoint, Load
<1>4. TasksFit'
  <2>1. CASE truncated
    BY <2>1 DEF Inv, TasksFit, Load, Trial, memory, checkpoint
  <2>2. CASE ~ truncated
    <3>1. /\ pc' = "load" /\ todo' = {t \in Tasks : ~ Recorded(t, completed')}
          /\ UNCHANGED <<life, serial, job, futures, done, counted, readable, torn>>
      BY <2>2 DEF Load, memory
    <3>2. \A t \in Tasks : job[t] = "none" /\ t \notin futures /\ counted[t] = 0
      BY DEF Inv, TasksFit, Load, Idle, Zero
    <3>3. \A t \in todo' : \A k \in 0 .. life : <<t, k>> \notin completed'
      BY <3>1 DEF Recorded
    <3>4. job = Idle /\ futures = {} /\ counted = Zero
      BY DEF Inv, TasksFit, Load
    <3> QED
      BY <3>1, <3>2, <3>3, <3>4 DEF Inv, TasksFit, Trial, TypeOK
  <2> QED
    BY <2>1, <2>2
<1>5. RecordFits'
  BY DEF Inv, RecordFits, Recording, Load
<1>6. NothingIsLost'
  BY DEF Inv, OutcomeFits, TasksFit, NothingIsLost, Recording, Iterating,
    Recorded, Kept, Zero, Load
<1> QED
  BY <1>1, <1>2, <1>3, <1>4, <1>5, <1>6 DEF Inv

\* Prepare only chooses between the end and the two ways to run.
LEMMA PrepareInv ==
  ASSUME Inv, Prepare
  PROVE  Inv'
<1>1. TypeOK'
  BY DEF Inv, TypeOK, Steps, Outcomes, memory, checkpoint, Prepare
<1>2. OutcomeFits'
  BY DEF Inv, OutcomeFits, Recording, checkpoint, Prepare
<1>3. EntriesFit'
  BY DEF Inv, EntriesFit, Iterating, memory, checkpoint, Prepare
<1>4. TasksFit'
  BY DEF Inv, TasksFit, Trial, memory, Prepare
<1>5. RecordFits'
  BY DEF Inv, RecordFits, Recording, Prepare
<1>6. NothingIsLost'
  BY DEF Inv, OutcomeFits, TasksFit, NothingIsLost, Recording, Iterating,
    Recorded, Kept, Zero, checkpoint, Prepare
<1> QED
  BY <1>1, <1>2, <1>3, <1>4, <1>5, <1>6 DEF Inv

\* The submitted task had no job and no entry.
LEMMA SubmitInv ==
  ASSUME Inv, Submit
  PROVE  Inv'
<1>1. TypeOK'
  BY DEF Inv, TypeOK, memory, checkpoint, Submit
<1>2. OutcomeFits'
  BY DEF Inv, OutcomeFits, checkpoint, Submit
<1>3. EntriesFit'
  BY DEF Inv, EntriesFit, memory, checkpoint, Submit
<1>4. TasksFit'
  BY DEF Inv, TypeOK, TasksFit, Trial, memory, Submit
<1>5. RecordFits'
  BY DEF Inv, RecordFits, Recording, Submit
<1>6. NothingIsLost'
  BY DEF Inv, TypeOK, OutcomeFits, NothingIsLost, Trial, Recorded, Kept,
    checkpoint, Submit
<1> QED
  BY <1>1, <1>2, <1>3, <1>4, <1>5, <1>6 DEF Inv

\* An empty pool is not full, so nothing is left to submit when it returns.
LEMMA SubmittedInv ==
  ASSUME Inv, Submitted
  PROVE  Inv'
<1>1. TypeOK'
  BY DEF Inv, TypeOK, Steps, Outcomes, pool, memory, checkpoint, Submitted
<1>2. OutcomeFits'
  BY DEF Inv, OutcomeFits, Recording, pool, checkpoint, Submitted
<1>3. EntriesFit'
  BY DEF Inv, EntriesFit, Iterating, memory, checkpoint, Submitted
<1>4. TasksFit'
  BY DEF Inv, TasksFit, Trial, pool, memory, Submitted
<1>5. RecordFits'
  BY DEF Inv, RecordFits, Recording, Submitted
<1>6. NothingIsLost'
  <2>1. futures = {} => todo = {}
    BY FS_EmptySet DEF Submitted
  <2> QED
    BY <2>1 DEF Inv, NothingIsLost, OutcomeFits, TasksFit, Submitted, Kept, Trial,
                Recorded, Iterating, Recording, Ended, pool, memory, checkpoint, TypeOK
<1> QED
  BY <1>1, <1>2, <1>3, <1>4, <1>5, <1>6 DEF Inv

\* The set wait returns holds futures that ended.
LEMMA WakeInv ==
  ASSUME Inv, Wake
  PROVE  Inv'
<1>1. TypeOK'
  BY DEF Inv, TypeOK, Steps, Done, memory, checkpoint, Wake
<1>2. OutcomeFits'
  BY DEF Inv, OutcomeFits, checkpoint, Wake
<1>3. EntriesFit'
  BY DEF Inv, EntriesFit, Iterating, memory, checkpoint, Wake
<1>4. TasksFit'
  <2>1. outcome = "none" /\ pc' = "take" /\ done' \subseteq futures
    BY DEF Inv, OutcomeFits, Wake, Done
  <2>2. \A t \in done' : job[t] \in Ended
    BY DEF Wake, Done
  <2> QED
    BY <2>1, <2>2 DEF Inv, TasksFit, Wake, Trial, memory
<1>5. RecordFits'
  BY DEF Inv, RecordFits, Recording, Wake
<1>6. NothingIsLost'
  BY DEF Inv, NothingIsLost, Recording, Iterating, Trial, Recorded, Kept,
    checkpoint, Wake
<1> QED
  BY <1>1, <1>2, <1>3, <1>4, <1>5, <1>6 DEF Inv

\* The taken future is recorded next, or its exception ends the iteration.
LEMMA TakeInv ==
  ASSUME Inv, Take
  PROVE  Inv'
<1>1. TypeOK'
  BY DEF Inv, TypeOK, Steps, Outcomes, memory, checkpoint, Take
<1>2. OutcomeFits'
  BY DEF Inv, OutcomeFits, Recording, checkpoint, Take
<1>3. EntriesFit'
  BY DEF Inv, EntriesFit, Iterating, memory, checkpoint, Take
<1>4. TasksFit'
  BY DEF Inv, TasksFit, Trial, memory, Take
<1>5. RecordFits'
  BY DEF Inv, TypeOK, TasksFit, RecordFits, Recording, Ended, Take
<1>6. NothingIsLost'
  BY DEF Inv, TasksFit, NothingIsLost, Recording, Iterating, Ended, Trial,
    Recorded, Kept, checkpoint, Take
<1> QED
  BY <1>1, <1>2, <1>3, <1>4, <1>5, <1>6 DEF Inv

\* Back to the pool with an empty set.
LEMMA TakenInv ==
  ASSUME Inv, Taken
  PROVE  Inv'
<1>1. TypeOK'
  BY DEF Inv, TypeOK, Steps, pool, memory, checkpoint, Taken
<1>2. OutcomeFits'
  BY DEF Inv, OutcomeFits, checkpoint, Taken
<1>3. EntriesFit'
  BY DEF Inv, EntriesFit, Iterating, memory, checkpoint, Taken
<1>4. TasksFit'
  BY DEF Inv, TasksFit, Trial, pool, memory, Taken
<1>5. RecordFits'
  BY DEF Inv, RecordFits, Recording, Taken
<1>6. NothingIsLost'
  BY DEF Inv, NothingIsLost, Recording, Iterating, Trial, Recorded, Kept, pool,
    checkpoint, Taken
<1> QED
  BY <1>1, <1>2, <1>3, <1>4, <1>5, <1>6 DEF Inv

\* A drained future is recorded next; one that raised is dropped.
LEMMA DrainInv ==
  ASSUME Inv, Drain
  PROVE  Inv'
<1>1. TypeOK'
  BY DEF Inv, TypeOK, Steps, memory, checkpoint, Drain
<1>2. OutcomeFits'
  BY DEF Inv, OutcomeFits, checkpoint, Drain
<1>3. EntriesFit'
  BY DEF Inv, EntriesFit, Iterating, memory, checkpoint, Drain
<1>4. TasksFit'
  <2>1. PICK t \in futures : futures' = futures \ {t}
    BY DEF Drain
  <2>2. UNCHANGED <<life, serial, todo, job, done, counted, completed, readable, torn>>
    BY DEF Drain, memory
  <2>3. pc' \in {"drain", "open"}
    BY DEF Drain
  <2>4. done = {}
    BY DEF Inv, TasksFit, Drain
  <2> QED
    BY <2>1, <2>2, <2>3, <2>4 DEF Inv, TasksFit, Trial, TypeOK
<1>5. RecordFits'
  BY DEF Inv, TypeOK, TasksFit, RecordFits, Ended, Drain
<1>6. NothingIsLost'
  BY DEF Inv, OutcomeFits, NothingIsLost, Recording, Iterating, Ended, Trial,
    Recorded, Kept, checkpoint, Drain
<1> QED
  BY <1>1, <1>2, <1>3, <1>4, <1>5, <1>6 DEF Inv

\* No future is left, so every job that returned is in the checkpoint.
LEMMA DrainedInv ==
  ASSUME Inv, Drained
  PROVE  Inv'
<1>1. TypeOK'
  BY DEF Inv, TypeOK, Steps, Outcomes, pool, memory, checkpoint, Drained
<1>2. OutcomeFits'
  BY DEF Inv, OutcomeFits, Recording, checkpoint, Drained
<1>3. EntriesFit'
  BY DEF Inv, EntriesFit, Iterating, memory, checkpoint, Drained
<1>4. TasksFit'
  BY DEF Inv, TasksFit, Trial, pool, memory, Drained
<1>5. RecordFits'
  BY DEF Inv, RecordFits, Recording, Drained
<1>6. NothingIsLost'
  BY DEF Inv, OutcomeFits, NothingIsLost, Recording, Iterating, Trial, Kept,
    pool, checkpoint, Drained
<1> QED
  BY <1>1, <1>2, <1>3, <1>4, <1>5, <1>6 DEF Inv

\* Nothing changes but the step.
LEMMA LeaveInv ==
  ASSUME Inv, Leave
  PROVE  Inv'
<1>1. TypeOK'
  BY DEF Inv, TypeOK, Steps, pool, memory, checkpoint, Leave
<1>2. OutcomeFits'
  BY DEF Inv, OutcomeFits, Recording, checkpoint, Leave
<1>3. EntriesFit'
  BY DEF Inv, EntriesFit, Recording, Iterating, memory, checkpoint, Leave
<1>4. TasksFit'
  BY DEF Inv, TasksFit, Trial, pool, memory, Leave
<1>5. RecordFits'
  BY DEF Inv, RecordFits, Recording, Leave
<1>6. NothingIsLost'
  BY DEF Inv, NothingIsLost, Recording, Iterating, Trial, Recorded, Kept, pool,
    checkpoint, Leave
<1> QED
  BY <1>1, <1>2, <1>3, <1>4, <1>5, <1>6 DEF Inv

\* Without a pool the job has returned when the step is over.
LEMMA RunInlineInv ==
  ASSUME Inv, RunInline
  PROVE  Inv'
<1>1. TypeOK'
  BY DEF Inv, TypeOK, Steps, Ended, memory, checkpoint, RunInline
<1>2. OutcomeFits'
  BY DEF Inv, OutcomeFits, checkpoint, RunInline
<1>3. EntriesFit'
  BY DEF Inv, EntriesFit, Iterating, memory, checkpoint, RunInline
<1>4. TasksFit'
  BY DEF Inv, TasksFit, Trial, memory, RunInline
<1>5. RecordFits'
  BY DEF Inv, TypeOK, TasksFit, RecordFits, RunInline
<1>6. NothingIsLost'
  BY DEF Inv, TypeOK, NothingIsLost, Recording, Iterating, Trial, Recorded,
    Kept, checkpoint, RunInline
<1> QED
  BY <1>1, <1>2, <1>3, <1>4, <1>5, <1>6 DEF Inv

\* Without a pool nothing is in flight when no task is left.
LEMMA RunInlineReturnsInv ==
  ASSUME Inv, RunInlineReturns
  PROVE  Inv'
<1>1. TypeOK'
  BY DEF Inv, TypeOK, Steps, Outcomes, pool, memory, checkpoint,
    RunInlineReturns
<1>2. OutcomeFits'
  BY DEF Inv, OutcomeFits, Recording, checkpoint, RunInlineReturns
<1>3. EntriesFit'
  BY DEF Inv, EntriesFit, Iterating, memory, checkpoint, RunInlineReturns
<1>4. TasksFit'
  BY DEF Inv, TasksFit, Trial, pool, memory, RunInlineReturns
<1>5. RecordFits'
  BY DEF Inv, RecordFits, Recording, RunInlineReturns
<1>6. NothingIsLost'
  BY DEF Inv, OutcomeFits, TasksFit, NothingIsLost, Recording, Iterating,
    Trial, Recorded, Kept, pool, checkpoint, RunInlineReturns
<1> QED
  BY <1>1, <1>2, <1>3, <1>4, <1>5, <1>6 DEF Inv

\* The trial is new: no file of this life has its name.
LEMMA OpenResultInv ==
  ASSUME Inv, OpenResult
  PROVE  Inv'
<1>1. TypeOK'
  BY TrialType DEF Inv, TypeOK, OpenResult, Steps, pool, checkpoint
<1>2. OutcomeFits'
  BY DEF Inv, OutcomeFits, Recording, pool, checkpoint, OpenResult
<1>3. EntriesFit'
  BY DEF Inv, TypeOK, EntriesFit, Recording, Iterating, Trial, checkpoint,
    OpenResult
<1>4. TasksFit'
  <2>1. \A t \in Tasks : job[t] = "none" \/ t \in futures => Trial(t) # Trial(current)
    BY DEF Inv, RecordFits, Recording, OpenResult, Trial
  <2> QED
    BY <2>1 DEF Inv, TypeOK, TasksFit, OpenResult, Trial, pool, checkpoint
<1>5. RecordFits'
  BY DEF Inv, RecordFits, Recording, Uncounted, pool, OpenResult
<1>6. NothingIsLost'
  BY DEF Inv, NothingIsLost, Recording, Iterating, Trial, Recorded, Kept, pool,
    checkpoint, OpenResult
<1> QED
  BY <1>1, <1>2, <1>3, <1>4, <1>5, <1>6 DEF Inv

\* The torn result becomes readable.
LEMMA WriteResultInv ==
  ASSUME Inv, WriteResult
  PROVE  Inv'
<1>1. TypeOK'
  BY TrialType DEF Inv, TypeOK, WriteResult, Steps, pool, checkpoint
<1>2. OutcomeFits'
  BY DEF Inv, OutcomeFits, Recording, pool, checkpoint, WriteResult
<1>3. EntriesFit'
  BY DEF Inv, TypeOK, EntriesFit, Recording, Iterating, Trial, checkpoint,
    WriteResult
<1>4. TasksFit'
  <2>1. \A t \in Tasks : job[t] = "none" \/ t \in futures => Trial(t) # Trial(current)
    BY DEF Inv, RecordFits, Recording, WriteResult, Trial
  <2> QED
    BY <2>1 DEF Inv, TypeOK, TasksFit, WriteResult, Trial, pool, checkpoint
<1>5. RecordFits'
  BY DEF Inv, RecordFits, Recording, Uncounted, Trial, pool, WriteResult
<1>6. NothingIsLost'
  BY DEF Inv, NothingIsLost, Recording, Iterating, Trial, Recorded, Kept, pool,
    checkpoint, WriteResult
<1> QED
  BY <1>1, <1>2, <1>3, <1>4, <1>5, <1>6 DEF Inv

\* The readable trial becomes whole.
LEMMA WriteRestInv ==
  ASSUME Inv, WriteRest
  PROVE  Inv'
<1>1. TypeOK'
  BY DEF Inv, TypeOK, Steps, Trial, pool, checkpoint, WriteRest
<1>2. OutcomeFits'
  BY DEF Inv, OutcomeFits, Recording, pool, checkpoint, WriteRest
<1>3. EntriesFit'
  BY DEF Inv, EntriesFit, RecordFits, Recording, Iterating, checkpoint,
    WriteRest
<1>4. TasksFit'
  BY DEF Inv, TasksFit, Trial, pool, WriteRest
<1>5. RecordFits'
  BY DEF Inv, RecordFits, Recording, Uncounted, Trial, pool, WriteRest
<1>6. NothingIsLost'
  BY DEF Inv, NothingIsLost, Recording, Iterating, Trial, Recorded, Kept, pool,
    checkpoint, WriteRest
<1> QED
  BY <1>1, <1>2, <1>3, <1>4, <1>5, <1>6 DEF Inv

\* The entry is of this life, and the task has no other.
LEMMA HookInv ==
  ASSUME Inv, Hook
  PROVE  Inv'
<1>1. TypeOK'
  BY TrialType DEF Inv, TypeOK, Hook, Steps, pool, memory, checkpoint
<1>2. OutcomeFits'
  BY DEF Inv, OutcomeFits, Recording, pool, Hook
<1>3. EntriesFit'
  BY DEF Inv, EntriesFit, TasksFit, RecordFits, Recording, Iterating, Trial,
    memory, checkpoint, Hook
<1>4. TasksFit'
  BY DEF Inv, TasksFit, Trial, pool, memory, Hook
<1>5. RecordFits'
  BY DEF Inv, RecordFits, Recording, Uncounted, Trial, pool, Hook
<1>6. NothingIsLost'
  BY DEF Inv, NothingIsLost, Recording, Iterating, Trial, Recorded, Kept, pool,
    checkpoint, Hook
<1> QED
  BY <1>1, <1>2, <1>3, <1>4, <1>5, <1>6 DEF Inv

\* The checkpoint is torn only while it is written.
LEMMA OpenCheckpointInv ==
  ASSUME Inv, OpenCheckpoint
  PROVE  Inv'
<1>1. TypeOK'
  BY DEF Inv, TypeOK, pool, memory, OpenCheckpoint
<1>2. OutcomeFits'
  BY DEF Inv, OutcomeFits, Recording, pool, OpenCheckpoint
<1>3. EntriesFit'
  BY DEF Inv, EntriesFit, memory, OpenCheckpoint
<1>4. TasksFit'
  BY DEF Inv, TasksFit, Trial, pool, memory, OpenCheckpoint
<1>5. RecordFits'
  BY DEF Inv, RecordFits, Trial, pool, OpenCheckpoint
<1>6. NothingIsLost'
  BY DEF Inv, NothingIsLost, Trial, Recorded, Kept, pool, OpenCheckpoint
<1> QED
  BY <1>1, <1>2, <1>3, <1>4, <1>5, <1>6 DEF Inv

\* The file has what the campaign state has, hence all it had before.
LEMMA WriteCheckpointInv ==
  ASSUME Inv, WriteCheckpoint
  PROVE  Inv'
<1>1. TypeOK'
  BY DEF Inv, TypeOK, Steps, AfterRecord, pool, memory, WriteCheckpoint
<1>2. OutcomeFits'
  BY DEF Inv, OutcomeFits, Recording, AfterRecord, pool, WriteCheckpoint
<1>3. EntriesFit'
  <2>1. named' = completed /\ saved' = completed
    BY DEF Inv, EntriesFit, Iterating, Recording, WriteCheckpoint
  <2> QED
    BY <2>1 DEF Inv, EntriesFit, memory, WriteCheckpoint
<1>4. TasksFit'
  BY DEF Inv, TasksFit, Trial, AfterRecord, pool, memory, WriteCheckpoint
<1>5. RecordFits'
  BY DEF Inv, RecordFits, Recording, Uncounted, Trial, AfterRecord, pool,
    WriteCheckpoint
<1>6. NothingIsLost'
  BY DEF Inv, EntriesFit, RecordFits, NothingIsLost, Recording, Iterating,
    Trial, Recorded, Kept, AfterRecord, pool, WriteCheckpoint
<1> QED
  BY <1>1, <1>2, <1>3, <1>4, <1>5, <1>6 DEF Inv

\* The current task was not counted.
LEMMA CountInv ==
  ASSUME Inv, Count
  PROVE  Inv'
<1>1. TypeOK'
  BY DEF Inv, TypeOK, Steps, pool, memory, checkpoint, Count
<1>2. OutcomeFits'
  BY DEF Inv, OutcomeFits, Recording, pool, Count
<1>3. EntriesFit'
  BY DEF Inv, EntriesFit, Recording, Iterating, memory, checkpoint, Count
<1>4. TasksFit'
  BY DEF Inv, TasksFit, RecordFits, Recording, Trial, pool, memory, Count
<1>5. RecordFits'
  BY DEF Inv, TypeOK, RecordFits, Recording, Uncounted, Trial, pool,
    checkpoint, Count
<1>6. NothingIsLost'
  BY DEF Inv, NothingIsLost, Recording, Iterating, Trial, Recorded, Kept, pool,
    checkpoint, Count
<1> QED
  BY <1>1, <1>2, <1>3, <1>4, <1>5, <1>6 DEF Inv

\* When the wait is interrupted, nothing is between the pool and the checkpoint.
LEMMA InterruptWaitInv ==
  ASSUME Inv, InterruptWait
  PROVE  Inv'
<1>1. TypeOK'
  BY DEF Inv, TypeOK, Steps, Outcomes, Fault, pool, memory, checkpoint,
    InterruptWait
<1>2. OutcomeFits'
  BY DEF Inv, OutcomeFits, pool, checkpoint, InterruptWait
<1>3. EntriesFit'
  BY DEF Inv, EntriesFit, Iterating, memory, checkpoint, InterruptWait
<1>4. TasksFit'
  BY DEF Inv, TasksFit, Trial, pool, memory, InterruptWait
<1>5. RecordFits'
  BY DEF Inv, RecordFits, Recording, InterruptWait
<1>6. NothingIsLost'
  BY DEF Inv, OutcomeFits, NothingIsLost, Recording, Iterating, Trial,
    Recorded, Kept, pool, checkpoint, InterruptWait
<1> QED
  BY <1>1, <1>2, <1>3, <1>4, <1>5, <1>6 DEF Inv

\* An iteration that fails promises nothing about its jobs.
LEMMA InterruptInv ==
  ASSUME Inv, Interrupt
  PROVE  Inv'
<1>1. TypeOK'
  BY DEF Inv, TypeOK, Interrupt, Fault, Steps, Outcomes, pool, memory, checkpoint
<1>2. OutcomeFits'
  BY DEF Inv, OutcomeFits, Recording, Interrupt
<1>3. EntriesFit'
  BY DEF Inv, EntriesFit, Recording, Iterating, memory, checkpoint, Interrupt
<1>4. TasksFit'
  BY DEF Inv, TasksFit, Trial, pool, memory, Interrupt
<1>5. RecordFits'
  BY DEF Inv, RecordFits, Recording, Interrupt
<1>6. NothingIsLost'
  BY DEF Inv, NothingIsLost, Recording, Iterating, Interrupt
<1> QED
  BY <1>1, <1>2, <1>3, <1>4, <1>5, <1>6 DEF Inv

\* Every trial is now of an earlier life.
LEMMA RestartInv ==
  ASSUME Inv, Restart
  PROVE  Inv'
<1>1. TypeOK'
  <2>1. current' \in Tasks /\ life' \in Nat
    BY DEF Restart, Tasks, Inv, TypeOK
  <2>2. job' \in [Tasks -> {"none", "running"} \cup Ended] /\ counted' \in [Tasks -> Nat]
    BY DEF Restart, Idle, Zero
  <2>3. UNCHANGED <<torn, readable, whole, saved, truncated, named, faults>>
    BY DEF Restart, memory, checkpoint
  <2>4. /\ pc' = "down" /\ outcome' = "none" /\ serial' = FALSE
        /\ todo' = {} /\ futures' = {} /\ done' = {} /\ completed' = {}
    BY DEF Restart
  <2> QED
    BY <2>1, <2>2, <2>3, <2>4 DEF Inv, TypeOK, Steps, Outcomes
<1>2. OutcomeFits'
  BY DEF Inv, OutcomeFits, Restart
<1>3. EntriesFit'
  BY DEF Inv, TypeOK, EntriesFit, Recording, Iterating, memory, checkpoint,
    Restart
<1>4. TasksFit'
  <2>1. \A t \in Tasks : Trial(t)' \notin readable \cup torn
    BY DEF Inv, EntriesFit, TypeOK, Restart, Trial
  <2> QED
    BY <2>1 DEF Inv, TasksFit, TypeOK, Restart, Idle, Zero, Trial, Ended, memory, checkpoint
<1>5. RecordFits'
  BY DEF Inv, RecordFits, Recording, Restart
<1>6. NothingIsLost'
  BY DEF Inv, NothingIsLost, Recording, Iterating, Idle, Restart
<1> QED
  BY <1>1, <1>2, <1>3, <1>4, <1>5, <1>6 DEF Inv

\* A job that returns is still in the pool, unless the iteration has failed.
LEMMA FinishInv ==
  ASSUME NEW t \in Tasks, Inv, Finish(t)
  PROVE  Inv'
<1>1. TypeOK'
  BY DEF Inv, TypeOK, Ended, memory, checkpoint, Finish
<1>2. OutcomeFits'
  BY DEF Inv, OutcomeFits, checkpoint, Finish
<1>3. EntriesFit'
  BY DEF Inv, EntriesFit, memory, checkpoint, Finish
<1>4. TasksFit'
  BY DEF Inv, TasksFit, Ended, Trial, Idle, memory, Finish
<1>5. RecordFits'
  BY DEF Inv, RecordFits, Trial, memory, checkpoint, Finish
<1>6. NothingIsLost'
  <2>1. \A x \in Tasks : x # t => job'[x] = job[x]
    BY DEF Inv, TypeOK, Finish
  <2>2. job[t] = "running" /\ job'[t] = "returned"
    BY DEF Inv, TypeOK, Finish
  <2>3. UNCHANGED <<pc, outcome, life, todo, futures, current, counted, completed, saved, named>>
    BY DEF Finish, checkpoint
  <2>4. outcome \in {"none", "draining", "drained", "returned"} => t \in futures
    BY <2>2 DEF Inv, NothingIsLost
  <2> QED
    BY <2>1, <2>2, <2>3, <2>4
    DEF Inv, NothingIsLost, Kept, Trial, Recorded, Iterating, Recording
<1> QED
  BY <1>1, <1>2, <1>3, <1>4, <1>5, <1>6 DEF Inv

\* A job that raises is still in the pool, unless the iteration has failed or drains.
LEMMA JobRaisesInv ==
  ASSUME NEW t \in Tasks, Inv, JobRaises(t)
  PROVE  Inv'
<1>1. TypeOK'
  BY DEF Inv, TypeOK, JobRaises, Fault, Ended, memory, checkpoint
<1>2. OutcomeFits'
  BY DEF Inv, OutcomeFits, checkpoint, JobRaises
<1>3. EntriesFit'
  BY DEF Inv, EntriesFit, memory, checkpoint, JobRaises
<1>4. TasksFit'
  BY DEF Inv, TasksFit, Ended, Trial, Idle, memory, JobRaises
<1>5. RecordFits'
  BY DEF Inv, RecordFits, Trial, memory, checkpoint, JobRaises
<1>6. NothingIsLost'
  BY DEF Inv, NothingIsLost, Trial, Recorded, Kept, checkpoint, JobRaises
<1> QED
  BY <1>1, <1>2, <1>3, <1>4, <1>5, <1>6 DEF Inv

\* A stuttering step.
LEMMA StutterInv ==
  ASSUME Inv, UNCHANGED vars
  PROVE  Inv'
<1> USE DEF Inv, vars, pool, memory, checkpoint
<1>1. TypeOK' /\ OutcomeFits' /\ EntriesFit'
  BY DEF TypeOK, OutcomeFits, EntriesFit
<1>2. TasksFit' /\ RecordFits' /\ NothingIsLost'
  BY DEF TasksFit, RecordFits, NothingIsLost, Trial, Recorded, Kept
<1> QED
  BY <1>1, <1>2

\* Every step of the specification preserves the inductive invariant.
LEMMA NextInv ==
  ASSUME Inv, [Next]_vars
  PROVE  Inv'
<1>1. CASE Main
  BY <1>1, LoadInv, PrepareInv, SubmitInv, SubmittedInv, WakeInv, TakeInv, TakenInv,
     DrainInv, DrainedInv, LeaveInv, RunInlineInv, RunInlineReturnsInv, OpenResultInv,
     WriteResultInv, WriteRestInv, HookInv, OpenCheckpointInv, WriteCheckpointInv,
     CountInv DEF Main
<1>2. CASE \E t \in Tasks : Finish(t) \/ JobRaises(t)
  BY <1>2, FinishInv, JobRaisesInv
<1>3. CASE InterruptWait \/ Interrupt \/ Restart
  BY <1>3, InterruptWaitInv, InterruptInv, RestartInv
<1>4. CASE UNCHANGED vars
  BY <1>4, StutterInv
<1> QED
  BY <1>1, <1>2, <1>3, <1>4 DEF Next

\* The inductive invariant of the iteration holds for any number of tasks,
\* workers, faults and resumes (_run_iteration_tasks and its hooks).
THEOREM InvHolds == Spec => []Inv
BY InitInv, NextInv, PTL DEF Spec

\* The checkpoint names whole trials only: record_trial is over before
\* on_trial_recorded writes it.
THEOREM TrialsAreWhole == Spec => []CheckpointNamesWholeTrials
<1>1. Inv => CheckpointNamesWholeTrials
  BY DEF Inv, OutcomeFits, EntriesFit, CheckpointNamesWholeTrials
<1> QED
  BY <1>1, InvHolds, PTL

\* However often the campaign is killed and resumed, no task is recorded twice.
THEOREM NoTaskTwice == Spec => []OneTrialPerTask
<1>1. Inv => OneTrialPerTask
  BY DEF Inv, OutcomeFits, EntriesFit, OneTrialPerTask
<1> QED
  BY <1>1, InvHolds, PTL

\* A checkpoint that can be read names every trial that any checkpoint named, with
\* its files: it is only written from a campaign state that has them all, and no
\* process starts behind one that was cut.
THEOREM EntriesStay == Spec => []RecordedStaysRecorded
<1>1. Inv => RecordedStaysRecorded
  BY DEF Inv, OutcomeFits, EntriesFit, RecordedStaysRecorded
<1> QED
  BY <1>1, InvHolds, PTL

\* An iteration that returns has recorded every task and counted each trial once.
THEOREM ReturnsWithAll == Spec => []ReturnedIterationIsRecorded
<1>1. ASSUME Inv PROVE ReturnedIterationIsRecorded
  <2> DEFINE Fits(t) == /\ Recorded(t, saved)
                        /\ counted[t] = IF Trial(t) \in saved THEN 1 ELSE 0
  <2> SUFFICES ASSUME outcome = "returned"
               PROVE  ~ truncated /\ \A t \in Tasks : Fits(t)
    BY DEF ReturnedIterationIsRecorded
  <2> SUFFICES ASSUME NEW t \in Tasks PROVE ~ truncated /\ Fits(t)
    BY <1>1 DEF Inv, OutcomeFits
  <2>1. /\ ~ truncated /\ saved = named
        /\ pc \notin Recording /\ futures = {} /\ todo = {}
    BY <1>1 DEF Inv, OutcomeFits, EntriesFit, NothingIsLost
  <2>2. job[t] \in {"none", "returned"}
    BY <1>1, <2>1 DEF Inv, NothingIsLost, TypeOK, Ended
  <2>3. CASE job[t] = "none"
    <3>1. counted[t] = 0 /\ Trial(t) \notin saved
      BY <1>1, <2>1, <2>3 DEF Inv, TasksFit, EntriesFit
    <3>2. Recorded(t, saved)
      BY <1>1, <2>1, <2>3 DEF Inv, NothingIsLost
    <3> QED
      BY <2>1, <3>1, <3>2
  <2>4. CASE job[t] = "returned"
    <3>1. Kept(t)
      BY <1>1, <2>1, <2>4 DEF Inv, NothingIsLost
    <3>2. Recorded(t, saved)
      BY <1>1, <2>1, <3>1 DEF Kept, Recorded, Trial, Inv, TypeOK
    <3> QED
      BY <2>1, <3>1, <3>2 DEF Kept
  <2> QED
    BY <2>2, <2>3, <2>4
<1> QED
  BY <1>1, InvHolds, PTL

\* An interrupt of the wait loses no job that returned (drain_all_futures).
THEOREM DrainKeepsEvidence == Spec => []InterruptKeepsEvidence
<1>1. ASSUME Inv PROVE InterruptKeepsEvidence
  BY <1>1 DEF Inv, NothingIsLost, OutcomeFits, EntriesFit, Kept, InterruptKeepsEvidence
<1> QED
  BY <1>1, InvHolds, PTL

=============================================================================

-------------------------- MODULE CampaignRotation --------------------------
(***************************************************************************)
(* Which tasks a campaign runs in which iteration: the rotation of         *)
(* scripts/run_campaign.py chooses a batch per iteration without           *)
(* replacement, HLLoop.run_iteration runs it and records its trials, and a *)
(* resumed campaign goes on from the checkpoint.  The state written to the *)
(* checkpoint is modelled as a whole; how it is written, and how the tasks *)
(* of one iteration interleave, is the subject of IterationTasks.          *)
(***************************************************************************)
EXTENDS Naturals, Sequences, FiniteSets

CONSTANTS
  Tasks,           \* campaign_tasks
  BatchSize,       \* batch_size of the rotation plan
  Cycles,          \* how many orders there are before they repeat
  None,
  MaxIterations,   \* --iterations
  MaxDiagnostics,  \* bound on diagnostic trials
  MaxResumes       \* bound on resumes

NTasks == Cardinality(Tasks)
Permutation == {s \in [1 .. NTasks -> Tasks] : \A i, j \in 1 .. NTasks : s[i] = s[j] => i = j}

VARIABLES
  step,        \* the step of run_campaign
  orders,      \* the shuffle of each cycle, a function of the seed
  state,       \* campaign_state
  checkpoint,  \* what was written of it last
  iteration,   \* loop.iteration
  todo,        \* the tasks of this iteration that did not end yet
  results,     \* the trials of this iteration that go into its summary
  diagnostics, \* history: diagnostic trials so far
  life         \* history: resumes so far

campaignVars == <<step, orders, state, checkpoint, iteration, todo, results, diagnostics, life>>

\* _rotated_task_order
Order(cycle) == orders[cycle % Cycles]

\* A trial names its run; batch is history: the selection its task was run for.
TrialEntry ==
  [task : Tasks, iteration : Nat, life : Nat, diagnostic : BOOLEAN, batch : Nat \X Nat]

\* In the campaign state, picked and selections are history: the last selection
\* of each task and the number of selections; batch and chosen are the last one.
Position == [cycle : Nat, cursor : 0 .. NTasks, order : Permutation]

\* What holds of a plan that is enabled; None stands for absent fields.
ASSUME RotationAssumption ==
  /\ IsFiniteSet(Tasks) /\ Tasks # {}
  /\ BatchSize \in 1 .. NTasks
  /\ Cycles \in Nat \ {0}
  /\ MaxIterations \in Nat /\ MaxDiagnostics \in Nat /\ MaxResumes \in Nat
  /\ None \notin Position

CampaignState ==
  [completed : SUBSET TrialEntry,
   summaries : Seq([iteration : Nat, trials : SUBSET TrialEntry]),
   at : Position, next : Position \cup {None},
   current : SUBSET Tasks, chosen : SUBSET Tasks, batch : Nat \X Nat,
   picked : [Tasks -> Nat], selections : Nat]

CampaignTypeOK ==
  /\ step \in {"down", "top", "run"}
  /\ orders \in [0 .. Cycles - 1 -> Permutation]
  /\ state \in CampaignState /\ checkpoint \in CampaignState
  /\ todo \subseteq state.current /\ state.current \subseteq state.chosen
  /\ results \subseteq state.completed
  /\ iteration \in Nat /\ diagnostics \in Nat /\ life \in Nat

NewState ==
  [completed |-> {}, summaries |-> <<>>,
   at |-> [cycle |-> 0, cursor |-> 0, order |-> Order(0)], next |-> None,
   current |-> {}, chosen |-> {}, batch |-> <<0, 0>>,
   picked |-> [t \in Tasks |-> 0], selections |-> 0]

CampaignInit ==
  /\ orders \in [0 .. Cycles - 1 -> Permutation]
  /\ step = "down" /\ state = NewState /\ checkpoint = NewState
  /\ iteration = 0 /\ todo = {} /\ results = {} /\ diagnostics = 0 /\ life = 0

-----------------------------------------------------------------------------
(* Selection *)

SummarisedTrials(s) == UNION {s.summaries[k].trials : k \in DOMAIN s.summaries}
SummaryIds(s) == {s.summaries[k].iteration : k \in DOMAIN s.summaries}

\* Mutant: every entry on record is progress of the batch.
ActiveCompletedEver(s) == {e.task : e \in s.completed}

\* _current_rotation_completed_task_ids: the tasks of the entries that no
\* summary names.
ActiveCompleted(s) ==
  {e.task : e \in {d \in s.completed :
                     \/ SummarisedTrials(s) # {} /\ d \notin SummarisedTrials(s)
                     \/ d.iteration \notin SummaryIds(s)}}

\* The rest of the order and the next cycle's.
Line(s) == SubSeq(s.at.order, s.at.cursor + 1, NTasks) \o Order(s.at.cycle + 1)
Picks(s, n) == {Line(s)[i] : i \in 1 .. n}

\* How far the line is read until a batch without replacement is together.
Reach(s) ==
  CHOOSE n \in 1 .. Len(Line(s)) :
    Cardinality(Picks(s, n)) = BatchSize /\ Cardinality(Picks(s, n - 1)) < BatchSize

\* The position behind a batch that takes n tasks of the line.
Behind(s, n) ==
  LET tail == NTasks - s.at.cursor
  IN IF n <= tail THEN [s.at EXCEPT !.cursor = @ + n]
     ELSE [cycle |-> s.at.cycle + 1, cursor |-> n - tail, order |-> Order(s.at.cycle + 1)]

Choose(s) ==
  LET picks == Picks(s, Reach(s))
  IN [s EXCEPT !.current = picks, !.next = Behind(s, Reach(s)),
               !.chosen = picks, !.batch = <<s.at.cycle, s.at.cursor>>,
               !.selections = @ + 1,
               !.picked = [t \in Tasks |-> IF t \in picks THEN s.selections + 1 ELSE @[t]]]

\* Mutant: the position behind the batch is dropped.
AdvanceNot(s) == [s EXCEPT !.next = None]

\* _advance_task_rotation
Advance(s) == IF s.next = None THEN s ELSE [s EXCEPT !.at = s.next, !.next = None]

\* Mutant: an unfinished selection is run again as it is.
SelectedAgain(s) ==
  IF s.next # None /\ s.current # {} THEN s ELSE Choose(s)

\* _iteration_tasks: what is left of an unfinished selection, else a new one.
Selected(s) ==
  LET remaining == s.current \ ActiveCompleted(s)
  IN IF s.next = None \/ s.current = {} THEN Choose(s)
     ELSE IF remaining # {} THEN [s EXCEPT !.current = remaining]
     ELSE Choose([Advance(s) EXCEPT !.current = {}])

-----------------------------------------------------------------------------
(* The campaign *)

\* Mutant: the number of an interrupted iteration is passed over.
ResumeIndexSkips(s) ==
  LET ran == {e.iteration : e \in s.completed} \cup {0}
      last == CHOOSE k \in ran : \A l \in ran : l <= k
  IN IF last > Len(s.summaries) THEN last ELSE Len(s.summaries)

\* _resume_loop_iteration_index
ResumeIndex(s) ==
  LET ran == {e.iteration : e \in s.completed} \cup {0}
      last == CHOOSE k \in ran : \A l \in ran : l <= k
  IN IF last > Len(s.summaries) THEN last - 1 ELSE Len(s.summaries)

\* The checkpoint is read, a first selection made and written.
Start ==
  /\ step = "down" /\ step' = "top"
  /\ state' = Selected(checkpoint) /\ checkpoint' = state'
  /\ iteration' = ResumeIndex(checkpoint)
  /\ UNCHANGED <<orders, todo, results, diagnostics, life>>

\* Mutant: the results of the last iteration are kept.
BeginIterationKeeps ==
  /\ step = "top" /\ step' = "run"
  /\ Len(state.summaries) < MaxIterations
  /\ state' = Selected(state)
  /\ todo' = state'.current
  /\ iteration' = iteration + 1
  /\ UNCHANGED <<orders, checkpoint, results, diagnostics, life>>

\* The top of the loop: a second selection, and run_iteration begins.
BeginIteration ==
  /\ step = "top" /\ step' = "run"
  /\ Len(state.summaries) < MaxIterations
  /\ state' = Selected(state)
  /\ todo' = state'.current /\ results' = {}
  /\ iteration' = iteration + 1
  /\ UNCHANGED <<orders, checkpoint, diagnostics, life>>

NewTrial(t, diagnostic) ==
  [task |-> t, iteration |-> iteration, life |-> life, diagnostic |-> diagnostic,
   batch |-> state.batch]

\* A task ends and its trial is recorded (on_trial_recorded).
Run(t) ==
  /\ step = "run" /\ t \in todo
  /\ todo' = todo \ {t}
  /\ results' = results \cup {NewTrial(t, FALSE)}
  /\ state' = [state EXCEPT !.completed = @ \cup {NewTrial(t, FALSE)}]
  /\ checkpoint' = state'
  /\ UNCHANGED <<step, orders, iteration, diagnostics, life>>

\* pre_update_hook runs a failed task again; its trial is recorded like the
\* others but is no part of the summary.
Diagnose(t) ==
  /\ step = "run" /\ todo = {} /\ NewTrial(t, FALSE) \in results
  /\ diagnostics < MaxDiagnostics /\ diagnostics' = diagnostics + 1
  /\ state' = [state EXCEPT !.completed = @ \cup {NewTrial(t, TRUE)}]
  /\ checkpoint' = state'
  /\ UNCHANGED <<step, orders, iteration, todo, results, life>>

\* The summary is recorded, the rotation advanced and the checkpoint written.
Summarise ==
  /\ step = "run" /\ todo = {} /\ step' = "top"
  /\ state' = Advance([state EXCEPT !.summaries =
                         Append(@, [iteration |-> iteration, trials |-> results])])
  /\ checkpoint' = state'
  /\ UNCHANGED <<orders, iteration, todo, results, diagnostics, life>>

\* The campaign is killed, interrupted or stopped, and resumed.
Resume ==
  /\ step # "down" /\ life < MaxResumes
  /\ step' = "down" /\ life' = life + 1
  /\ state' = checkpoint /\ iteration' = 0 /\ todo' = {} /\ results' = {}
  /\ UNCHANGED <<orders, checkpoint, diagnostics>>

CampaignNext ==
  \/ Start \/ BeginIteration \/ Summarise \/ Resume
  \/ \E t \in Tasks : Run(t) \/ Diagnose(t)

CampaignSpec == CampaignInit /\ [][CampaignNext]_campaignVars

-----------------------------------------------------------------------------
(* Properties *)

\* However often the campaign is resumed, a task runs once for one selection.
OnceForASelection ==
  \A e, f \in state.completed :
    ~ e.diagnostic /\ ~ f.diagnostic /\ e.task = f.task /\ e.batch = f.batch => e = f

UnscoredTasks(s) == {e.task : e \in s.completed \ SummarisedTrials(s)}

\* An iteration leaves a task of its batch out only for a trial of it that no
\* summary has scored.  That trial may be of an earlier batch.
OnlyProgressIsLeftOut ==
  step = "run" => state.chosen \ todo \subseteq UnscoredTasks(state)

\* On states of their type, a task is not run again for the batch in which it has
\* run, nor left out of one without a trial that is still to be scored.
CampaignInv == CampaignTypeOK /\ OnceForASelection /\ OnlyProgressIsLeftOut

\* Without replacement: no task waits for its next selection longer than its
\* worst places in two successive orders, first and last, make it wait.
NoTaskIsForgotten ==
  \A t \in Tasks :
    state.selections - state.picked[t] <= (2 * NTasks - 2) \div BatchSize

\* However often iterations are interrupted, the k-th summary has the number k and
\* scores trials of iteration k alone: no number is used twice or passed over.
TrialsAreScoredOnce ==
  \A k \in DOMAIN state.summaries :
    /\ state.summaries[k].iteration = k
    /\ \A e \in state.summaries[k].trials : e.iteration = k

=============================================================================

---------------------------- MODULE UpdateCycle ----------------------------
(***************************************************************************)
(* The life of Codex updates in the worktree: CodexUpdateEngine            *)
(* (meta/codex_update.py) edits and rolls back through PatchReviewer       *)
(* (meta/reviewer.py), HLLoop.run_iteration (hl/loop.py) asks for updates  *)
(* and takes back those that lower the score, and the campaign runner      *)
(* (scripts/run_campaign.py) takes back those that its gates condemn, also *)
(* after a restart from its checkpoint.                                    *)
(*                                                                         *)
(* The worktree is a function from regions, places that one hunk of a      *)
(* patch covers, to contents: that of HEAD, a local edit of the operator,  *)
(* or the update that wrote it last.  A patch is the contents it replaces  *)
(* in the regions it changes.  Scores, reports and regression suites are   *)
(* nondeterministic verdicts.                                              *)
(***************************************************************************)
EXTENDS Naturals, Sequences

CONSTANTS
  Updates,      \* packets: one run of codex exec each
  Regions,
  Committed,    \* the committed content of a region
  Local,        \* an uncommitted edit of the operator
  Nothing,      \* no update
  MaxRestarts   \* bound on kills and restarts

Contents == Updates \cup {Committed, Local}

ASSUME UpdateAssumption ==
  /\ Nothing \notin Updates /\ Committed # Local
  /\ {Committed, Local} \cap Updates = {}
  /\ MaxRestarts \in Nat

VARIABLES
  pc,         \* the step of the campaign
  allowDirty, \* the configured allow_dirty_baseline
  original,   \* the worktree when the campaign began
  tree,       \* the worktree
  baseline,   \* the content before the current codex exec
  delta,      \* the diff files: what each update replaced
  current,    \* the update of this iteration
  stack,      \* _accepted_run_stack of the engine
  pending,    \* whether the loop has a pending_update_baseline_score
  summary,    \* the markers in patches_applied of this iteration's summary
  before,     \* pre_iteration_packet_id
  tracked,    \* last_codex_update_summary
  campaign,   \* the campaign state: last_accepted_codex_update and the packets
              \* in change_evaluations
  saved,      \* its checkpoint
  retracted,  \* history: the packets whose rollback a gate recorded as applied
  cut,        \* history: the updates whose codex exec was killed
  restarts    \* history

vars == <<pc, allowDirty, original, tree, baseline, delta, current, stack, pending,
          summary, before, tracked, campaign, saved, retracted, cut, restarts>>

\* The parts of the state each group of steps leaves alone.
config == <<allowDirty, original>>
engine == <<baseline, delta, current>>
history == <<cut, restarts>>

Places == {"idle", "run", "decide", "exec", "validate", "rejected", "gates",
           "evaluate", "record", "post", "stopped"}
Patch == UNION {[rs -> Contents] : rs \in SUBSET Regions}
Campaign == [active : Updates \cup {Nothing}, evaluated : SUBSET Updates]

TypeOK ==
  /\ pc \in Places
  /\ allowDirty \in BOOLEAN
  /\ original \in [Regions -> {Committed, Local}]
  /\ tree \in [Regions -> Contents] /\ baseline \in [Regions -> Contents]
  /\ delta \in [Updates -> Patch]
  /\ current \in Updates \cup {Nothing}
  /\ stack \in Seq(Updates)
  /\ pending \in BOOLEAN
  /\ summary \in [accepted : BOOLEAN, marked : BOOLEAN]
  /\ before \in Updates \cup {Nothing} /\ tracked \in Updates \cup {Nothing}
  /\ campaign \in Campaign /\ saved \in Campaign
  /\ cut \subseteq Updates
  /\ retracted \subseteq Updates
  /\ restarts \in 0 .. MaxRestarts

NoPatch == [r \in {} |-> Committed]
Unsummarised == [accepted |-> FALSE, marked |-> FALSE]

Init ==
  /\ pc = "idle"
  /\ allowDirty \in BOOLEAN
  /\ original \in [Regions -> {Committed, Local}]
  /\ tree = original /\ baseline = original
  /\ delta = [u \in Updates |-> NoPatch]
  /\ current = Nothing /\ stack = <<>> /\ pending = FALSE
  /\ summary = Unsummarised
  /\ before = Nothing /\ tracked = Nothing
  /\ campaign = [active |-> Nothing, evaluated |-> {}]
  /\ saved = campaign
  /\ retracted = {} /\ cut = {}
  /\ restarts = 0

\* The next step of the campaign: what the last one wrote is written.
Go(from, to) == pc = from /\ saved = campaign /\ pc' = to

-----------------------------------------------------------------------------
\* PatchReviewer.rollback detects the direction of a patch: it takes it back
\* where it is applied and applies it where it is not.
Applied(u) == \A r \in DOMAIN delta[u] : tree[r] = u
Absent(u) == \A r \in DOMAIN delta[u] : tree[r] = delta[u][r]
CanRollback(u) == delta[u] # NoPatch /\ (Applied(u) \/ Absent(u))
RolledBack(u) ==
  [r \in Regions |-> IF r \notin DOMAIN delta[u] THEN tree[r]
                     ELSE IF Applied(u) THEN delta[u][r] ELSE u]

\* _accepted_run_stack[-1], and what pop leaves.
Last == stack[Len(stack)]
Front == SubSeq(stack, 1, Len(stack) - 1)

Rollback(u) == tree' = IF CanRollback(u) THEN RolledBack(u) ELSE tree

\* Mutant: the stack keeps the update that was rolled back.
RollbackLastAcceptedKeeps(ok) ==
  /\ stack # <<>>
  /\ ok = CanRollback(Last)
  /\ Rollback(Last)
  /\ UNCHANGED stack

\* rollback_last_accepted of an engine that accepted something.
RollbackLastAccepted(ok) ==
  /\ stack # <<>>
  /\ ok = CanRollback(Last)
  /\ Rollback(Last)
  /\ stack' = Front

LastCanRollback == stack # <<>> /\ CanRollback(Last)

\* _rollback_codex_update_after_failed_validation of a summary whose diff is
\* that of d: the last accepted run, otherwise the diff file.
RollbackValidated(d, ok) ==
  /\ \/ RollbackLastAccepted(TRUE) /\ ok
     \/ /\ ~LastCanRollback
        /\ stack' = IF stack = <<>> THEN stack ELSE Front
        /\ IF d = Nothing
             THEN ~ok /\ UNCHANGED tree
             ELSE ok = CanRollback(d) /\ Rollback(d)
  /\ pending' = IF ok THEN FALSE ELSE pending

\* What a gate records of it.
Recorded(packet, ok) ==
  retracted' = IF ok /\ packet # Nothing THEN retracted \cup {packet} ELSE retracted

-----------------------------------------------------------------------------
\* The regression suite before an iteration passes, or is not enabled, or its
\* failures are quarantined as baseline instability.
PreRegressionPasses ==
  /\ Go("idle", "run")
  /\ before' = campaign.active
  /\ UNCHANGED <<config, tree, engine, stack, pending, summary, tracked, campaign,
                 saved, history, retracted>>

\* It fails while an update is tracked: _recover_from_codex_validation_failure.
PreRegressionFails ==
  /\ tracked # Nothing
  /\ \E ok \in BOOLEAN :
       /\ Go("idle", IF ok THEN "run" ELSE "stopped")
       /\ RollbackValidated(tracked, ok)
       /\ campaign' = IF ok THEN [campaign EXCEPT !.active = Nothing] ELSE campaign
       /\ Recorded(tracked, ok)
       /\ tracked' = IF ok THEN Nothing ELSE tracked
  /\ before' = campaign'.active
  /\ UNCHANGED <<config, engine, summary, saved, history>>

\* It fails with no update to blame: the campaign returns.
PreRegressionStops ==
  /\ tracked = Nothing
  /\ Go("idle", "stopped")
  /\ UNCHANGED <<config, tree, engine, stack, pending, summary, before, tracked,
                 campaign, saved, history, retracted>>

\* The tasks have run: _rollback_pending_update_if_worse compares the score
\* with the one before the last accepted update.
Score ==
  /\ Go("run", "decide")
  /\ current' = Nothing
  /\ pending' = FALSE
  /\ \/ UNCHANGED <<tree, stack>> /\ summary' = Unsummarised
     \/ /\ pending
        /\ summary' = [Unsummarised EXCEPT !.marked = TRUE]
        /\ \/ \E ok \in BOOLEAN : RollbackLastAccepted(ok)
           \/ stack = <<>> /\ UNCHANGED <<tree, stack>>
  /\ UNCHANGED <<config, baseline, delta, before, tracked, campaign, saved, history,
                 retracted>>

-----------------------------------------------------------------------------
\* Nothing failed, the policy wants more evidence, codex exec is skipped, or it
\* is refused because of a dirty baseline.
SkipUpdate ==
  /\ Go("decide", "gates")
  /\ UNCHANGED <<config, tree, engine, stack, pending, summary, before, tracked,
                 campaign, saved, history, retracted>>

\* Mutant: a dirty baseline is never refused.
MayExecuteAlways == TRUE

\* git status is clean, or a dirty baseline is allowed.
MayExecute == allowDirty \/ \A r \in Regions : tree[r] = Committed

Fresh(u) == u \notin cut /\ delta[u] = NoPatch /\ u # current

\* run_update snapshots the dirty files and starts codex exec.
Execute(u) ==
  /\ Go("decide", "exec")
  /\ MayExecute
  /\ Fresh(u)
  /\ current' = u
  /\ baseline' = tree
  /\ UNCHANGED <<config, tree, delta, stack, pending, summary, before, tracked,
                 campaign, saved, history, retracted>>

Edit(r) ==
  /\ Go("exec", "exec")
  /\ tree[r] # current
  /\ tree' = [tree EXCEPT ![r] = current]
  /\ UNCHANGED <<config, engine, stack, pending, summary, before, tracked, campaign,
                 saved, history, retracted>>

\* Mutant: the delta is taken against HEAD instead of the baseline.
IsolatedDeltaHead == [r \in {s \in Regions : tree[s] # baseline[s]} |-> Committed]

\* _isolated_delta: the worktree against the snapshot, or HEAD where the
\* baseline was clean.
IsolatedDelta == [r \in {s \in Regions : tree[s] # baseline[s]} |-> baseline[r]]

\* codex exec ended; git.diff is written.
Review ==
  /\ Go("exec", "validate")
  /\ delta' = [delta EXCEPT ![current] = IsolatedDelta]
  /\ UNCHANGED <<config, tree, baseline, current, stack, pending, summary, before,
                 tracked, campaign, saved, history, retracted>>

\* The review, the report gates and the host validation accept the delta.
Accept ==
  /\ Go("validate", "gates")
  /\ delta[current] # NoPatch
  /\ stack' = Append(stack, current)
  /\ summary' = [summary EXCEPT !.accepted = TRUE]
  /\ pending' = TRUE
  /\ UNCHANGED <<config, tree, engine, before, tracked, campaign, saved, history,
                 retracted>>

\* They do not: _rollback_rejected_delta.  Without changes nothing follows.
Reject ==
  /\ Go("validate", IF delta[current] = NoPatch THEN "gates" ELSE "rejected")
  /\ Rollback(current)
  /\ UNCHANGED <<config, engine, stack, pending, summary, before, tracked, campaign,
                 saved, history, retracted>>

\* run_iteration calls rollback_last for a rejected update that changed files.
RollbackRejected ==
  /\ Go("rejected", "gates")
  /\ Rollback(current)
  /\ UNCHANGED <<config, engine, stack, pending, summary, before, tracked, campaign,
                 saved, history, retracted>>

-----------------------------------------------------------------------------
\* _accepted_codex_update_summary_for_packet of the active packet: the summary
\* of an iteration that accepted an update carries no packet and no diff; the
\* campaign state has both.
BlamedDiff == IF summary.accepted THEN Nothing ELSE campaign.active

\* A gate takes back the update it blames, the active one.
Retract(ok) ==
  /\ RollbackValidated(BlamedDiff, ok)
  /\ Recorded(campaign.active, ok)
  /\ summary' = IF ok /\ summary.accepted
                  THEN [accepted |-> FALSE, marked |-> TRUE]
                  ELSE summary
  /\ tracked' = IF ok THEN Nothing ELSE tracked

\* _frontier_regression_gate: a solved task failed under packet `before`.
FrontierGate ==
  /\ Go("gates", "evaluate")
  /\ \/ UNCHANGED <<tree, stack, pending, summary, tracked, campaign, retracted>>
     \/ /\ before # Nothing
        /\ \E ok \in BOOLEAN :
             /\ Retract(ok)
             /\ campaign' = IF ok THEN [campaign EXCEPT !.active = Nothing] ELSE campaign
  /\ UNCHANGED <<config, engine, before, saved, history>>

\* _evaluate_pending_change_manifest: the active packet is evaluated once, and
\* taken back when its prediction missed.
EvaluateChange ==
  /\ Go("evaluate", "record")
  /\ LET p == campaign.active IN
       IF p = Nothing \/ p \in campaign.evaluated
         THEN UNCHANGED <<tree, stack, pending, summary, tracked, campaign, retracted>>
         ELSE \/ /\ campaign' = [campaign EXCEPT !.evaluated = @ \cup {p}]
                 /\ UNCHANGED <<tree, stack, pending, summary, tracked, retracted>>
              \/ \E ok \in BOOLEAN :
                   /\ Retract(ok)
                   /\ campaign' = [active |-> IF ok THEN Nothing ELSE p,
                                   evaluated |-> campaign.evaluated \cup {p}]
  /\ UNCHANGED <<config, engine, before, saved, history>>

\* _record_campaign_summary.
RecordSummary ==
  /\ Go("record", "post")
  /\ campaign' = IF summary.accepted THEN [campaign EXCEPT !.active = current] ELSE campaign
  /\ UNCHANGED <<config, tree, engine, stack, pending, summary, before, tracked,
                 saved, history, retracted>>

\* The regression suites after an iteration pass, or have nothing to check.
PostRegressionPasses ==
  /\ Go("post", "idle")
  /\ tracked' = IF summary.accepted THEN current ELSE tracked
  /\ UNCHANGED <<config, tree, engine, stack, pending, summary, before, campaign,
                 saved, history, retracted>>

\* The post, pending or held-out suite fails: the iteration's update is taken
\* back, or the campaign returns.  The record names the packet of the iteration.
PostRegressionFails ==
  /\ summary.accepted \/ summary.marked
  /\ \E ok \in BOOLEAN :
       /\ Go("post", IF ok THEN "idle" ELSE "stopped")
       /\ RollbackValidated(Nothing, ok)
       /\ summary' = IF ok THEN [accepted |-> FALSE, marked |-> TRUE] ELSE summary
       /\ Recorded(current, ok)
       /\ campaign' = IF ok THEN [campaign EXCEPT !.active = Nothing] ELSE campaign
       /\ tracked' = IF ok THEN Nothing ELSE tracked
  /\ UNCHANGED <<config, engine, before, saved, history>>

\* _write_campaign_state, the last thing each of them does: a kill may come
\* between a rollback and the checkpoint that forgets its update.
SaveState ==
  /\ saved # campaign /\ saved' = campaign
  /\ UNCHANGED <<pc, config, tree, engine, stack, pending, summary, before, tracked,
                 campaign, history, retracted>>

-----------------------------------------------------------------------------
\* The campaign is killed, or has returned, and is resumed: the worktree, the
\* diff files and the checkpoint are what is left.
Restart ==
  /\ restarts < MaxRestarts
  /\ restarts' = restarts + 1
  /\ pc' = "idle"
  /\ stack' = <<>> /\ pending' = FALSE
  /\ summary' = Unsummarised /\ current' = Nothing /\ before' = Nothing
  /\ campaign' = saved
  /\ tracked' = saved.active
  /\ cut' = IF pc = "exec" THEN cut \cup {current} ELSE cut
  /\ UNCHANGED <<config, tree, baseline, delta, saved, retracted>>

Next ==
  \/ PreRegressionPasses \/ PreRegressionFails \/ PreRegressionStops
  \/ Score \/ SkipUpdate
  \/ \E u \in Updates : Execute(u)
  \/ \E r \in Regions : Edit(r)
  \/ Review \/ Accept \/ Reject \/ RollbackRejected
  \/ FrontierGate \/ EvaluateChange \/ RecordSummary
  \/ PostRegressionPasses \/ PostRegressionFails
  \/ SaveState \/ Restart

Spec == Init /\ [][Next]_vars

-----------------------------------------------------------------------------
\* With --no-codex-allow-dirty-baseline, the update on top of the stack of
\* accepted runs is in the worktree and the only thing there, so that
\* rollback_last_accepted restores HEAD and never applies a patch, whatever was
\* rejected, applied again or cut short before.  (run_update: "stop before Codex
\* edits to avoid mixing unrelated diffs".)
LastAcceptedIsReversible ==
  ~allowDirty /\ stack # <<>> =>
    /\ Len(stack) = 1
    /\ Applied(Last) /\ RolledBack(Last) = original

\* Between iterations a clean-baseline campaign that holds an accepted update
\* has it in its checkpoint: after a kill the gates still know what to take
\* back.  (_record_campaign_summary, "last_accepted_codex_update".)
AcceptedUpdateSurvivesRestart ==
  ~allowDirty /\ pc = "idle" /\ stack # <<>> =>
    saved.active = Last /\ tracked = Last

\* Nothing of the operator's is lost: under the content of each region lie only
\* recorded diffs, down to what was there when the campaign began, unless a
\* codex exec was killed.  (_isolated_delta against the baseline snapshot.)
Known(r) == {original[r]} \cup cut \cup {u \in Updates : r \in DOMAIN delta[u]}
LocalWorkIsRecoverable ==
  /\ \A r \in Regions : tree[r] \in Known(r) \cup {current}
  /\ \A u \in Updates : \A r \in DOMAIN delta[u] : delta[u][r] \in Known(r) \ {u}

-----------------------------------------------------------------------------
\* The inductive invariant behind these properties.

\* A dirty worktree that must not be edited is left alone.
DirtyWorktreeUntouched ==
  ~allowDirty /\ (\E r \in Regions : original[r] = Local) =>
    /\ tree = original /\ stack = <<>>
    /\ \A u \in Updates : delta[u] = NoPatch
    /\ pc \notin {"exec", "validate", "rejected"}

\* Under a clean baseline an execution starts from HEAD with nothing accepted.
ExecutionStartsClean ==
  ~allowDirty /\ pc \in {"exec", "validate", "rejected"} =>
    /\ stack = <<>>
    /\ \A r \in Regions : baseline[r] = Committed
    /\ pc # "rejected" => \A r \in Regions : tree[r] \in {Committed, current}
    /\ pc = "validate" =>
         /\ DOMAIN delta[current] = {r \in Regions : tree[r] = current}
         /\ \A r \in DOMAIN delta[current] : delta[current][r] = Committed

AcceptedIsAlone ==
  ~allowDirty /\ stack # <<>> =>
    \E u \in Updates :
      /\ stack = <<u>> /\ delta[u] # NoPatch
      /\ \A r \in Regions :
           IF r \in DOMAIN delta[u]
             THEN tree[r] = u /\ delta[u][r] = Committed
             ELSE tree[r] = Committed
      /\ summary.accepted => u = current
      /\ \/ /\ pc \in {"gates", "evaluate", "record", "post"}
            /\ summary.accepted
            /\ pc = "post" => campaign.active = u
         \/ saved.active = u /\ campaign.active = u /\ tracked = u

Accounted ==
  /\ pc \in {"exec", "validate", "rejected"} => current \in Updates
  /\ \A r \in Regions : tree[r] \in Known(r) \cup (IF pc = "exec" THEN {current} ELSE {})
  /\ \A u \in Updates : \A r \in DOMAIN delta[u] : delta[u][r] \in Known(r) \ {u}
  /\ pc = "exec" =>
       /\ current \notin cut /\ delta[current] = NoPatch
       /\ \A r \in Regions : baseline[r] \in Known(r)

Inv ==
  /\ TypeOK
  /\ DirtyWorktreeUntouched
  /\ ExecutionStartsClean
  /\ AcceptedIsAlone
  /\ Accounted

-----------------------------------------------------------------------------
\* What the code's own reports say, and the code does not do.

\* A packet whose rollback a gate recorded as applied is not in the worktree.
\* ("Rollback a bad accepted Codex update and keep the campaign alive.")
RetractedUpdateIsOut ==
  \A u \in retracted : \A r \in Regions : tree[r] # u
=============================================================================

--------------------------- MODULE CampaignProofs ---------------------------
(***************************************************************************)
(* The two models of the campaign runner, which share nothing but the      *)
(* campaign: Inv of UpdateCycle is inductive for any updates, regions and  *)
(* number of restarts, and Rotation is, of CampaignRotation, for any tasks,*)
(* batches, orders and number of resumes.  The properties of their runs    *)
(* follow.                                                                 *)
(***************************************************************************)
EXTENDS UpdateCycle, CampaignRotation,
        FiniteSetTheorems, SequenceTheorems, WellFoundedInduction, TLAPS

-----------------------------------------------------------------------------
(* Updates and what the gates take back of them *)

\* What pop leaves of the stack of accepted runs (rollback_last_accepted).
LEMMA StackFacts ==
  ASSUME stack \in Seq(Updates), stack # <<>>
  PROVE  Last \in Updates /\ Front \in Seq(Updates)
<1>1. Len(stack) \in Nat /\ Len(stack) >= 1
  OBVIOUS
<1>2. Last \in Updates
  BY <1>1 DEF Last
<1>3. Front \in Seq(Updates)
  BY <1>1 DEF Front
<1> QED
  BY <1>2, <1>3

\* A stack of one run is popped to the empty one.
LEMMA SingleStack ==
  ASSUME NEW u \in Updates, stack = <<u>>
  PROVE  Last = u /\ Front = <<>> /\ Len(stack) = 1 /\ stack # <<>>
BY DEF Last, Front

\* A diff that is not empty changes some region (_isolated_delta).
LEMMA PatchHasRegion ==
  ASSUME NEW p \in Patch, p # NoPatch
  PROVE  DOMAIN p # {} /\ DOMAIN p \subseteq Regions
<1>1. PICK rs \in SUBSET Regions : p \in [rs -> Contents]
  BY DEF Patch
<1>2. ASSUME rs = {} PROVE FALSE
  <2>1. p = [r \in {} |-> Committed]
    BY <1>1, <1>2
  <2> QED
    BY <2>1 DEF NoPatch
<1> QED
  BY <1>1, <1>2

\* PatchReviewer.rollback, in either direction or none, leaves only contents
\* that a diff records, and an empty diff changes nothing.
LEMMA RollbackTree ==
  ASSUME TypeOK, Accounted, pc # "exec", NEW u \in Updates, Rollback(u)
  PROVE  /\ tree' \in [Regions -> Contents]
         /\ \A r \in Regions : tree'[r] \in Known(r)
         /\ delta[u] = NoPatch => tree' = tree
<1>1. delta[u] \in Patch
  BY DEF TypeOK
<1>2. PICK rs \in SUBSET Regions : delta[u] \in [rs -> Contents]
  BY <1>1 DEF Patch
<1>3. \A r \in Regions : tree[r] \in Known(r)
  BY DEF Accounted
<1>4. \A r \in DOMAIN delta[u] : delta[u][r] \in Known(r)
  BY DEF Accounted
<1>5. \A r \in DOMAIN delta[u] : u \in Known(r)
  BY DEF Known
<1>6. u \in Contents
  BY DEF Contents
<1>7. CASE CanRollback(u)
  <2>1. tree' = [r \in Regions |-> IF r \notin DOMAIN delta[u] THEN tree[r]
                                   ELSE IF Applied(u) THEN delta[u][r] ELSE u]
    BY <1>7 DEF Rollback, RolledBack
  <2>2. tree' \in [Regions -> Contents]
    BY <2>1, <1>2, <1>6 DEF TypeOK
  <2>3. \A r \in Regions : tree'[r] \in Known(r)
    BY <2>1, <1>3, <1>4, <1>5
  <2>4. delta[u] # NoPatch
    BY <1>7 DEF CanRollback
  <2> QED
    BY <2>2, <2>3, <2>4
<1>8. CASE ~CanRollback(u)
  BY <1>8, <1>3 DEF Rollback, TypeOK
<1> QED
  BY <1>7, <1>8

\* Under a clean baseline a pop empties the stack.
LEMMA PopEmpties ==
  ASSUME TypeOK, AcceptedIsAlone, ~allowDirty, stack # <<>>
  PROVE  Front = <<>>
<1>1. PICK u \in Updates : stack = <<u>>
  BY DEF AcceptedIsAlone
<1> QED
  BY <1>1, SingleStack

\* What the rollback entry point of the gates
\* (_rollback_codex_update_after_failed_validation) does to worktree and stack.
LEMMA GateRollback ==
  ASSUME Inv, pc # "exec", NEW d \in Updates \cup {Nothing}, NEW ok \in BOOLEAN,
         RollbackValidated(d, ok)
  PROVE  /\ tree' \in [Regions -> Contents]
         /\ \A r \in Regions : tree'[r] \in Known(r)
         /\ (\A u \in Updates : delta[u] = NoPatch) => tree' = tree
         /\ stack' \in Seq(Updates)
         /\ ~allowDirty => stack' = <<>>
         /\ pending' \in BOOLEAN
<1> USE DEF Inv
<1>1. pending' \in BOOLEAN
  BY DEF RollbackValidated, TypeOK
<1>2. stack \in Seq(Updates)
  BY DEF TypeOK
<1>3. CASE RollbackLastAccepted(TRUE) /\ ok
  <2>1. stack # <<>> /\ Rollback(Last) /\ stack' = Front
    BY <1>3 DEF RollbackLastAccepted
  <2>2. Last \in Updates /\ Front \in Seq(Updates)
    BY <2>1, <1>2, StackFacts
  <2> QED
    BY <2>1, <2>2, <1>1, RollbackTree, PopEmpties
<1>4. CASE /\ ~LastCanRollback
           /\ stack' = IF stack = <<>> THEN stack ELSE Front
           /\ IF d = Nothing
                THEN ~ok /\ UNCHANGED tree
                ELSE ok = CanRollback(d) /\ Rollback(d)
  <2>1. stack' \in Seq(Updates) /\ (~allowDirty => stack' = <<>>)
    BY <1>4, <1>2, StackFacts, PopEmpties
  <2>2. CASE d = Nothing
    BY <2>1, <2>2, <1>4, <1>1 DEF TypeOK, Accounted
  <2>3. CASE d # Nothing
    BY <2>1, <2>3, <1>4, <1>1, RollbackTree
  <2> QED
    BY <2>2, <2>3
<1> QED
  BY <1>3, <1>4 DEF RollbackValidated

\* What is recorded of a rollback that was applied names an update.
LEMMA RecordedType ==
  ASSUME Inv, NEW packet \in Updates \cup {Nothing}, NEW ok \in BOOLEAN,
         Recorded(packet, ok)
  PROVE  retracted' \subseteq Updates
  BY DEF Recorded, Inv, TypeOK

\* A step that rolls back, outside of an execution, keeps every conjunct of
\* Inv but the type, the checkpoint and the start of an execution.
LEMMA AfterRollback ==
  ASSUME Inv, UNCHANGED <<allowDirty, original, delta, cut>>,
         pc' \notin {"exec", "validate"}, pc' = "rejected" => pc = "validate",
         current' \in Updates \/ pc' # "rejected",
         \A r \in Regions : tree'[r] \in Known(r),
         (\A u \in Updates : delta[u] = NoPatch) => tree' = tree,
         ~allowDirty => stack' = <<>>
  PROVE  DirtyWorktreeUntouched' /\ AcceptedIsAlone' /\ Accounted'
<1> USE DEF Inv
<1>1. DirtyWorktreeUntouched'
  BY DEF DirtyWorktreeUntouched
<1>2. AcceptedIsAlone'
  BY DEF AcceptedIsAlone
<1>3. \A r \in Regions : Known(r)' = Known(r)
  BY DEF Known
<1>4. Accounted'
  <2>1. \A u \in Updates : DOMAIN delta[u] \subseteq Regions
    BY DEF TypeOK, Patch
  <2>2. \A u \in Updates : \A r \in DOMAIN delta[u] : delta[u][r] \in Known(r) \ {u}
    BY DEF Accounted
  <2> QED
    BY <1>3, <2>1, <2>2 DEF Accounted
<1> QED
  BY <1>1, <1>2, <1>4

\* A step that leaves the worktree, the diffs and the stack alone, outside of
\* an execution, needs only the accounts of the accepted update.
LEMMA AfterQuiet ==
  ASSUME Inv, UNCHANGED <<allowDirty, original, tree, delta, cut, stack>>,
         pc # "exec", pc' \notin {"exec", "validate", "rejected"},
         AcceptedIsAlone'
  PROVE  DirtyWorktreeUntouched' /\ ExecutionStartsClean' /\ AcceptedIsAlone' /\ Accounted'
<1> USE DEF Inv
<1>1. DirtyWorktreeUntouched'
  BY DEF DirtyWorktreeUntouched
<1>2. ExecutionStartsClean'
  BY DEF ExecutionStartsClean
<1>3. \A r : Known(r)' = Known(r)
  BY DEF Known
<1>4. Accounted'
  BY <1>3 DEF Accounted
<1> QED
  BY <1>1, <1>2, <1>4

-----------------------------------------------------------------------------
\* Fresh campaigns satisfy the invariant.
LEMMA InitInv ==
  ASSUME Init
  PROVE  Inv
<1> USE UpdateAssumption
<1>1. TypeOK
  <2>1. NoPatch \in Patch
    BY DEF NoPatch, Patch, Contents
  <2>2. original \in [Regions -> Contents]
    BY DEF Init, Contents
  <2>3. restarts \in 0 .. MaxRestarts /\ stack \in Seq(Updates)
    BY DEF Init
  <2>4. campaign \in Campaign /\ saved \in Campaign
    BY DEF Init, Campaign
  <2>5. summary \in [accepted : BOOLEAN, marked : BOOLEAN]
    BY DEF Init, Unsummarised
  <2>6. delta \in [Updates -> Patch]
    BY <2>1 DEF Init
  <2>7. pc \in Places
    BY DEF Init, Places
  <2> QED
    BY <2>2, <2>3, <2>4, <2>5, <2>6, <2>7 DEF Init, TypeOK
<1>2. DirtyWorktreeUntouched /\ ExecutionStartsClean /\ AcceptedIsAlone
  BY DEF Init, DirtyWorktreeUntouched, ExecutionStartsClean, AcceptedIsAlone
<1>3. Accounted
  BY DEF Init, Accounted, Known, NoPatch
<1> QED
  BY <1>1, <1>2, <1>3 DEF Inv, Init

-----------------------------------------------------------------------------
\* The steps of the campaign runner and of the loop outside of an update.

LEMMA PreRegressionPassesInv ==
  ASSUME Inv, PreRegressionPasses
  PROVE  Inv'
<1> USE DEF Inv, PreRegressionPasses, Go, config, engine, history
<1>1. TypeOK'
  <2>1. campaign.active \in Updates \cup {Nothing}
    BY DEF TypeOK, Campaign
  <2>2. pc' \in Places
    BY DEF Places
  <2> QED
    BY <2>1, <2>2 DEF TypeOK
<1>2. AcceptedIsAlone'
  BY DEF AcceptedIsAlone, Applied
<1> QED
  BY <1>1, <1>2, AfterQuiet

\* PreRegressionFails preserves the inductive invariant.
LEMMA PreRegressionFailsInv ==
  ASSUME Inv, PreRegressionFails
  PROVE  Inv'
<1> USE DEF Go, config, engine, history
<1>1. PICK ok \in BOOLEAN :
        /\ pc = "idle" /\ pc' = IF ok THEN "run" ELSE "stopped"
        /\ RollbackValidated(tracked, ok)
        /\ campaign' = IF ok THEN [campaign EXCEPT !.active = Nothing] ELSE campaign
        /\ Recorded(tracked, ok)
        /\ tracked' = IF ok THEN Nothing ELSE tracked
  BY DEF PreRegressionFails
<1>2. /\ before' = campaign'.active
      /\ UNCHANGED <<allowDirty, original, baseline, delta, current, summary, saved,
                     cut, restarts>>
  BY DEF PreRegressionFails
<1>3. tracked \in Updates
  BY DEF PreRegressionFails, Inv, TypeOK
<1>4. /\ tree' \in [Regions -> Contents]
      /\ \A r \in Regions : tree'[r] \in Known(r)
      /\ (\A u \in Updates : delta[u] = NoPatch) => tree' = tree
      /\ stack' \in Seq(Updates)
      /\ ~allowDirty => stack' = <<>>
      /\ pending' \in BOOLEAN
  BY <1>1, <1>3, GateRollback
<1>5. DirtyWorktreeUntouched' /\ AcceptedIsAlone' /\ Accounted'
  BY <1>1, <1>2, <1>4, AfterRollback
<1>6. ExecutionStartsClean'
  BY <1>1 DEF ExecutionStartsClean
<1>7. campaign' \in Campaign
  BY <1>1 DEF Inv, TypeOK, Campaign
<1>8. retracted' \subseteq Updates
  BY <1>1, <1>3, RecordedType
<1>9. pc' \in Places /\ tracked' \in Updates \cup {Nothing} /\ before' \in Updates \cup {Nothing}
  BY <1>1, <1>2, <1>3, <1>7 DEF Places, Campaign
<1> QED
  BY <1>2, <1>4, <1>5, <1>6, <1>7, <1>8, <1>9 DEF Inv, TypeOK

\* PreRegressionStops preserves the inductive invariant.
LEMMA PreRegressionStopsInv ==
  ASSUME Inv, PreRegressionStops
  PROVE  Inv'
<1> USE DEF Inv, PreRegressionStops, Go, config, engine, history
<1>1. TypeOK'
  BY DEF TypeOK, Places
<1>2. AcceptedIsAlone'
  BY DEF AcceptedIsAlone
<1> QED
  BY <1>1, <1>2, AfterQuiet

\* The score check forgets the verdict of the iteration before.
LEMMA ScoreInv ==
  ASSUME Inv, Score
  PROVE  Inv'
<1> USE DEF Go, config, history
<1>1. /\ pc = "run" /\ pc' = "decide" /\ current' = Nothing /\ pending' = FALSE
      /\ UNCHANGED <<allowDirty, original, baseline, delta, before, tracked, campaign,
                     saved, cut, restarts, retracted>>
  BY DEF Score
<1>2. summary' \in [accepted : {FALSE}, marked : BOOLEAN]
  <2>1. Unsummarised \in [accepted : {FALSE}, marked : BOOLEAN]
    BY DEF Unsummarised
  <2>2. summary' = Unsummarised \/ summary' = [Unsummarised EXCEPT !.marked = TRUE]
    BY DEF Score
  <2> QED
    BY <2>1, <2>2
<1>3. CASE UNCHANGED <<tree, stack>>
  <2>1. AcceptedIsAlone'
    BY <1>1, <1>2, <1>3 DEF Inv, AcceptedIsAlone
  <2>2. TypeOK'
    BY <1>1, <1>2, <1>3 DEF Inv, TypeOK, Places
  <2> QED
    BY <1>1, <1>3, <2>1, <2>2, AfterQuiet DEF Inv
<1>4. CASE \E ok \in BOOLEAN : RollbackLastAccepted(ok)
  <2>1. stack # <<>> /\ Rollback(Last) /\ stack' = Front
    BY <1>4 DEF RollbackLastAccepted
  <2>2. Last \in Updates /\ Front \in Seq(Updates)
    BY <2>1, StackFacts DEF Inv, TypeOK
  <2>3. /\ tree' \in [Regions -> Contents]
        /\ \A r \in Regions : tree'[r] \in Known(r)
        /\ delta[Last] = NoPatch => tree' = tree
    BY <1>1, <2>1, <2>2, RollbackTree DEF Inv
  <2>4. ~allowDirty => stack' = <<>>
    BY <2>1, PopEmpties DEF Inv
  <2>5. DirtyWorktreeUntouched' /\ AcceptedIsAlone' /\ Accounted'
    BY <1>1, <2>2, <2>3, <2>4, AfterRollback
  <2>6. TypeOK'
    BY <1>1, <1>2, <2>1, <2>2, <2>3 DEF Inv, TypeOK, Places
  <2> QED
    BY <1>1, <2>5, <2>6 DEF Inv, ExecutionStartsClean
<1> QED
  BY <1>3, <1>4 DEF Score

\* SkipUpdate preserves the inductive invariant.
LEMMA SkipUpdateInv ==
  ASSUME Inv, SkipUpdate
  PROVE  Inv'
<1> USE DEF Inv, SkipUpdate, Go, config, engine, history
<1>1. TypeOK'
  BY DEF TypeOK, Places
<1>2. AcceptedIsAlone'
  BY DEF AcceptedIsAlone
<1> QED
  BY <1>1, <1>2, AfterQuiet

\* RecordSummary preserves the inductive invariant.
LEMMA RecordSummaryInv ==
  ASSUME Inv, RecordSummary
  PROVE  Inv'
<1> USE DEF Inv, RecordSummary, Go, config, engine, history
<1>1. TypeOK'
  BY DEF TypeOK, Places, Campaign
<1>2. AcceptedIsAlone'
  <2> SUFFICES ASSUME ~allowDirty, stack # <<>> PROVE AcceptedIsAlone'
    BY DEF AcceptedIsAlone
  <2>1. PICK u \in Updates :
          /\ stack = <<u>> /\ delta[u] # NoPatch
          /\ \A r \in Regions :
               IF r \in DOMAIN delta[u]
                 THEN tree[r] = u /\ delta[u][r] = Committed
                 ELSE tree[r] = Committed
          /\ summary.accepted => u = current
          /\ \/ summary.accepted
             \/ campaign.active = u /\ tracked = u
    BY DEF AcceptedIsAlone
  <2>2. campaign'.active = u
    BY <2>1 DEF TypeOK, Campaign
  <2>3. summary.accepted \/ tracked' = u
    BY <2>1
  <2> QED
    BY <2>1, <2>2, <2>3 DEF AcceptedIsAlone
<1> QED
  BY <1>1, <1>2, AfterQuiet

\* PostRegressionPasses preserves the inductive invariant.
LEMMA PostRegressionPassesInv ==
  ASSUME Inv, PostRegressionPasses
  PROVE  Inv'
<1> USE DEF Inv, PostRegressionPasses, Go, config, engine, history
<1>1. TypeOK'
  BY DEF TypeOK, Places
<1>2. AcceptedIsAlone'
  <2> SUFFICES ASSUME ~allowDirty, stack # <<>> PROVE AcceptedIsAlone'
    BY DEF AcceptedIsAlone
  <2>1. PICK u \in Updates :
          /\ stack = <<u>> /\ delta[u] # NoPatch
          /\ \A r \in Regions :
               IF r \in DOMAIN delta[u]
                 THEN tree[r] = u /\ delta[u][r] = Committed
                 ELSE tree[r] = Committed
          /\ summary.accepted => u = current
          /\ campaign.active = u
          /\ summary.accepted \/ tracked = u
    BY DEF AcceptedIsAlone
  <2>2. tracked' = u /\ saved'.active = u
    BY <2>1
  <2> QED
    BY <2>1, <2>2 DEF AcceptedIsAlone
<1> QED
  BY <1>1, <1>2, AfterQuiet

-----------------------------------------------------------------------------
\* The steps of an update.

\* run_update starts an execution: a clean worktree has nothing accepted in it.
LEMMA ExecuteInv ==
  ASSUME Inv, NEW u \in Updates, Execute(u)
  PROVE  Inv'
<1> USE UpdateAssumption
<1>1. /\ pc = "decide" /\ pc' = "exec" /\ MayExecute /\ Fresh(u)
      /\ current' = u /\ baseline' = tree
      /\ UNCHANGED <<allowDirty, original, tree, delta, stack, pending, summary,
                     before, tracked, campaign, saved, cut, restarts,
                     retracted>>
  BY DEF Execute, Go, config, history
<1>2. TypeOK'
  BY <1>1 DEF Inv, TypeOK, Places
<1>3. ASSUME ~allowDirty
      PROVE  stack = <<>> /\ \A r \in Regions : original[r] # Local
  <2>1. \A r \in Regions : tree[r] = Committed
    BY <1>1, <1>3 DEF MayExecute
  <2>2. stack = <<>>
    <3> SUFFICES ASSUME stack # <<>> PROVE FALSE
      OBVIOUS
    <3>1. PICK v \in Updates :
            /\ delta[v] # NoPatch
            /\ \A r \in Regions : r \in DOMAIN delta[v] => tree[r] = v
      BY <1>3 DEF Inv, AcceptedIsAlone
    <3>2. delta[v] \in Patch
      BY DEF Inv, TypeOK
    <3> QED
      BY <2>1, <3>1, <3>2, PatchHasRegion
  <2>3. \A r \in Regions : original[r] # Local
    BY <1>3, <2>1 DEF Inv, DirtyWorktreeUntouched
  <2> QED
    BY <2>2, <2>3
<1>4. DirtyWorktreeUntouched' /\ ExecutionStartsClean' /\ AcceptedIsAlone'
  BY <1>1, <1>3 DEF DirtyWorktreeUntouched, ExecutionStartsClean, AcceptedIsAlone,
                    MayExecute
<1>5. Accounted'
  <2>1. \A r : Known(r)' = Known(r)
    BY <1>1 DEF Known
  <2> QED
    BY <1>1, <2>1 DEF Inv, Accounted, Fresh
<1> QED
  BY <1>1, <1>2, <1>4, <1>5 DEF Inv

\* Edit preserves the inductive invariant.
LEMMA EditInv ==
  ASSUME Inv, NEW q \in Regions, Edit(q)
  PROVE  Inv'
<1> USE UpdateAssumption
<1>1. /\ pc = "exec" /\ pc' = "exec" /\ tree' = [tree EXCEPT ![q] = current]
      /\ UNCHANGED <<allowDirty, original, baseline, delta, current, stack, pending,
                     summary, before, tracked, campaign, saved, cut,
                     restarts, retracted>>
  BY DEF Edit, Go, config, engine, history
<1>2. current \in Updates /\ current \in Contents
  BY <1>1 DEF Inv, Accounted, Contents
<1>3. \A r \in Regions : tree'[r] \in {tree[r], current}
  BY <1>1 DEF Inv, TypeOK
<1>4. TypeOK'
  BY <1>1, <1>2 DEF Inv, TypeOK
<1>5. DirtyWorktreeUntouched' /\ ExecutionStartsClean' /\ AcceptedIsAlone'
  BY <1>1, <1>3 DEF Inv, DirtyWorktreeUntouched, ExecutionStartsClean, AcceptedIsAlone
<1>6. Accounted'
  <2>1. \A r : Known(r)' = Known(r)
    BY <1>1 DEF Known
  <2> QED
    BY <1>1, <1>3, <2>1 DEF Inv, Accounted
<1> QED
  BY <1>1, <1>4, <1>5, <1>6 DEF Inv

\* The delta against the baseline accounts for everything the execution wrote.
LEMMA ReviewInv ==
  ASSUME Inv, Review
  PROVE  Inv'
<1> USE UpdateAssumption
<1>1. /\ pc = "exec" /\ pc' = "validate"
      /\ delta' = [delta EXCEPT ![current] = IsolatedDelta]
      /\ UNCHANGED <<allowDirty, original, tree, baseline, current, stack, pending,
                     summary, before, tracked, campaign, saved, cut,
                     restarts, retracted>>
  BY DEF Review, Go, config, history
<1>2. current \in Updates /\ current \notin cut /\ delta[current] = NoPatch
  BY <1>1 DEF Inv, Accounted
<1>3. /\ DOMAIN IsolatedDelta = {r \in Regions : tree[r] # baseline[r]}
      /\ \A r \in DOMAIN IsolatedDelta : IsolatedDelta[r] = baseline[r]
  BY DEF IsolatedDelta
<1>4. delta'[current] = IsolatedDelta /\ \A u \in Updates \ {current} : delta'[u] = delta[u]
  BY <1>1, <1>2 DEF Inv, TypeOK
<1>5. TypeOK'
  <2>1. IsolatedDelta \in Patch
    <3>1. IsolatedDelta \in [{r \in Regions : tree[r] # baseline[r]} -> Contents]
      BY DEF IsolatedDelta, Inv, TypeOK
    <3> QED
      BY <3>1 DEF Patch
  <2>2. delta' \in [Updates -> Patch]
    BY <1>1, <2>1 DEF Inv, TypeOK
  <2> QED
    BY <1>1, <2>2 DEF Inv, TypeOK, Places
<1>6. DirtyWorktreeUntouched'
  BY <1>1 DEF Inv, DirtyWorktreeUntouched
<1>7. ExecutionStartsClean'
  BY <1>1, <1>2, <1>3, <1>4 DEF Inv, ExecutionStartsClean
<1>8. AcceptedIsAlone'
  BY <1>1 DEF Inv, ExecutionStartsClean, AcceptedIsAlone
<1>9. Accounted'
  <2>1. \A r \in Regions : Known(r) \subseteq Known(r)'
    <3>1. DOMAIN NoPatch = {}
      BY DEF NoPatch
    <3> QED
      BY <1>1, <1>2, <1>4, <3>1 DEF Known
  <2>2. \A r \in Regions : baseline[r] \in Known(r) /\ current \notin Known(r)
    <3>1. \A r \in Regions : original[r] \notin Updates
      BY DEF Inv, TypeOK
    <3>2. DOMAIN NoPatch = {}
      BY DEF NoPatch
    <3> QED
      BY <1>1, <1>2, <3>1, <3>2 DEF Inv, Accounted, Known
  <2>3. \A r \in Regions : tree[r] \in Known(r) \/ tree[r] = current
    BY <1>1 DEF Inv, Accounted
  <2>4. \A r \in Regions : tree[r] = current => current \in Known(r)'
    BY <1>1, <1>2, <1>3, <1>4, <2>2 DEF Known
  <2>5. \A u \in Updates : \A r \in DOMAIN delta'[u] : delta'[u][r] \in Known(r)' \ {u}
    <3> SUFFICES ASSUME NEW u \in Updates, NEW r \in DOMAIN delta'[u]
                 PROVE  delta'[u][r] \in Known(r)' \ {u}
      OBVIOUS
    <3>1. CASE u = current
      BY <1>3, <1>4, <2>1, <2>2, <3>1
    <3>2. CASE u # current
      <4>1. r \in Regions
        BY <1>4, <3>2 DEF Inv, TypeOK, Patch
      <4>2. delta[u][r] \in Known(r) \ {u}
        BY <1>4, <3>2 DEF Inv, Accounted
      <4> QED
        BY <1>4, <2>1, <3>2, <4>1, <4>2
    <3> QED
      BY <3>1, <3>2
  <2> QED
    BY <1>1, <1>2, <2>1, <2>3, <2>4, <2>5 DEF Accounted
<1> QED
  BY <1>1, <1>5, <1>6, <1>7, <1>8, <1>9 DEF Inv

\* Under a clean baseline the first accepted run is the only one.
LEMMA AcceptInv ==
  ASSUME Inv, Accept
  PROVE  Inv'
<1> USE UpdateAssumption
<1>1. /\ pc = "validate" /\ pc' = "gates" /\ delta[current] # NoPatch
      /\ stack' = Append(stack, current)
      /\ summary' = [summary EXCEPT !.accepted = TRUE] /\ pending' = TRUE
      /\ UNCHANGED <<allowDirty, original, tree, baseline, delta, current, before,
                     tracked, campaign, saved, cut, restarts, retracted>>
  BY DEF Accept, Go, config, engine, history
<1>2. current \in Updates
  BY <1>1 DEF Inv, Accounted
<1>3. summary' \in [accepted : BOOLEAN, marked : BOOLEAN] /\ summary'.accepted
  BY <1>1 DEF Inv, TypeOK
<1>4. TypeOK'
  <2>1. stack' \in Seq(Updates)
    BY <1>1, <1>2 DEF Inv, TypeOK
  <2> QED
    BY <1>1, <1>3, <2>1 DEF Inv, TypeOK, Places
<1>5. DirtyWorktreeUntouched' /\ ExecutionStartsClean'
  BY <1>1 DEF Inv, DirtyWorktreeUntouched, ExecutionStartsClean
<1>6. AcceptedIsAlone'
  <2> SUFFICES ASSUME ~allowDirty PROVE AcceptedIsAlone'
    BY <1>1 DEF AcceptedIsAlone
  <2>1. stack' = <<current>>
    BY <1>1 DEF Inv, ExecutionStartsClean
  <2>2. \A r \in Regions : IF r \in DOMAIN delta[current]
                             THEN tree[r] = current /\ delta[current][r] = Committed
                             ELSE tree[r] = Committed
    BY <1>1 DEF Inv, ExecutionStartsClean
  <2> QED
    BY <1>1, <1>2, <1>3, <2>1, <2>2 DEF AcceptedIsAlone
<1>7. Accounted'
  <2>1. \A r : Known(r)' = Known(r)
    BY <1>1 DEF Known
  <2> QED
    BY <1>1, <2>1 DEF Inv, Accounted
<1> QED
  BY <1>1, <1>4, <1>5, <1>6, <1>7 DEF Inv

\* Reject preserves the inductive invariant.
LEMMA RejectInv ==
  ASSUME Inv, Reject
  PROVE  Inv'
<1>1. /\ pc = "validate" /\ pc' \in {"gates", "rejected"} /\ Rollback(current)
      /\ UNCHANGED <<allowDirty, original, baseline, delta, current, stack, pending,
                     summary, before, tracked, campaign, saved, cut, restarts,
                     retracted>>
  BY DEF Reject, Go, config, engine, history
<1>2. current \in Updates
  BY <1>1 DEF Inv, Accounted
<1>3. /\ tree' \in [Regions -> Contents]
      /\ \A r \in Regions : tree'[r] \in Known(r)
      /\ delta[current] = NoPatch => tree' = tree
  BY <1>1, <1>2, RollbackTree DEF Inv
<1>4. ~allowDirty => stack' = <<>>
  BY <1>1 DEF Inv, ExecutionStartsClean
<1>5. DirtyWorktreeUntouched' /\ AcceptedIsAlone' /\ Accounted'
  BY <1>1, <1>2, <1>3, <1>4, AfterRollback
<1>6. ExecutionStartsClean'
  BY <1>1 DEF Inv, ExecutionStartsClean
<1>7. TypeOK'
  BY <1>1, <1>2, <1>3 DEF Inv, TypeOK, Places
<1> QED
  BY <1>1, <1>5, <1>6, <1>7 DEF Inv

\* RollbackRejected preserves the inductive invariant.
LEMMA RollbackRejectedInv ==
  ASSUME Inv, RollbackRejected
  PROVE  Inv'
<1>1. /\ pc = "rejected" /\ pc' = "gates" /\ Rollback(current)
      /\ UNCHANGED <<allowDirty, original, baseline, delta, current, stack, pending,
                     summary, before, tracked, campaign, saved, cut,
                     restarts, retracted>>
  BY DEF RollbackRejected, Go, config, engine, history
<1>2. current \in Updates
  BY <1>1 DEF Inv, Accounted
<1>3. /\ tree' \in [Regions -> Contents]
      /\ \A r \in Regions : tree'[r] \in Known(r)
      /\ delta[current] = NoPatch => tree' = tree
  BY <1>1, <1>2, RollbackTree DEF Inv
<1>4. ~allowDirty => stack' = <<>>
  BY <1>1 DEF Inv, ExecutionStartsClean
<1>5. DirtyWorktreeUntouched' /\ AcceptedIsAlone' /\ Accounted'
  BY <1>1, <1>2, <1>3, <1>4, AfterRollback
<1>6. ExecutionStartsClean'
  BY <1>1 DEF ExecutionStartsClean
<1>7. TypeOK'
  BY <1>1, <1>2, <1>3 DEF Inv, TypeOK, Places
<1> QED
  BY <1>1, <1>5, <1>6, <1>7 DEF Inv

-----------------------------------------------------------------------------
\* The gates.

\* What a gate that takes an update back does (Retract), at any of its places.
LEMMA RetractFacts ==
  ASSUME Inv, pc # "exec", NEW ok \in BOOLEAN, Retract(ok)
  PROVE  /\ tree' \in [Regions -> Contents]
         /\ \A r \in Regions : tree'[r] \in Known(r)
         /\ (\A u \in Updates : delta[u] = NoPatch) => tree' = tree
         /\ stack' \in Seq(Updates)
         /\ ~allowDirty => stack' = <<>>
         /\ pending' \in BOOLEAN
         /\ summary' \in [accepted : BOOLEAN, marked : BOOLEAN]
         /\ tracked' \in Updates \cup {Nothing}
         /\ retracted' \subseteq Updates
<1>1. campaign.active \in Updates \cup {Nothing}
  BY DEF Inv, TypeOK, Campaign
<1>2. BlamedDiff \in Updates \cup {Nothing}
  BY <1>1 DEF BlamedDiff
<1>3. RollbackValidated(BlamedDiff, ok) /\ Recorded(campaign.active, ok)
  BY DEF Retract
<1>4. retracted' \subseteq Updates
  BY <1>1, <1>2, <1>3, RecordedType
<1>5. summary' \in [accepted : BOOLEAN, marked : BOOLEAN]
  BY DEF Retract, Inv, TypeOK
<1>6. tracked' \in Updates \cup {Nothing}
  BY DEF Retract, Inv, TypeOK
<1> QED
  BY <1>2, <1>3, <1>4, <1>5, <1>6, GateRollback

\* FrontierGate preserves the inductive invariant.
LEMMA FrontierGateInv ==
  ASSUME Inv, FrontierGate
  PROVE  Inv'
<1>1. /\ pc = "gates" /\ pc' = "evaluate"
      /\ UNCHANGED <<allowDirty, original, baseline, delta, current, before, saved,
                     cut, restarts>>
  BY DEF FrontierGate, Go, config, engine, history
<1>2. CASE UNCHANGED <<tree, stack, pending, summary, tracked, campaign, retracted>>
  <2>1. AcceptedIsAlone'
    BY <1>1, <1>2 DEF Inv, AcceptedIsAlone
  <2>2. TypeOK'
    BY <1>1, <1>2 DEF Inv, TypeOK, Places
  <2> QED
    BY <1>1, <1>2, <2>1, <2>2, AfterQuiet DEF Inv
<1>3. CASE \E ok \in BOOLEAN :
             /\ Retract(ok)
             /\ campaign' = IF ok THEN [campaign EXCEPT !.active = Nothing] ELSE campaign
  <2>1. PICK ok \in BOOLEAN :
          /\ Retract(ok)
          /\ campaign' = IF ok THEN [campaign EXCEPT !.active = Nothing] ELSE campaign
    BY <1>3
  <2>2. campaign' \in Campaign
    BY <2>1 DEF Inv, TypeOK, Campaign
  <2>3. DirtyWorktreeUntouched' /\ AcceptedIsAlone' /\ Accounted'
    BY <1>1, <2>1, RetractFacts, AfterRollback
  <2>4. TypeOK'
    BY <1>1, <1>3, <2>1, <2>2, RetractFacts DEF Inv, TypeOK, Places
  <2> QED
    BY <1>1, <1>3, <2>3, <2>4 DEF Inv, ExecutionStartsClean
<1> QED
  BY <1>2, <1>3 DEF FrontierGate

\* EvaluateChange preserves the inductive invariant.
LEMMA EvaluateChangeInv ==
  ASSUME Inv, EvaluateChange
  PROVE  Inv'
<1>1. /\ pc = "evaluate" /\ pc' = "record"
      /\ UNCHANGED <<allowDirty, original, baseline, delta, current, before, saved,
                     cut, restarts>>
  BY DEF EvaluateChange, Go, config, engine, history
<1>2. campaign \in Campaign /\ campaign.active \in Updates \cup {Nothing}
  BY DEF Inv, TypeOK, Campaign
<1>3. CASE UNCHANGED <<tree, stack, pending, summary, tracked, campaign, retracted>>
  <2>1. AcceptedIsAlone'
    BY <1>1, <1>3 DEF Inv, AcceptedIsAlone
  <2>2. TypeOK'
    BY <1>1, <1>3 DEF Inv, TypeOK, Places
  <2> QED
    BY <1>1, <1>3, <2>1, <2>2, AfterQuiet DEF Inv
<1>4. CASE /\ campaign.active # Nothing
           /\ campaign' = [campaign EXCEPT !.evaluated = @ \cup {campaign.active}]
           /\ UNCHANGED <<tree, stack, pending, summary, tracked, retracted>>
  <2>1. campaign' \in Campaign /\ campaign'.active = campaign.active
    BY <1>2, <1>4 DEF Campaign
  <2>2. AcceptedIsAlone'
    BY <1>1, <1>4, <2>1 DEF Inv, AcceptedIsAlone
  <2>3. TypeOK'
    BY <1>1, <1>4, <2>1 DEF Inv, TypeOK, Places
  <2> QED
    BY <1>1, <1>4, <2>2, <2>3, AfterQuiet DEF Inv
<1>5. CASE /\ campaign.active # Nothing
           /\ \E ok \in BOOLEAN :
                /\ Retract(ok)
                /\ campaign' = [active |-> IF ok THEN Nothing ELSE campaign.active,
                                evaluated |-> campaign.evaluated \cup {campaign.active}]
  <2>1. PICK ok \in BOOLEAN :
          /\ Retract(ok)
          /\ campaign' = [active |-> IF ok THEN Nothing ELSE campaign.active,
                          evaluated |-> campaign.evaluated \cup {campaign.active}]
    BY <1>5
  <2>2. campaign' \in Campaign
    BY <1>2, <1>5, <2>1 DEF Campaign
  <2>3. DirtyWorktreeUntouched' /\ AcceptedIsAlone' /\ Accounted'
    BY <1>1, <2>1, RetractFacts, AfterRollback
  <2>4. TypeOK'
    BY <1>1, <1>5, <2>1, <2>2, RetractFacts DEF Inv, TypeOK, Places
  <2> QED
    BY <1>1, <1>5, <2>3, <2>4 DEF Inv, ExecutionStartsClean
<1> QED
  BY <1>3, <1>4, <1>5 DEF EvaluateChange

\* PostRegressionFails preserves the inductive invariant.
LEMMA PostRegressionFailsInv ==
  ASSUME Inv, PostRegressionFails
  PROVE  Inv'
<1>1. PICK ok \in BOOLEAN :
        /\ pc = "post" /\ pc' = IF ok THEN "idle" ELSE "stopped"
        /\ RollbackValidated(Nothing, ok)
        /\ summary' = IF ok THEN [accepted |-> FALSE, marked |-> TRUE] ELSE summary
        /\ Recorded(current, ok)
        /\ campaign' = IF ok THEN [campaign EXCEPT !.active = Nothing] ELSE campaign
        /\ tracked' = IF ok THEN Nothing ELSE tracked
  BY DEF PostRegressionFails, Go
<1>2. UNCHANGED <<allowDirty, original, baseline, delta, current, before, saved,
                  cut, restarts>>
  BY DEF PostRegressionFails, config, engine, history
<1>3. /\ tree' \in [Regions -> Contents]
      /\ \A r \in Regions : tree'[r] \in Known(r)
      /\ (\A u \in Updates : delta[u] = NoPatch) => tree' = tree
      /\ stack' \in Seq(Updates)
      /\ ~allowDirty => stack' = <<>>
      /\ pending' \in BOOLEAN
  BY <1>1, GateRollback
<1>4. retracted' \subseteq Updates
  <2>1. current \in Updates \cup {Nothing}
    BY DEF Inv, TypeOK
  <2> QED
    BY <1>1, <2>1, RecordedType
<1>5. campaign' \in Campaign
  BY <1>1 DEF Inv, TypeOK, Campaign
<1>6. /\ summary' \in [accepted : BOOLEAN, marked : BOOLEAN]
      /\ tracked' \in Updates \cup {Nothing} /\ pc' \in Places
  BY <1>1 DEF Inv, TypeOK, Places
<1>7. DirtyWorktreeUntouched' /\ AcceptedIsAlone' /\ Accounted'
  BY <1>1, <1>2, <1>3, AfterRollback
<1>8. ExecutionStartsClean'
  BY <1>1 DEF ExecutionStartsClean
<1>9. TypeOK'
  BY <1>2, <1>3, <1>4, <1>5, <1>6 DEF Inv, TypeOK
<1> QED
  BY <1>2, <1>7, <1>8, <1>9 DEF Inv

\* The checkpoint takes over what the campaign knows of the accepted update.
LEMMA SaveStateInv ==
  ASSUME Inv, SaveState
  PROVE  Inv'
<1>1. /\ saved' = campaign
      /\ UNCHANGED <<pc, allowDirty, original, tree, baseline, delta, current, stack,
                     pending, summary, before, tracked, campaign, cut, restarts,
                     retracted>>
  BY DEF SaveState, config, engine, history
<1>2. TypeOK'
  BY <1>1 DEF Inv, TypeOK
<1>3. DirtyWorktreeUntouched' /\ ExecutionStartsClean' /\ Accounted'
  BY <1>1 DEF Inv, DirtyWorktreeUntouched, ExecutionStartsClean, Accounted, Known
<1>4. AcceptedIsAlone'
  BY <1>1 DEF Inv, AcceptedIsAlone
<1> QED
  BY <1>2, <1>3, <1>4 DEF Inv

\* A kill forgets the stack; what an execution cut short wrote is known as such.
LEMMA RestartInv ==
  ASSUME Inv, Restart
  PROVE  Inv'
<1> USE UpdateAssumption
<1>1. /\ restarts < MaxRestarts /\ restarts' = restarts + 1
      /\ pc' = "idle" /\ stack' = <<>> /\ pending' = FALSE
      /\ summary' = Unsummarised /\ current' = Nothing /\ before' = Nothing
      /\ campaign' = saved /\ tracked' = saved.active
      /\ cut' = IF pc = "exec" THEN cut \cup {current} ELSE cut
      /\ UNCHANGED <<allowDirty, original, tree, baseline, delta, saved,
                     retracted>>
  BY DEF Restart, config
<1>2. pc = "exec" => current \in Updates
  BY DEF Inv, Accounted
<1>3. TypeOK'
  <2>1. saved.active \in Updates \cup {Nothing}
    BY DEF Inv, TypeOK, Campaign
  <2>2. summary' \in [accepted : BOOLEAN, marked : BOOLEAN]
    BY <1>1 DEF Unsummarised
  <2>3. restarts' \in 0 .. MaxRestarts
    BY <1>1 DEF Inv, TypeOK
  <2>4. stack' \in Seq(Updates) /\ pc' \in Places
    BY <1>1 DEF Places
  <2> QED
    BY <1>1, <1>2, <2>1, <2>2, <2>3, <2>4 DEF Inv, TypeOK
<1>4. DirtyWorktreeUntouched' /\ ExecutionStartsClean' /\ AcceptedIsAlone'
  BY <1>1 DEF Inv, DirtyWorktreeUntouched, ExecutionStartsClean, AcceptedIsAlone
<1>5. Accounted'
  <2>1. \A r : Known(r)' = Known(r) \cup (IF pc = "exec" THEN {current} ELSE {})
    BY <1>1 DEF Known
  <2> QED
    BY <1>1, <2>1 DEF Inv, Accounted
<1> QED
  BY <1>1, <1>3, <1>4, <1>5 DEF Inv

-----------------------------------------------------------------------------
\* Every step of the specification keeps the invariant.
LEMMA NextInv ==
  ASSUME Inv, [Next]_vars
  PROVE  Inv'
<1>1. CASE UNCHANGED vars
  BY <1>1 DEF vars, Inv, TypeOK, DirtyWorktreeUntouched, ExecutionStartsClean,
              AcceptedIsAlone, Accounted, Known
<1>2. CASE Next
  BY <1>2, PreRegressionPassesInv, PreRegressionFailsInv, PreRegressionStopsInv,
     ScoreInv, SkipUpdateInv, ExecuteInv, EditInv, ReviewInv, AcceptInv, RejectInv,
     RollbackRejectedInv, FrontierGateInv, EvaluateChangeInv, RecordSummaryInv,
     PostRegressionPassesInv, PostRegressionFailsInv, SaveStateInv, RestartInv
     DEF Next
<1> QED
  BY <1>1, <1>2

\* A dirty worktree is left alone unless changing it is allowed, an accepted update is alone in a clean one, and the
\* diffs account for every content of the worktree.
THEOREM InvHolds == Spec => []Inv
<1>1. Init => Inv
  BY InitInv
<1>2. Inv /\ [Next]_vars => Inv'
  BY NextInv
<1> QED
  BY <1>1, <1>2, PTL DEF Spec

\* rollback_last_accepted of a clean-baseline campaign restores the worktree the
\* campaign began with.
THEOREM AcceptedIsReversible == Spec => []LastAcceptedIsReversible
<1>1. Inv => LastAcceptedIsReversible
  <2> SUFFICES ASSUME Inv, ~allowDirty, stack # <<>>
               PROVE  Len(stack) = 1 /\ Applied(Last) /\ RolledBack(Last) = original
    BY DEF LastAcceptedIsReversible
  <2>1. PICK u \in Updates :
          /\ stack = <<u>>
          /\ \A r \in Regions :
               IF r \in DOMAIN delta[u]
                 THEN tree[r] = u /\ delta[u][r] = Committed
                 ELSE tree[r] = Committed
    BY DEF Inv, AcceptedIsAlone
  <2>2. Last = u /\ Len(stack) = 1
    BY <2>1, SingleStack
  <2>3. DOMAIN delta[u] \subseteq Regions
    BY DEF Inv, TypeOK, Patch
  <2>4. Applied(u)
    BY <2>1, <2>3 DEF Applied
  <2>5. \A r \in Regions : original[r] = Committed
    BY DEF Inv, DirtyWorktreeUntouched, TypeOK
  <2>6. RolledBack(u) = [r \in Regions |-> Committed]
    BY <2>1, <2>4 DEF RolledBack
  <2>7. original = [r \in Regions |-> Committed]
    BY <2>5 DEF Inv, TypeOK
  <2> QED
    BY <2>2, <2>4, <2>6, <2>7
<1> QED
  BY <1>1, InvHolds, PTL

\* Between the rounds of such a campaign the checkpoint names the update on the
\* stack (_record_campaign_summary).
THEOREM CheckpointNamesAccepted == Spec => []AcceptedUpdateSurvivesRestart
<1>1. Inv => AcceptedUpdateSurvivesRestart
  <2> SUFFICES ASSUME Inv, ~allowDirty, pc = "idle", stack # <<>>
               PROVE  saved.active = Last /\ tracked = Last
    BY DEF AcceptedUpdateSurvivesRestart
  <2>1. PICK u \in Updates : stack = <<u>> /\ saved.active = u /\ tracked = u
    BY DEF Inv, AcceptedIsAlone
  <2>2. Last = u
    BY <2>1, SingleStack
  <2> QED
    BY <2>1, <2>2 DEF Inv
<1> QED
  BY <1>1, InvHolds, PTL

\* Whatever the gates took back or applied again, the diffs lead back to what
\* the operator had, unless an execution was killed (_isolated_delta).
THEOREM LocalWorkStays == Spec => []LocalWorkIsRecoverable
<1>1. Inv => LocalWorkIsRecoverable
  BY DEF Inv, Accounted, LocalWorkIsRecoverable
<1> QED
  BY <1>1, InvHolds, PTL

-----------------------------------------------------------------------------
(* Which tasks run: the inductive invariant.  A batch is known by the       *)
(* position it began at, and the rotation only ever goes on, so that no     *)
(* batch is chosen twice and a trial of an earlier one is never mistaken    *)
(* for one of this.                                                         *)

\* The place of a task in an order, and the tasks of the line before it.
PlaceIn(order, t) == CHOOSE i \in 1 .. NTasks : order[i] = t
Ahead(p, t) ==
  IF PlaceIn(p.order, t) > p.cursor THEN PlaceIn(p.order, t) - 1 - p.cursor
  ELSE NTasks - p.cursor + PlaceIn(Order(p.cycle + 1), t) - 1

\* The batch that begins at b comes before one that would begin at p.
Precedes(b, p) == b[1] < p.cycle \/ (b[1] = p.cycle /\ b[2] < p.cursor)

\* The position the next batch will begin at.
NextPosition(s) == IF s.next = None THEN s.at ELSE s.next

\* A selection that is not over knows where it began and goes on behind that.
Placed(s) ==
  /\ s.at.order = Order(s.at.cycle) /\ s.current \subseteq s.chosen
  /\ s.next # None =>
       /\ s.next.order = Order(s.next.cycle) /\ s.current # {}
       /\ s.batch = <<s.at.cycle, s.at.cursor>> /\ Precedes(s.batch, s.next)

\* A trial was run for an earlier batch, or for this one and in no summary yet.
Dated(s) ==
  \A e \in s.completed :
    \/ Precedes(e.batch, s.at)
    \/ s.next # None /\ e.batch = s.batch /\ e \notin SummarisedTrials(s)

\* Summaries are numbered in their order, and trials belong to one of them or
\* to the next.
Numbered(s) ==
  /\ \A k \in DOMAIN s.summaries :
       /\ s.summaries[k].iteration = k /\ s.summaries[k].trials # {}
       /\ \A e \in s.summaries[k].trials : e \in s.completed /\ e.iteration = k
  /\ \A e \in s.completed : e.iteration <= Len(s.summaries) + 1

\* The selections a task waited for and the tasks still before it are no more
\* than two orders can put between two of its places.
Waiting(s) ==
  \A t \in Tasks :
    /\ s.picked[t] <= s.selections
    /\ BatchSize * (s.selections - s.picked[t]) + Ahead(NextPosition(s), t) <= 2 * NTasks - 2

\* What a selection that is not over has dropped of its batch waits to be scored.
Explained(s) == s.next # None => s.chosen \ s.current \subseteq UnscoredTasks(s)

Sound(s) == Placed(s) /\ Dated(s) /\ Numbered(s) /\ Waiting(s) /\ Explained(s)

\* What the iteration that runs has done and has still to do.
Running ==
  /\ step # "run" => todo = {}
  /\ step = "top" => iteration = Len(state.summaries)
  /\ step = "run" =>
       /\ iteration = Len(state.summaries) + 1 /\ state.next # None
       /\ results = {} => todo # {}
       /\ \A e \in results : e.iteration = iteration
       /\ \A e \in state.completed :
            e.batch = state.batch /\ ~ e.diagnostic => e.task \notin todo

StateIsSound == Sound(state)
CheckpointIsSound == Sound(checkpoint)

Rotation ==
  /\ CampaignTypeOK /\ OnceForASelection /\ OnlyProgressIsLeftOut
  /\ StateIsSound /\ CheckpointIsSound
  /\ checkpoint.completed = state.completed /\ checkpoint.summaries = state.summaries
  /\ Running
-----------------------------------------------------------------------------
(* Orders and lines *)

\* Among any numbers there is a least.
Smaller == {pair \in Nat \X Nat : pair[1] < pair[2]}

LEMMA LeastNumber ==
  ASSUME NEW S \in SUBSET Nat, S # {}
  PROVE  \E n \in S : \A m \in S : n <= m
<1>1. Smaller = OpToRel(<, Nat)
  BY Zenon DEF Smaller, OpToRel
<1>2. IsWellFoundedOn(Smaller, Nat)
  BY <1>1, NatLessThanWellFounded, Zenon
<1>3. PICK n \in S : \A m \in S : ~ (<<m, n>> \in Smaller)
  BY <1>2, WFMin, Zenon
<1>4. \A m \in S : ~ (m < n)
  BY <1>3 DEF Smaller
<1> QED
  BY <1>4

\* A batch is a part of the tasks.
LEMMA PlanType == NTasks \in Nat /\ NTasks >= 1 /\ BatchSize \in 1 .. NTasks
BY FS_CardinalityType, RotationAssumption DEF NTasks

\* An order holds every task, at one place.
LEMMA OrderIsWhole ==
  ASSUME NEW o \in Permutation, NEW t \in Tasks
  PROVE  PlaceIn(o, t) \in 1 .. NTasks /\ o[PlaceIn(o, t)] = t
<1>1. NTasks \in Nat /\ IsFiniteSet(Tasks)
  BY PlanType, RotationAssumption
<1>2. o \in Injection(1 .. NTasks, Tasks)
  BY DEF Permutation, Injection, IsInjective
<1>3. IsFiniteSet(1 .. NTasks) /\ Cardinality(1 .. NTasks) = NTasks
  BY <1>1, FS_Interval
<1>4. o \in Surjection(1 .. NTasks, Tasks)
  BY <1>1, <1>2, <1>3, FS_Injection DEF NTasks
<1>5. \E i \in 1 .. NTasks : o[i] = t
  BY <1>4 DEF Surjection
<1> QED
  BY <1>5 DEF PlaceIn

\* A task has one place in an order.
LEMMA PlaceIsUnique ==
  ASSUME NEW o \in Permutation, NEW i \in 1 .. NTasks
  PROVE  PlaceIn(o, o[i]) = i
BY OrderIsWhole DEF Permutation

\* The order of a cycle is an order, however far the campaign is.
LEMMA OrderType ==
  ASSUME orders \in [0 .. Cycles - 1 -> Permutation], NEW c \in Nat
  PROVE  Order(c) \in Permutation
<1>1. c % Cycles \in 0 .. Cycles - 1
  BY RotationAssumption
<1> QED
  BY <1>1 DEF Order

\* The line is the rest of the order and the whole of the next.
LEMMA LineMeans ==
  ASSUME orders \in [0 .. Cycles - 1 -> Permutation], NEW s \in CampaignState
  PROVE  LET rest == NTasks - s.at.cursor
         IN  /\ Line(s) \in Seq(Tasks) /\ Len(Line(s)) = rest + NTasks
             /\ rest \in Nat
             /\ \A i \in 1 .. rest : Line(s)[i] = s.at.order[s.at.cursor + i]
             /\ \A i \in 1 .. NTasks : Line(s)[rest + i] = Order(s.at.cycle + 1)[i]
<1> DEFINE rest == NTasks - s.at.cursor
           this == s.at.order
           that == Order(s.at.cycle + 1)
           tail == SubSeq(this, s.at.cursor + 1, NTasks)
<1>1. NTasks \in Nat /\ s.at.cursor \in 0 .. NTasks /\ s.at.cycle \in Nat /\ this \in Permutation
  BY PlanType DEF CampaignState, Position
<1>2. that \in Permutation
  BY <1>1, OrderType
<1> HIDE DEF this, that
<1>3. /\ this \in Seq(Tasks) /\ Len(this) = NTasks
      /\ that \in Seq(Tasks) /\ Len(that) = NTasks
  <2> SUFFICES ASSUME NEW o \in Permutation PROVE o \in Seq(Tasks) /\ Len(o) = NTasks
    BY <1>1, <1>2
  <2>1. o \in [1 .. NTasks -> Tasks]
    BY DEF Permutation
  <2> QED
    BY <1>1, <2>1
<1>4. Line(s) = tail \o that
  BY DEF Line, this, that
<1>5. /\ tail \in Seq(Tasks) /\ Len(tail) = rest /\ rest \in Nat
      /\ \A i \in 1 .. rest : tail[i] = this[s.at.cursor + i]
  <2>1. rest \in Nat /\ s.at.cursor + 1 \in Int /\ NTasks \in Int
    BY <1>1
  <2>2. \A i \in s.at.cursor + 1 .. NTasks : this[i] \in Tasks
    BY <1>1, <1>3
  <2>3. /\ tail \in Seq(Tasks)
        /\ Len(tail) = IF s.at.cursor + 1 <= NTasks THEN NTasks - (s.at.cursor + 1) + 1 ELSE 0
        /\ \A i \in 1 .. NTasks - (s.at.cursor + 1) + 1 : tail[i] = this[s.at.cursor + 1 + i - 1]
    BY <2>1, <2>2, SubSeqProperties
  <2> HIDE DEF tail
  <2>4. Len(tail) = rest
    BY <1>1, <2>3
  <2>5. \A i \in 1 .. rest : tail[i] = this[s.at.cursor + i]
    <3> TAKE i \in 1 .. rest
    <3>1. i \in 1 .. NTasks - (s.at.cursor + 1) + 1 /\ s.at.cursor + 1 + i - 1 = s.at.cursor + i
      BY <1>1
    <3>2. tail[i] = this[s.at.cursor + 1 + i - 1]
      BY <2>3, <3>1
    <3> QED
      BY <3>1, <3>2
  <2> QED
    BY <2>1, <2>3, <2>4, <2>5
<1> HIDE DEF rest, tail
<1>6. /\ tail \o that \in Seq(Tasks) /\ Len(tail \o that) = rest + NTasks
      /\ \A i \in 1 .. rest : (tail \o that)[i] = tail[i]
      /\ \A i \in 1 .. NTasks : (tail \o that)[rest + i] = that[i]
  <2>1. /\ tail \o that \in Seq(Tasks) /\ Len(tail \o that) = rest + NTasks
        /\ \A i \in 1 .. rest + NTasks :
             (tail \o that)[i] = IF i <= rest THEN tail[i] ELSE that[i - rest]
    <3>1. /\ tail \o that \in Seq(Tasks) /\ Len(tail \o that) = Len(tail) + Len(that)
          /\ \A i \in 1 .. Len(tail) + Len(that) :
               (tail \o that)[i] = IF i <= Len(tail) THEN tail[i] ELSE that[i - Len(tail)]
      BY <1>3, <1>5, ConcatProperties, Zenon
    <3> QED
      BY <1>3, <1>5, <3>1, Zenon
  <2>2. \A i \in 1 .. rest : i \in 1 .. rest + NTasks /\ i <= rest
    BY <1>1, <1>5
  <2>3. \A i \in 1 .. NTasks : /\ rest + i \in 1 .. rest + NTasks /\ ~ (rest + i <= rest)
                               /\ (rest + i) - rest = i
    BY <1>1, <1>5
  <2> QED
    BY <2>1, <2>2, <2>3
<1> QED
  BY <1>4, <1>5, <1>6 DEF rest, this, that

\* A batch can always be brought together.
LEMMA ReachFits ==
  ASSUME orders \in [0 .. Cycles - 1 -> Permutation], NEW s \in CampaignState
  PROVE  /\ Reach(s) \in BatchSize .. Len(Line(s))
         /\ Picks(s, Reach(s)) \subseteq Tasks /\ Picks(s, Reach(s)) # {}
<1> DEFINE L == Len(Line(s))
           rest == NTasks - s.at.cursor
           Enough == {n \in 1 .. L : Cardinality(Picks(s, n)) >= BatchSize}
<1>1. /\ NTasks \in Nat /\ NTasks >= 1 /\ BatchSize \in 1 .. NTasks /\ rest \in Nat
      /\ L = rest + NTasks /\ L \in Nat /\ Line(s) \in [1 .. L -> Tasks]
  BY PlanType, LineMeans
<1>2. \A n \in 0 .. L : Picks(s, n) \subseteq Tasks /\ IsFiniteSet(Picks(s, n))
                        /\ Cardinality(Picks(s, n)) \in Nat
  <2> SUFFICES ASSUME NEW n \in 0 .. L
               PROVE  /\ Picks(s, n) \subseteq Tasks /\ IsFiniteSet(Picks(s, n))
                      /\ Cardinality(Picks(s, n)) \in Nat
    OBVIOUS
  <2>1. Picks(s, n) \subseteq Tasks
    BY <1>1 DEF Picks
  <2> QED
    BY <2>1, FS_Subset, FS_CardinalityType, RotationAssumption
<1>3. Picks(s, L) = Tasks
  <2> SUFFICES ASSUME NEW t \in Tasks PROVE t \in Picks(s, L)
    <3>1. L \in 0 .. L
      BY <1>1
    <3>2. Picks(s, L) \subseteq Tasks
      BY <1>2, <3>1
    <3> QED
      BY <3>2
  <2> DEFINE i == PlaceIn(Order(s.at.cycle + 1), t)
  <2>1. i \in 1 .. NTasks /\ Order(s.at.cycle + 1)[i] = t
    <3>1. s.at.cycle + 1 \in Nat
      BY DEF CampaignState, Position
    <3> QED
      BY <3>1, OrderIsWhole, OrderType
  <2>2. Line(s)[rest + i] = t
    BY <2>1, LineMeans
  <2>3. rest + i \in 1 .. L
    BY <1>1, <2>1
  <2> QED
    BY <2>2, <2>3, Zenon DEF Picks
<1>4. L \in Enough
  BY <1>1, <1>3 DEF NTasks
<1>5. PICK n \in Enough : \A m \in Enough : n <= m
  <2>1. Enough \in SUBSET Nat
    BY <1>1
  <2> QED
    BY <1>4, <2>1, LeastNumber
<1>6. n \in 1 .. L /\ n - 1 \in 0 .. L
  BY <1>1, <1>5
<1>7. Cardinality(Picks(s, n - 1)) < BatchSize
  <2>1. CASE n = 1
    <3>1. Picks(s, n - 1) = {}
      BY <2>1 DEF Picks
    <3>2. Cardinality(Picks(s, n - 1)) = 0
      BY <3>1, FS_EmptySet
    <3> QED
      BY <1>1, <3>2
  <2>2. CASE n # 1
    <3>1. n - 1 \in 1 .. L /\ n - 1 \notin Enough
      BY <1>1, <1>5, <1>6, <2>2
    <3> QED
      BY <1>1, <1>2, <1>6, <3>1
  <2> QED
    BY <2>1, <2>2
<1>8. Cardinality(Picks(s, n)) = BatchSize
  <2>1. Picks(s, n) = Picks(s, n - 1) \cup {Line(s)[n]}
    <3>1. 1 .. n = 1 .. n - 1 \cup {n}
      BY <1>6
    <3> QED
      BY <3>1 DEF Picks
  <2>2. Cardinality(Picks(s, n)) <= Cardinality(Picks(s, n - 1)) + 1
    <3>1. IsFiniteSet(Picks(s, n - 1)) /\ Cardinality(Picks(s, n - 1)) \in Nat
      BY <1>2, <1>6
    <3>2. Cardinality(Picks(s, n - 1) \cup {Line(s)[n]})
            = IF Line(s)[n] \in Picks(s, n - 1) THEN Cardinality(Picks(s, n - 1))
                                               ELSE Cardinality(Picks(s, n - 1)) + 1
      BY <3>1, FS_AddElement
    <3> QED
      BY <2>1, <3>1, <3>2
  <2> QED
    BY <1>1, <1>2, <1>5, <1>6, <1>7, <2>2
<1> HIDE DEF L
<1>9. /\ Reach(s) \in 1 .. L /\ Cardinality(Picks(s, Reach(s))) = BatchSize
  BY <1>6, <1>7, <1>8 DEF Reach, L
<1>10. Cardinality(Picks(s, Reach(s))) <= Reach(s)
  <2> DEFINE f == [i \in 1 .. Reach(s) |-> Line(s)[i]]
  <2>1. f \in Surjection(1 .. Reach(s), Picks(s, Reach(s)))
    BY DEF Surjection, Picks
  <2>2. ExistsSurjection(1 .. Reach(s), Picks(s, Reach(s)))
    BY <2>1 DEF ExistsSurjection
  <2> QED
    BY <1>1, <1>9, <2>2, FS_SurjCardinalityBound
<1>11. Picks(s, Reach(s)) # {}
  <2> SUFFICES ASSUME Picks(s, Reach(s)) = {} PROVE FALSE
    OBVIOUS
  <2>1. Cardinality(Picks(s, Reach(s))) = 0
    BY FS_EmptySet
  <2> QED
    BY <1>1, <1>9, <2>1
<1> QED
  BY <1>1, <1>2, <1>9, <1>10, <1>11 DEF L

\* The parts of a position.
LEMMA StateType ==
  ASSUME NEW s \in CampaignState
  PROVE  /\ s.at.cycle \in Nat /\ s.at.cursor \in 0 .. NTasks /\ s.at.order \in Permutation
         /\ s.at \in Position
BY DEF CampaignState, Position

\* A position whose cursor moves.
LEMMA CursorUpdate ==
  ASSUME NEW p \in Position, NEW u
  PROVE  [p EXCEPT !.cursor = u] = [cycle |-> p.cycle, cursor |-> u, order |-> p.order]
BY DEF Position

\* The position behind a batch, on this side of the end of the order and beyond it.
LEMMA BehindMeans ==
  ASSUME NEW s \in CampaignState, NEW n
  PROVE  Behind(s, n) =
           IF n <= NTasks - s.at.cursor
           THEN [cycle |-> s.at.cycle, cursor |-> s.at.cursor + n, order |-> s.at.order]
           ELSE [cycle |-> s.at.cycle + 1, cursor |-> n - (NTasks - s.at.cursor),
                 order |-> Order(s.at.cycle + 1)]
<1>1. [s.at EXCEPT !.cursor = @ + n]
        = [cycle |-> s.at.cycle, cursor |-> s.at.cursor + n, order |-> s.at.order]
  BY StateType, CursorUpdate, Zenon
<1> QED
  BY <1>1 DEF Behind

\* The position behind a batch lies behind the position in front of it.
LEMMA BehindFits ==
  ASSUME orders \in [0 .. Cycles - 1 -> Permutation], NEW s \in CampaignState,
         s.at.order = Order(s.at.cycle), NEW n \in 1 .. Len(Line(s))
  PROVE  /\ Behind(s, n) \in Position /\ Behind(s, n).order = Order(Behind(s, n).cycle)
         /\ Precedes(<<s.at.cycle, s.at.cursor>>, Behind(s, n))
<1>1. /\ NTasks \in Nat /\ s.at.cycle \in Nat /\ s.at.cursor \in 0 .. NTasks
      /\ n \in 1 .. (NTasks - s.at.cursor) + NTasks
  BY PlanType, LineMeans, StateType
<1>2. CASE n <= NTasks - s.at.cursor
  <2>1. Behind(s, n) = [cycle |-> s.at.cycle, cursor |-> s.at.cursor + n, order |-> s.at.order]
    BY <1>2, BehindMeans
  <2>2. /\ s.at.cursor + n \in 0 .. NTasks /\ s.at.cursor < s.at.cursor + n
        /\ s.at.cycle \in Nat /\ s.at.order \in Permutation
    BY <1>1, <1>2, StateType
  <2>3. Behind(s, n) \in Position
    BY <2>1, <2>2 DEF Position
  <2> QED
    BY <2>1, <2>2, <2>3 DEF Precedes
<1>3. CASE ~ (n <= NTasks - s.at.cursor)
  <2>1. Behind(s, n) = [cycle |-> s.at.cycle + 1, cursor |-> n - (NTasks - s.at.cursor),
                        order |-> Order(s.at.cycle + 1)]
    BY <1>3, BehindMeans
  <2>2. Order(s.at.cycle + 1) \in Permutation
    BY <1>1, OrderType
  <2> QED
    BY <1>1, <1>3, <2>1, <2>2 DEF Precedes, Position
<1> QED
  BY <1>2, <1>3

\* Two successive orders put no more than this between two places of a task.
LEMMA AheadIsBounded ==
  ASSUME orders \in [0 .. Cycles - 1 -> Permutation], NEW p \in Position,
         NEW t \in Tasks
  PROVE  Ahead(p, t) \in 0 .. 2 * NTasks - 2
<1>1. NTasks \in Nat /\ NTasks >= 1 /\ p.cursor \in 0 .. NTasks
      /\ p.order \in Permutation /\ p.cycle + 1 \in Nat
  BY PlanType DEF Position
<1>2. PlaceIn(p.order, t) \in 1 .. NTasks /\ PlaceIn(Order(p.cycle + 1), t) \in 1 .. NTasks
  BY <1>1, OrderIsWhole, OrderType
<1> QED
  BY <1>1, <1>2 DEF Ahead

\* A batch that passes a task over brings it nearer by all the batch took.
LEMMA AheadShrinks ==
  ASSUME orders \in [0 .. Cycles - 1 -> Permutation], NEW s \in CampaignState,
         NEW n \in 1 .. Len(Line(s)), NEW t \in Tasks \ Picks(s, n)
  PROVE  Ahead(Behind(s, n), t) = Ahead(s.at, t) - n
<1> DEFINE rest == NTasks - s.at.cursor
           i == PlaceIn(s.at.order, t)
           j == PlaceIn(Order(s.at.cycle + 1), t)
<1>1. /\ NTasks \in Nat /\ s.at.cycle \in Nat /\ s.at.cursor \in 0 .. NTasks
      /\ n \in 1 .. rest + NTasks /\ s.at.order \in Permutation
      /\ Order(s.at.cycle + 1) \in Permutation
  <2>1. s.at.cycle \in Nat /\ s.at.cycle + 1 \in Nat /\ s.at.order \in Permutation
    BY StateType
  <2> QED
    BY <2>1, PlanType, LineMeans, StateType, OrderType
<1>2. /\ i \in 1 .. NTasks /\ s.at.order[i] = t
      /\ j \in 1 .. NTasks /\ Order(s.at.cycle + 1)[j] = t
  BY <1>1, OrderIsWhole
<1>3. i > s.at.cursor => Line(s)[i - s.at.cursor] = t
  <2> SUFFICES ASSUME i > s.at.cursor PROVE Line(s)[i - s.at.cursor] = t
    OBVIOUS
  <2>1. i - s.at.cursor \in 1 .. rest /\ s.at.cursor + (i - s.at.cursor) = i
    BY <1>1, <1>2
  <2> QED
    BY <1>2, <2>1, LineMeans
<1>4. Line(s)[rest + j] = t
  BY <1>2, LineMeans
<1>5. \A k \in 1 .. n : Line(s)[k] # t
  BY DEF Picks
<1>6. ~ (rest + j <= n) /\ (i > s.at.cursor => ~ (i - s.at.cursor <= n))
  <2>1. rest + j \in Nat /\ rest + j >= 1
    BY <1>1, <1>2
  <2>2. ~ (rest + j <= n)
    BY <1>1, <1>4, <1>5, <2>1
  <2>3. i > s.at.cursor => i - s.at.cursor \in Nat /\ i - s.at.cursor >= 1
    BY <1>1, <1>2
  <2>4. i > s.at.cursor => ~ (i - s.at.cursor <= n)
    BY <1>1, <1>3, <1>5, <2>3
  <2> QED
    BY <2>2, <2>4
<1>7. CASE n <= rest
  <2>1. Behind(s, n) = [cycle |-> s.at.cycle, cursor |-> s.at.cursor + n, order |-> s.at.order]
    BY <1>7, BehindMeans
  <2>2. Ahead(Behind(s, n), t) = IF i > s.at.cursor + n THEN i - 1 - (s.at.cursor + n)
                                 ELSE NTasks - (s.at.cursor + n) + j - 1
    BY <2>1 DEF Ahead
  <2>3. Ahead(s.at, t) = IF i > s.at.cursor THEN i - 1 - s.at.cursor
                         ELSE NTasks - s.at.cursor + j - 1
    BY DEF Ahead
  <2> HIDE DEF i, j
  <2> QED
    BY <1>1, <1>2, <1>6, <2>2, <2>3
<1>8. CASE ~ (n <= rest)
  <2>1. Behind(s, n) = [cycle |-> s.at.cycle + 1, cursor |-> n - rest,
                        order |-> Order(s.at.cycle + 1)]
    BY <1>8, BehindMeans
  <2>2. j > n - rest /\ ~ (i > s.at.cursor)
    BY <1>1, <1>2, <1>6, <1>8
  <2>3. Ahead(Behind(s, n), t) = j - 1 - (n - rest)
    BY <2>1, <2>2 DEF Ahead
  <2>4. Ahead(s.at, t) = NTasks - s.at.cursor + j - 1
    BY <2>2 DEF Ahead
  <2> HIDE DEF i, j
  <2> QED
    BY <1>1, <1>2, <2>3, <2>4
<1> QED
  BY <1>7, <1>8

-----------------------------------------------------------------------------
(* Selections *)

\* Ready(s) is Sound(s) between two selections, when s.at is where the next begins.
Ready(s) ==
  /\ s.at.order = Order(s.at.cycle)
  /\ \A e \in s.completed : Precedes(e.batch, s.at)
  /\ Numbered(s)
  /\ \A t \in Tasks :
       /\ s.picked[t] <= s.selections
       /\ BatchSize * (s.selections - s.picked[t]) + Ahead(s.at, t) <= 2 * NTasks - 2

\* No batch comes before itself, and one before s.at comes before what follows.
LEMMA PrecedesIsStrict ==
  ASSUME NEW p \in Position, NEW b \in Nat \X Nat, Precedes(b, p)
  PROVE  /\ b # <<p.cycle, p.cursor>>
         /\ \A q \in Position : Precedes(<<p.cycle, p.cursor>>, q) => Precedes(b, q)
<1>1. PICK m \in Nat, n \in Nat : b = <<m, n>>
  OBVIOUS
<1>2. m < p.cycle \/ (m = p.cycle /\ n < p.cursor)
  BY <1>1 DEF Precedes
<1>3. p.cycle \in Nat /\ p.cursor \in Nat
  BY PlanType DEF Position
<1>4. b # <<p.cycle, p.cursor>>
  BY <1>1, <1>2, <1>3
<1>5. ASSUME NEW q \in Position, Precedes(<<p.cycle, p.cursor>>, q)
      PROVE  Precedes(b, q)
  <2>1. q.cycle \in Nat /\ q.cursor \in Nat
    BY DEF Position
  <2>2. p.cycle < q.cycle \/ (p.cycle = q.cycle /\ p.cursor < q.cursor)
    BY <1>5 DEF Precedes
  <2>3. m < q.cycle \/ (m = q.cycle /\ n < q.cursor)
    BY <1>2, <1>3, <2>1, <2>2
  <2> QED
    BY <1>1, <2>3 DEF Precedes
<1> QED
  BY <1>4, <1>5

\* One more selection adds at least a batch to what a task waits for.
LEMMA OneMoreBatch ==
  ASSUME NEW b \in Nat, NEW d \in Nat
  PROVE  b * (d + 1) = b * d + b /\ b * d \in Nat
OBVIOUS

\* A new batch.
LEMMA ChooseFits ==
  ASSUME orders \in [0 .. Cycles - 1 -> Permutation], NEW s \in CampaignState,
         Ready(s)
  PROVE  /\ Choose(s) \in CampaignState /\ Sound(Choose(s)) /\ Choose(s).next # None
         /\ Choose(s).completed = s.completed /\ Choose(s).summaries = s.summaries
         /\ \A e \in s.completed : e.batch # Choose(s).batch
<1> DEFINE c == Choose(s)
           n == Reach(s)
           picks == Picks(s, n)
           picked == [t \in Tasks |-> IF t \in picks THEN s.selections + 1 ELSE s.picked[t]]
<1>1. /\ n \in BatchSize .. Len(Line(s)) /\ n \in 1 .. Len(Line(s)) /\ BatchSize \in Nat
      /\ picks \subseteq Tasks /\ picks # {} /\ NTasks \in Nat /\ Len(Line(s)) \in Nat
  BY ReachFits, PlanType, LineMeans
<1>2. /\ s.selections \in Nat /\ s.picked \in [Tasks -> Nat] /\ s.at \in Position
      /\ <<s.at.cycle, s.at.cursor>> \in Nat \X Nat
      /\ \A e \in s.completed : e.batch \in Nat \X Nat
  <2>1. s.at.cycle \in Nat /\ s.at.cursor \in Nat
    BY <1>1, StateType
  <2> QED
    BY <2>1 DEF CampaignState, TrialEntry
<1>3. /\ Behind(s, n) \in Position /\ Behind(s, n).order = Order(Behind(s, n).cycle)
      /\ Precedes(<<s.at.cycle, s.at.cursor>>, Behind(s, n)) /\ Behind(s, n) # None
  BY <1>1, BehindFits, RotationAssumption DEF Ready
<1>4. picked \in [Tasks -> Nat] /\ s.selections + 1 \in Nat
  BY <1>2
<1>5. /\ c \in CampaignState
      /\ c.completed = s.completed /\ c.summaries = s.summaries /\ c.at = s.at
      /\ c.next = Behind(s, n) /\ c.current = picks /\ c.chosen = picks
      /\ c.batch = <<s.at.cycle, s.at.cursor>> /\ c.selections = s.selections + 1
      /\ c.picked = picked
  <2> DEFINE next == Behind(s, n)
             batch == <<s.at.cycle, s.at.cursor>>
             more == s.selections + 1
  <2>1. c = [s EXCEPT !.current = picks, !.next = next, !.chosen = picks, !.batch = batch,
                      !.selections = more, !.picked = picked]
    BY DEF Choose
  <2>2. /\ picks \in SUBSET Tasks /\ next \in Position /\ batch \in Nat \X Nat
        /\ more \in Nat /\ picked \in [Tasks -> Nat]
    BY <1>1, <1>2, <1>3, <1>4
  <2> HIDE DEF c, picks, picked, next, batch, more
  <2>3. /\ c \in CampaignState
        /\ c.completed = s.completed /\ c.summaries = s.summaries /\ c.at = s.at
        /\ c.next = next /\ c.current = picks /\ c.chosen = picks
        /\ c.batch = batch /\ c.picked = picked /\ c.selections = more
    <3>1. c \in CampaignState
      BY <2>1, <2>2 DEF CampaignState
    <3>2. /\ c.completed = s.completed /\ c.summaries = s.summaries /\ c.at = s.at
          /\ c.next = next /\ c.current = picks /\ c.chosen = picks
          /\ c.batch = batch /\ c.picked = picked /\ c.selections = more
      BY <2>1 DEF CampaignState
    <3> QED
      BY <3>1, <3>2
  <2> QED
    BY <2>3 DEF next, batch, more
<1> HIDE DEF c
<1>6. Placed(c) /\ c.next # None
  BY <1>1, <1>3, <1>5 DEF Placed, Ready
<1>7. Dated(c)
  BY <1>5 DEF Dated, Ready
<1>8. Numbered(c)
  BY <1>5 DEF Numbered, Ready
<1>9. Waiting(c)
  <2> SUFFICES ASSUME NEW t \in Tasks
               PROVE  /\ c.picked[t] <= c.selections
                      /\ BatchSize * (c.selections - c.picked[t]) + Ahead(NextPosition(c), t)
                           <= 2 * NTasks - 2
    BY DEF Waiting
  <2>1. NextPosition(c) = Behind(s, n)
    BY <1>5, <1>6 DEF NextPosition
  <2>2. CASE t \in picks
    <3>1. c.picked[t] = s.selections + 1
      BY <1>5, <2>2
    <3>2. c.selections - c.picked[t] = 0 /\ c.picked[t] <= c.selections
      BY <1>2, <1>5, <3>1
    <3>3. Ahead(Behind(s, n), t) \in 0 .. 2 * NTasks - 2
      BY <1>3, AheadIsBounded
    <3> QED
      BY <1>1, <2>1, <3>2, <3>3
  <2>3. CASE t \notin picks
    <3> DEFINE d == s.selections - s.picked[t]
    <3>1. /\ d \in Nat /\ c.picked[t] = s.picked[t] /\ c.selections - c.picked[t] = d + 1
          /\ c.picked[t] <= c.selections
      <4>1. s.picked[t] \in Nat /\ s.picked[t] <= s.selections
        BY <1>2 DEF Ready
      <4> QED
        BY <1>2, <1>5, <2>3, <4>1
    <3>2. BatchSize * d + Ahead(s.at, t) <= 2 * NTasks - 2
      BY DEF Ready
    <3>3. Ahead(Behind(s, n), t) = Ahead(s.at, t) - n
      BY <1>1, <2>3, AheadShrinks
    <3>4. Ahead(s.at, t) \in 0 .. 2 * NTasks - 2
      BY <1>2, AheadIsBounded
    <3> HIDE DEF d
    <3>5. BatchSize * (d + 1) = BatchSize * d + BatchSize /\ BatchSize * d \in Nat
      BY <1>1, <3>1, OneMoreBatch
    <3>6. BatchSize * (c.selections - c.picked[t]) = BatchSize * d + BatchSize
      BY <3>1, <3>5
    <3> HIDE DEF n
    <3> QED
      BY <1>1, <2>1, <3>1, <3>2, <3>3, <3>4, <3>5, <3>6
  <2> QED
    BY <2>2, <2>3
<1>10. \A e \in s.completed : e.batch # c.batch
  BY <1>2, <1>5, PrecedesIsStrict DEF Ready
<1>11. Explained(c)
  BY <1>5 DEF Explained
<1> QED
  BY <1>5, <1>6, <1>7, <1>8, <1>9, <1>10, <1>11 DEF Sound, c

\* Between two selections, and with none that is still to be run, a state is ready.
LEMMA SoundIsReady ==
  ASSUME NEW s \in CampaignState, Sound(s), s.next = None
  PROVE  Ready(s)
BY DEF Sound, Placed, Dated, Waiting, NextPosition, Ready

\* The position behind the batch takes the place of that in front of it.
LEMMA AdvanceFits ==
  ASSUME NEW s \in CampaignState, Sound(s), s.next # None, NEW left \in SUBSET s.chosen,
         NEW a, a = [s EXCEPT !.at = s.next, !.next = None, !.current = left]
  PROVE  a \in CampaignState /\ Sound(a) /\ Ready(a) /\ a.next = None
         /\ a.completed = s.completed /\ a.summaries = s.summaries
<1>1. a \in CampaignState
  BY DEF CampaignState
<1>2. /\ a.at = s.next /\ a.next = None /\ a.current = left /\ a.completed = s.completed
      /\ a.summaries = s.summaries /\ a.picked = s.picked /\ a.selections = s.selections
      /\ a.chosen = s.chosen
  BY DEF CampaignState
<1>3. \A e \in s.completed : Precedes(e.batch, s.next)
  <2> TAKE e \in s.completed
  <2>1. s.at \in Position /\ s.next \in Position /\ e.batch \in Nat \X Nat
    BY DEF CampaignState, TrialEntry
  <2>2. Precedes(<<s.at.cycle, s.at.cursor>>, s.next) /\ Precedes(s.batch, s.next)
    BY DEF Sound, Placed
  <2>3. Precedes(e.batch, s.at) \/ e.batch = s.batch
    BY DEF Sound, Dated
  <2> QED
    BY <2>1, <2>2, <2>3, PrecedesIsStrict
<1>4. Placed(a)
  BY <1>2 DEF Sound, Placed
<1>5. Dated(a) /\ Numbered(a) /\ Waiting(a) /\ Explained(a)
  BY <1>2, <1>3 DEF Sound, Dated, Numbered, Waiting, NextPosition, Explained
<1> QED
  BY <1>1, <1>2, <1>4, <1>5, SoundIsReady DEF Sound

\* A trial that no summary names makes its task count as completed.
LEMMA UnsummarisedIsActive ==
  ASSUME NEW s \in CampaignState, Numbered(s), NEW e \in s.completed, e \notin SummarisedTrials(s)
  PROVE  e.task \in ActiveCompleted(s)
<1>1. CASE SummarisedTrials(s) # {}
  BY <1>1 DEF ActiveCompleted
<1>2. CASE SummarisedTrials(s) = {}
  <2>1. DOMAIN s.summaries = {}
    <3> SUFFICES ASSUME NEW k \in DOMAIN s.summaries PROVE FALSE
      OBVIOUS
    <3>1. s.summaries[k].trials # {}
      BY DEF Numbered
    <3>2. s.summaries[k].trials \subseteq SummarisedTrials(s)
      BY DEF SummarisedTrials
    <3> QED
      BY <1>2, <3>1, <3>2
  <2>2. SummaryIds(s) = {}
    BY <2>1 DEF SummaryIds
  <2> QED
    BY <2>2 DEF ActiveCompleted
<1> QED
  BY <1>1, <1>2

\* A task counts as completed only for a trial that no summary names.
LEMMA ActiveIsUnscored ==
  ASSUME NEW s \in CampaignState, Numbered(s), NEW t \in ActiveCompleted(s)
  PROVE  t \in UnscoredTasks(s)
<1>1. PICK e \in s.completed :
        /\ t = e.task
        /\ \/ SummarisedTrials(s) # {} /\ e \notin SummarisedTrials(s)
           \/ e.iteration \notin SummaryIds(s)
  BY DEF ActiveCompleted
<1>2. ASSUME NEW k \in DOMAIN s.summaries, e \in s.summaries[k].trials
      PROVE  e.iteration \in SummaryIds(s)
  BY <1>2 DEF Numbered, SummaryIds
<1>3. e \notin SummarisedTrials(s)
  BY <1>1, <1>2 DEF SummarisedTrials
<1> QED
  BY <1>1, <1>3 DEF UnscoredTasks

\* What is selected was not run for its batch.
LEMMA SelectedFits ==
  ASSUME orders \in [0 .. Cycles - 1 -> Permutation], NEW s \in CampaignState, Sound(s)
  PROVE  LET c == Selected(s)
         IN  /\ c \in CampaignState /\ Sound(c) /\ c.next # None
             /\ c.completed = s.completed /\ c.summaries = s.summaries
             /\ \A e \in s.completed :
                  e.batch = c.batch /\ ~ e.diagnostic => e.task \notin c.current
<1> DEFINE c == Selected(s)
           remaining == s.current \ ActiveCompleted(s)
<1>1. s.next # None => s.current # {}
  BY DEF Sound, Placed
<1>2. CASE s.next = None
  <2>1. Ready(s)
    BY <1>2, SoundIsReady
  <2>2. c = Choose(s)
    BY <1>2 DEF Selected
  <2> QED
    BY <2>1, <2>2, ChooseFits
<1>3. CASE s.next # None /\ remaining # {}
  <2>1. c = [s EXCEPT !.current = remaining]
    BY <1>1, <1>3 DEF Selected
  <2> HIDE DEF c, remaining
  <2>2. /\ c.at = s.at /\ c.next = s.next /\ c.current = remaining /\ c.completed = s.completed
        /\ c.summaries = s.summaries /\ c.picked = s.picked /\ c.selections = s.selections
        /\ c.chosen = s.chosen /\ c.batch = s.batch
    BY <2>1 DEF CampaignState
  <2>3. c \in CampaignState
    <3>1. remaining \in SUBSET Tasks
      BY DEF CampaignState, remaining
    <3> QED
      BY <2>1, <3>1 DEF CampaignState
  <2>4. Placed(c)
    <3>1. remaining \subseteq s.current
      BY DEF remaining
    <3> QED
      BY <1>3, <2>2, <3>1 DEF Sound, Placed
  <2>5. Dated(c) /\ Numbered(c) /\ Waiting(c)
    BY <2>2 DEF Sound, Dated, Numbered, Waiting, NextPosition, SummarisedTrials
  <2>6. Explained(c)
    <3>1. UnscoredTasks(c) = UnscoredTasks(s)
      BY <2>2 DEF UnscoredTasks, SummarisedTrials
    <3>2. s.chosen \ s.current \subseteq UnscoredTasks(s)
      BY <1>3 DEF Sound, Explained
    <3>3. s.current \ remaining \subseteq UnscoredTasks(s)
      BY ActiveIsUnscored DEF Sound, remaining
    <3> QED
      BY <2>2, <3>1, <3>2, <3>3 DEF Explained
  <2>7. ASSUME NEW e \in s.completed, e.batch = s.batch
        PROVE  e.task \notin remaining
    <3>1. s.at \in Position /\ e.batch \in Nat \X Nat /\ s.batch = <<s.at.cycle, s.at.cursor>>
      BY <1>3 DEF CampaignState, TrialEntry, Sound, Placed
    <3>2. ~ Precedes(e.batch, s.at)
      BY <2>7, <3>1, PrecedesIsStrict
    <3>3. e \notin SummarisedTrials(s)
      BY <3>2 DEF Sound, Dated
    <3> QED
      BY <3>3, UnsummarisedIsActive DEF Sound, remaining
  <2> QED
    BY <1>3, <2>2, <2>3, <2>4, <2>5, <2>6, <2>7 DEF Sound, c
<1>4. CASE s.next # None /\ remaining = {}
  <2> DEFINE a == [Advance(s) EXCEPT !.current = {}]
  <2>1. c = Choose(a)
    BY <1>1, <1>4 DEF Selected
  <2>2. a = [s EXCEPT !.at = s.next, !.next = None, !.current = {}]
    BY <1>4 DEF Advance
  <2> HIDE DEF a
  <2>3. /\ a \in CampaignState /\ Ready(a)
        /\ a.completed = s.completed /\ a.summaries = s.summaries
    <3>1. {} \in SUBSET s.chosen
      OBVIOUS
    <3> QED
      BY <1>4, <2>2, <3>1, AdvanceFits
  <2> QED
    BY <2>1, <2>3, ChooseFits
<1> QED
  BY <1>2, <1>3, <1>4

-----------------------------------------------------------------------------
(* The invariant is inductive *)

\* A new campaign has run nothing and is at the start of its first order.
LEMMA InitRotates == CampaignInit => Rotation
<1> SUFFICES ASSUME CampaignInit PROVE Rotation
  OBVIOUS
<1>1. /\ orders \in [0 .. Cycles - 1 -> Permutation] /\ state = NewState /\ checkpoint = NewState
      /\ step = "down" /\ iteration = 0 /\ todo = {} /\ results = {}
      /\ diagnostics = 0 /\ life = 0
  BY DEF CampaignInit
<1>2. NTasks \in Nat /\ NTasks >= 1 /\ BatchSize \in Nat /\ Order(0) \in Permutation
  BY <1>1, PlanType, OrderType
<1> DEFINE first == [cycle |-> 0, cursor |-> 0, order |-> Order(0)]
           none == [t \in Tasks |-> 0]
<1>3. first \in Position /\ none \in [Tasks -> Nat] /\ <<0, 0>> \in Nat \X Nat
  BY <1>2 DEF Position
<1>4. NewState = [completed |-> {}, summaries |-> <<>>, at |-> first, next |-> None,
                  current |-> {}, chosen |-> {}, batch |-> <<0, 0>>, picked |-> none,
                  selections |-> 0]
  BY DEF NewState
<1>5. NewState \in CampaignState
  <2> HIDE DEF first, none
  <2> QED
    BY <1>3, <1>4 DEF CampaignState
<1>6. Sound(NewState)
  <2>1. Placed(NewState)
    BY <1>4 DEF Placed
  <2>2. Dated(NewState)
    BY <1>4 DEF Dated
  <2>3. Numbered(NewState)
    BY <1>4 DEF Numbered
  <2>4. Waiting(NewState)
    <3> SUFFICES ASSUME NEW t \in Tasks
                 PROVE  /\ NewState.picked[t] <= NewState.selections
                        /\ BatchSize * (NewState.selections - NewState.picked[t])
                             + Ahead(NextPosition(NewState), t) <= 2 * NTasks - 2
      BY DEF Waiting
    <3>1. NewState.picked[t] = 0 /\ NewState.selections = 0 /\ NextPosition(NewState) = first
      BY <1>4 DEF NextPosition
    <3>2. Ahead(first, t) \in 0 .. 2 * NTasks - 2
      BY <1>1, <1>3, AheadIsBounded
    <3> QED
      BY <1>2, <3>1, <3>2
  <2>5. Explained(NewState)
    BY <1>4 DEF Explained
  <2> QED
    BY <2>1, <2>2, <2>3, <2>4, <2>5 DEF Sound
<1>7. NewState.completed = {} /\ NewState.current = {} /\ NewState.chosen = {}
  BY <1>4
<1> QED
  BY <1>1, <1>5, <1>6, <1>7
  DEF Rotation, StateIsSound, CheckpointIsSound, CampaignTypeOK, OnceForASelection,
      OnlyProgressIsLeftOut, Running

\* A campaign that resumes goes on with the number behind the last summary.
LEMMA ResumeNumber ==
  ASSUME NEW s \in CampaignState, Numbered(s)
  PROVE  ResumeIndex(s) = Len(s.summaries) /\ Len(s.summaries) \in Nat
<1> DEFINE n == Len(s.summaries)
           ran == {e.iteration : e \in s.completed} \cup {0}
           last == CHOOSE k \in ran : \A l \in ran : l <= k
           left == {n + 1 - k : k \in ran}
<1>1. n \in Nat
  BY DEF CampaignState
<1>2. \A k \in ran : k \in Nat /\ k <= n + 1
  BY <1>1 DEF CampaignState, TrialEntry, Numbered
<1>3. ResumeIndex(s) = IF last > n THEN last - 1 ELSE n
  BY DEF ResumeIndex
<1> HIDE DEF n
<1>4. left \in SUBSET Nat /\ left # {}
  <2> HIDE DEF ran
  <2>1. 0 \in ran
    BY DEF ran
  <2> QED
    BY <1>1, <1>2, <2>1
<1>5. PICK m \in left : \A l \in left : m <= l
  BY <1>4, LeastNumber
<1>6. PICK k \in ran : m = n + 1 - k
  OBVIOUS
<1>7. \A l \in ran : l <= k
  <2> TAKE l \in ran
  <2>1. n + 1 - l \in left
    OBVIOUS
  <2>2. n + 1 - k <= n + 1 - l
    BY <1>5, <1>6, <2>1
  <2>3. l \in Nat /\ k \in Nat
    BY <1>2, <1>6
  <2> HIDE DEF ran, left
  <2> QED
    BY <1>1, <2>2, <2>3
<1> HIDE DEF ran
<1>8. last \in ran
  BY <1>6, <1>7
<1> HIDE DEF last
<1>9. last \in Nat /\ last <= n + 1
  BY <1>2, <1>8
<1>10. ResumeIndex(s) = n
  BY <1>1, <1>3, <1>9
<1> QED
  BY <1>1, <1>10 DEF n

\* The orders are those of the seed: what is sound stays so.
LEMMA SoundStays ==
  ASSUME NEW s, Sound(s), UNCHANGED orders
  PROVE  /\ state' = s => StateIsSound'
         /\ checkpoint' = s => CheckpointIsSound'
<1>1. ASSUME state' = s PROVE StateIsSound'
  <2>1. Placed(state)'
    BY <1>1 DEF Sound, Placed, Order, Precedes
  <2>2. Dated(state)' /\ Numbered(state)'
    BY <1>1 DEF Sound, Dated, Numbered, Precedes, SummarisedTrials
  <2>3. Waiting(state)'
    <3>1. NextPosition(state)' = NextPosition(s)
      BY <1>1 DEF NextPosition
    <3>2. \A t : Ahead(NextPosition(state), t)' = Ahead(NextPosition(s), t)
      BY <3>1 DEF Ahead, PlaceIn, Order
    <3>3. state'.picked = s.picked /\ state'.selections = s.selections
      BY <1>1
    <3> QED
      BY <3>2, <3>3 DEF Sound, Waiting
  <2>4. Explained(state)'
    BY <1>1 DEF Sound, Explained, UnscoredTasks, SummarisedTrials
  <2> QED
    BY <2>1, <2>2, <2>3, <2>4 DEF StateIsSound, Sound
<1>2. ASSUME checkpoint' = s PROVE CheckpointIsSound'
  <2>1. Placed(checkpoint)'
    BY <1>2 DEF Sound, Placed, Order, Precedes
  <2>2. Dated(checkpoint)' /\ Numbered(checkpoint)'
    BY <1>2 DEF Sound, Dated, Numbered, Precedes, SummarisedTrials
  <2>3. Waiting(checkpoint)'
    <3>1. NextPosition(checkpoint)' = NextPosition(s)
      BY <1>2 DEF NextPosition
    <3>2. \A t : Ahead(NextPosition(checkpoint), t)' = Ahead(NextPosition(s), t)
      BY <3>1 DEF Ahead, PlaceIn, Order
    <3>3. checkpoint'.picked = s.picked /\ checkpoint'.selections = s.selections
      BY <1>2
    <3> QED
      BY <3>2, <3>3 DEF Sound, Waiting
  <2>4. Explained(checkpoint)'
    BY <1>2 DEF Sound, Explained, UnscoredTasks, SummarisedTrials
  <2> QED
    BY <2>1, <2>2, <2>3, <2>4 DEF CheckpointIsSound, Sound
<1> QED
  BY <1>1, <1>2

\* A campaign that starts or resumes makes its selection from the checkpoint.
LEMMA StartRotates ==
  ASSUME Rotation, Start
  PROVE  Rotation'
<1>1. /\ orders \in [0 .. Cycles - 1 -> Permutation]
      /\ checkpoint \in CampaignState /\ Sound(checkpoint)
      /\ diagnostics \in Nat /\ life \in Nat /\ step = "down" /\ todo = {}
      /\ checkpoint.completed = state.completed /\ checkpoint.summaries = state.summaries
      /\ results \subseteq state.completed
  BY DEF Rotation, CampaignTypeOK, CheckpointIsSound, Running, Start
<1>2. /\ step' = "top" /\ state' = Selected(checkpoint) /\ checkpoint' = state'
      /\ iteration' = ResumeIndex(checkpoint)
      /\ UNCHANGED <<orders, todo, results, diagnostics, life>>
  BY DEF Start
<1>3. /\ state' \in CampaignState /\ Sound(Selected(checkpoint))
      /\ state'.completed = checkpoint.completed /\ state'.summaries = checkpoint.summaries
  BY <1>1, <1>2, SelectedFits
<1>4. StateIsSound' /\ CheckpointIsSound'
  BY <1>2, <1>3, SoundStays
<1>5. state'.current \subseteq state'.chosen
  BY <1>2, <1>3 DEF Sound, Placed
<1>6. iteration' = Len(state'.summaries) /\ iteration' \in Nat
  BY <1>1, <1>2, <1>3, ResumeNumber DEF Sound
<1>7. CampaignTypeOK'
  BY <1>1, <1>2, <1>3, <1>5, <1>6 DEF CampaignTypeOK
<1>8. OnceForASelection' /\ OnlyProgressIsLeftOut'
  BY <1>1, <1>2, <1>3 DEF Rotation, OnceForASelection, OnlyProgressIsLeftOut
<1>9. Running'
  BY <1>1, <1>2, <1>6 DEF Running
<1> QED
  BY <1>2, <1>4, <1>7, <1>8, <1>9 DEF Rotation

\* The selection at the top of the loop, made again on what the start selected.
LEMMA BeginIterationRotates ==
  ASSUME Rotation, BeginIteration
  PROVE  Rotation'
<1>1. /\ orders \in [0 .. Cycles - 1 -> Permutation] /\ state \in CampaignState /\ Sound(state)
      /\ checkpoint \in CampaignState /\ Sound(checkpoint)
      /\ diagnostics \in Nat /\ life \in Nat /\ iteration \in Nat
      /\ iteration = Len(state.summaries)
      /\ checkpoint.completed = state.completed /\ checkpoint.summaries = state.summaries
  BY DEF Rotation, CampaignTypeOK, StateIsSound, CheckpointIsSound, Running, BeginIteration
<1>2. /\ step' = "run" /\ state' = Selected(state) /\ todo' = state'.current /\ results' = {}
      /\ iteration' = iteration + 1
      /\ UNCHANGED <<orders, checkpoint, diagnostics, life>>
  BY DEF BeginIteration
<1>3. /\ state' \in CampaignState /\ Sound(Selected(state)) /\ state'.next # None
      /\ state'.completed = state.completed /\ state'.summaries = state.summaries
      /\ \A e \in state.completed :
           e.batch = state'.batch /\ ~ e.diagnostic => e.task \notin todo'
  BY <1>1, <1>2, SelectedFits
<1>4. StateIsSound' /\ CheckpointIsSound'
  BY <1>1, <1>2, <1>3, SoundStays
<1>5. state'.current \subseteq state'.chosen /\ state'.current # {}
  BY <1>2, <1>3 DEF Sound, Placed
<1>6. CampaignTypeOK'
  BY <1>1, <1>2, <1>3, <1>5 DEF CampaignTypeOK
<1>7. OnceForASelection' /\ OnlyProgressIsLeftOut'
  <2>1. state'.chosen \ state'.current \subseteq UnscoredTasks(state')
    BY <1>2, <1>3 DEF Sound, Explained
  <2> QED
    BY <1>2, <1>3, <2>1
    DEF Rotation, OnceForASelection, OnlyProgressIsLeftOut, UnscoredTasks, SummarisedTrials
<1>8. Running'
  BY <1>1, <1>2, <1>3, <1>5 DEF Running
<1> QED
  BY <1>1, <1>2, <1>3, <1>4, <1>6, <1>7, <1>8 DEF Rotation

\* A trial of this iteration is recorded, as part of it or as a diagnostic one.
LEMMA RecordingRotates ==
  ASSUME Rotation, step = "run",
         NEW e \in TrialEntry, e.iteration = iteration, e.batch = state.batch,
         e.diagnostic \/ e.task \in todo, todo' = todo \ {e.task},
         state' = [state EXCEPT !.completed = @ \cup {e}], checkpoint' = state',
         results' \in {results, results \cup {e}}, results' # {},
         diagnostics' \in Nat, UNCHANGED <<step, orders, iteration, life>>
  PROVE  Rotation'
<1>1. /\ orders \in [0 .. Cycles - 1 -> Permutation] /\ state \in CampaignState /\ Sound(state)
      /\ life \in Nat /\ iteration \in Nat /\ state.next # None
      /\ iteration = Len(state.summaries) + 1 /\ Len(state.summaries) \in Nat
      /\ todo \subseteq state.current /\ state.current \subseteq state.chosen
      /\ results \subseteq state.completed
  BY DEF Rotation, CampaignTypeOK, StateIsSound, Running, CampaignState
<1> DEFINE s == [state EXCEPT !.completed = @ \cup {e}]
<1>2. /\ s.completed = state.completed \cup {e} /\ s.summaries = state.summaries
      /\ s.at = state.at /\ s.next = state.next /\ s.current = state.current
      /\ s.chosen = state.chosen /\ s.batch = state.batch /\ s.picked = state.picked
      /\ s.selections = state.selections
  BY <1>1 DEF CampaignState
<1>3. s \in CampaignState
  BY <1>1 DEF CampaignState
<1>4. state' = s /\ checkpoint' = s
  OBVIOUS
<1> HIDE DEF s
<1>5. Numbered(s)
  BY <1>1, <1>2 DEF Sound, Numbered
<1>6. SummarisedTrials(s) = SummarisedTrials(state) /\ e \notin SummarisedTrials(state)
  <2> SUFFICES ASSUME NEW k \in DOMAIN state.summaries, e \in state.summaries[k].trials
               PROVE  FALSE
    BY <1>2 DEF SummarisedTrials
  <2>1. e.iteration = k /\ k \in 1 .. Len(state.summaries)
    BY <1>1 DEF Sound, Numbered, CampaignState
  <2> QED
    BY <1>1, <2>1
<1>7. UnscoredTasks(s) = UnscoredTasks(state) \cup {e.task}
  BY <1>2, <1>6 DEF UnscoredTasks
<1>8. Dated(s) /\ Explained(s)
  BY <1>1, <1>2, <1>6, <1>7 DEF Sound, Dated, Explained
<1>9. Placed(s) /\ Waiting(s)
  BY <1>1, <1>2 DEF Sound, Placed, Waiting, NextPosition
<1>10. StateIsSound' /\ CheckpointIsSound'
  BY <1>4, <1>5, <1>8, <1>9, SoundStays DEF Sound
<1>11. CampaignTypeOK'
  BY <1>1, <1>2, <1>3, <1>4 DEF Rotation, CampaignTypeOK
<1>12. \A f \in state.completed :
         f.batch = state.batch /\ ~ f.diagnostic => f.task \notin todo
  BY DEF Rotation, Running
<1>13. OnceForASelection'
  <2>1. \A f, g \in state.completed :
          ~ f.diagnostic /\ ~ g.diagnostic /\ f.task = g.task /\ f.batch = g.batch => f = g
    BY DEF Rotation, OnceForASelection
  <2>2. \A f \in state.completed :
          ~ e.diagnostic /\ ~ f.diagnostic /\ e.task = f.task => f.batch # e.batch
    BY <1>12
  <2>3. \A f, g \in state.completed \cup {e} :
          ~ f.diagnostic /\ ~ g.diagnostic /\ f.task = g.task /\ f.batch = g.batch => f = g
    BY <2>1, <2>2
  <2>4. state'.completed = state.completed \cup {e}
    BY <1>2, <1>4
  <2> QED
    BY <2>3, <2>4 DEF OnceForASelection
<1>14. OnlyProgressIsLeftOut'
  <2>1. state.chosen \ todo \subseteq UnscoredTasks(state)
    BY DEF Rotation, OnlyProgressIsLeftOut
  <2>2. state'.chosen \ todo' \subseteq UnscoredTasks(s)
    BY <1>2, <1>4, <1>7, <2>1
  <2>3. UnscoredTasks(state') = UnscoredTasks(s)
    BY <1>4
  <2> QED
    BY <2>2, <2>3 DEF OnlyProgressIsLeftOut, UnscoredTasks, SummarisedTrials
<1>15. Running'
  <2>1. \A f \in results' : f.iteration = iteration
    BY DEF Rotation, Running
  <2> QED
    BY <1>1, <1>2, <1>4, <1>12, <2>1 DEF Running
<1> QED
  BY <1>4, <1>10, <1>11, <1>13, <1>14, <1>15 DEF Rotation

\* The trials of the iteration go into one more summary, and the batch is over.
LEMMA SummariseRotates ==
  ASSUME Rotation, Summarise
  PROVE  Rotation'
<1> DEFINE a == [state EXCEPT !.at = state.next, !.next = None, !.current = state.current]
           new == [iteration |-> iteration, trials |-> results]
           more == Append(state.summaries, new)
           n == Len(state.summaries)
<1>1. /\ orders \in [0 .. Cycles - 1 -> Permutation] /\ state \in CampaignState /\ Sound(state)
      /\ life \in Nat /\ diagnostics \in Nat /\ state.next # None /\ iteration \in Nat
      /\ iteration = n + 1 /\ n \in Nat /\ state.current \subseteq state.chosen
      /\ results \subseteq state.completed /\ results # {} /\ todo = {}
      /\ \A e \in results : e.iteration = iteration
  BY DEF Rotation, CampaignTypeOK, StateIsSound, Running, CampaignState, Summarise
<1>2. /\ step' = "top" /\ checkpoint' = state'
      /\ UNCHANGED <<orders, iteration, todo, results, diagnostics, life>>
      /\ state' = [[state EXCEPT !.summaries = more] EXCEPT !.at = state.next, !.next = None]
  <2>1. [state EXCEPT !.summaries = more].next = state.next
    BY <1>1 DEF CampaignState
  <2> QED
    BY <1>1, <2>1 DEF Summarise, Advance
<1>3. /\ a \in CampaignState /\ Sound(a) /\ a.next = None
      /\ a.completed = state.completed /\ a.summaries = state.summaries
  <2>1. state.current \in SUBSET state.chosen
    BY <1>1
  <2> QED
    BY <1>1, <2>1, AdvanceFits
<1>4. /\ new \in [iteration : Nat, trials : SUBSET TrialEntry]
      /\ new.iteration = n + 1 /\ new.trials = results
  BY <1>1 DEF CampaignState
<1>5. /\ more \in Seq([iteration : Nat, trials : SUBSET TrialEntry]) /\ Len(more) = n + 1
      /\ more[n + 1] = new /\ DOMAIN more = 1 .. n + 1
      /\ \A k \in 1 .. n : more[k] = state.summaries[k]
  <2> HIDE DEF new
  <2>1. state.summaries \in Seq([iteration : Nat, trials : SUBSET TrialEntry])
    BY <1>1 DEF CampaignState
  <2> QED
    BY <1>1, <1>4, <2>1
<1> HIDE DEF more, new
<1>6. /\ state' \in CampaignState /\ state'.summaries = more /\ state'.completed = state.completed
      /\ state'.at = state.next /\ state'.next = None /\ state'.current = state.current
      /\ state'.chosen = state.chosen /\ state'.batch = state.batch
      /\ state'.picked = state.picked /\ state'.selections = state.selections
  BY <1>1, <1>2, <1>5 DEF CampaignState
<1>7. /\ a.at = state.next /\ a.current = state.current
      /\ a.chosen = state.chosen /\ a.batch = state.batch
      /\ a.picked = state.picked /\ a.selections = state.selections
  BY <1>1 DEF CampaignState
<1> HIDE DEF a
<1> DEFINE s == state'
<1>8. /\ s \in CampaignState /\ s.summaries = more /\ s.completed = a.completed
      /\ s.at = a.at /\ s.next = a.next /\ s.current = a.current /\ s.chosen = a.chosen
      /\ s.batch = a.batch /\ s.picked = a.picked /\ s.selections = a.selections
  BY <1>3, <1>6, <1>7
<1> HIDE DEF s
<1>9. Placed(s) /\ Waiting(s) /\ Dated(s) /\ Explained(s)
  BY <1>3, <1>8 DEF Sound, Placed, Waiting, NextPosition, Dated, Explained
<1>10. Numbered(s)
  <2>1. \A k \in 1 .. n : /\ state.summaries[k].iteration = k /\ state.summaries[k].trials # {}
                          /\ \A e \in state.summaries[k].trials :
                               e \in state.completed /\ e.iteration = k
    BY <1>1 DEF Sound, Numbered, CampaignState
  <2>2. \A e \in state.completed : e.iteration \in Nat /\ e.iteration <= n + 1
    BY <1>1 DEF Sound, Numbered, CampaignState, TrialEntry
  <2>3. \A k \in DOMAIN more : /\ more[k].iteration = k /\ more[k].trials # {}
                               /\ \A e \in more[k].trials :
                                    e \in state.completed /\ e.iteration = k
    <3> TAKE k \in DOMAIN more
    <3>1. CASE k = n + 1
      BY <1>1, <1>4, <1>5, <3>1
    <3>2. CASE k \in 1 .. n
      BY <1>5, <2>1, <3>2
    <3> QED
      BY <1>1, <1>5, <3>1, <3>2
  <2>4. \A e \in state.completed : e.iteration <= Len(more) + 1
    BY <1>1, <1>5, <2>2
  <2> QED
    BY <1>3, <1>8, <2>3, <2>4 DEF Numbered
<1>11. StateIsSound' /\ CheckpointIsSound'
  <2>1. state' = s /\ checkpoint' = s
    BY <1>2 DEF s
  <2> QED
    BY <1>2, <1>9, <1>10, <2>1, SoundStays DEF Sound
<1>12. CampaignTypeOK'
  BY <1>1, <1>2, <1>6 DEF CampaignTypeOK
<1>13. OnceForASelection' /\ OnlyProgressIsLeftOut'
  BY <1>2, <1>6 DEF Rotation, OnceForASelection, OnlyProgressIsLeftOut
<1>14. Running'
  BY <1>1, <1>2, <1>5, <1>6 DEF Running
<1> QED
  BY <1>2, <1>11, <1>12, <1>13, <1>14 DEF Rotation

\* What was selected but not written is forgotten, and nothing that was run.
LEMMA ResumeRotates ==
  ASSUME Rotation, Resume
  PROVE  Rotation'
<1>1. /\ checkpoint \in CampaignState /\ Sound(checkpoint) /\ life \in Nat /\ diagnostics \in Nat
      /\ orders \in [0 .. Cycles - 1 -> Permutation]
      /\ checkpoint.completed = state.completed /\ checkpoint.summaries = state.summaries
  BY DEF Rotation, CampaignTypeOK, CheckpointIsSound
<1>2. /\ step' = "down" /\ life' = life + 1 /\ state' = checkpoint /\ iteration' = 0 /\ todo' = {}
      /\ results' = {} /\ UNCHANGED <<orders, checkpoint, diagnostics>>
  BY DEF Resume
<1>3. StateIsSound' /\ CheckpointIsSound'
  BY <1>1, <1>2, SoundStays
<1>4. CampaignTypeOK'
  BY <1>1, <1>2 DEF CampaignTypeOK, Sound, Placed
<1>5. OnceForASelection' /\ OnlyProgressIsLeftOut' /\ Running'
  BY <1>1, <1>2 DEF Rotation, OnceForASelection, OnlyProgressIsLeftOut, Running
<1> QED
  BY <1>2, <1>3, <1>4, <1>5 DEF Rotation

\* The trial of a task is of this iteration and of the batch of the state.
LEMMA TrialType ==
  ASSUME Rotation, NEW t \in Tasks, NEW d \in BOOLEAN
  PROVE  /\ NewTrial(t, d) \in TrialEntry /\ NewTrial(t, d).task = t
         /\ NewTrial(t, d).iteration = iteration /\ NewTrial(t, d).batch = state.batch
         /\ NewTrial(t, d).diagnostic = d
BY DEF NewTrial, TrialEntry, Rotation, CampaignTypeOK, CampaignState

\* Every step keeps Rotation.
LEMMA NextRotates ==
  ASSUME Rotation, [CampaignNext]_campaignVars
  PROVE  Rotation'
<1>1. CASE Start
  BY <1>1, StartRotates
<1>2. CASE BeginIteration
  BY <1>2, BeginIterationRotates
<1>3. CASE Summarise
  BY <1>3, SummariseRotates
<1>4. CASE Resume
  BY <1>4, ResumeRotates
<1>5. ASSUME NEW t \in Tasks, Run(t)
      PROVE  Rotation'
  <2> DEFINE e == NewTrial(t, FALSE)
  <2>1. e \in TrialEntry /\ e.task = t /\ e.iteration = iteration /\ e.batch = state.batch
    BY TrialType
  <2>2. /\ step = "run" /\ t \in todo /\ todo' = todo \ {t} /\ results' = results \cup {e}
        /\ state' = [state EXCEPT !.completed = @ \cup {e}] /\ checkpoint' = state'
        /\ UNCHANGED <<step, orders, iteration, diagnostics, life>>
    BY <1>5 DEF Run
  <2>3. diagnostics' \in Nat
    BY <2>2 DEF Rotation, CampaignTypeOK
  <2> HIDE DEF e
  <2> QED
    BY <2>1, <2>2, <2>3, RecordingRotates
<1>6. ASSUME NEW t \in Tasks, Diagnose(t)
      PROVE  Rotation'
  <2> DEFINE e == NewTrial(t, TRUE)
  <2>1. /\ e \in TrialEntry /\ e.task = t /\ e.iteration = iteration /\ e.batch = state.batch
        /\ e.diagnostic
    BY TrialType
  <2>2. /\ step = "run" /\ todo = {} /\ todo' = todo /\ results' = results
        /\ state' = [state EXCEPT !.completed = @ \cup {e}] /\ checkpoint' = state'
        /\ diagnostics' = diagnostics + 1 /\ UNCHANGED <<step, orders, iteration, life>>
    BY <1>6 DEF Diagnose
  <2>3. results # {}
    BY <1>6, Zenon DEF Diagnose
  <2>4. diagnostics' \in Nat /\ todo' = todo \ {t}
    BY <2>2 DEF Rotation, CampaignTypeOK
  <2> HIDE DEF e
  <2> QED
    <3>1. /\ e.diagnostic \/ e.task \in todo
          /\ todo' = todo \ {e.task} /\ results' \in {results, results \cup {e}} /\ results' # {}
      BY <2>1, <2>2, <2>3, <2>4
    <3>2. /\ step = "run" /\ state' = [state EXCEPT !.completed = @ \cup {e}] /\ checkpoint' = state'
          /\ diagnostics' \in Nat /\ UNCHANGED <<step, orders, iteration, life>>
      BY <2>2, <2>4
    <3> QED
      BY <2>1, <3>1, <3>2, RecordingRotates
<1>7. CASE UNCHANGED campaignVars
  <2>1. UNCHANGED <<step, orders, state, checkpoint, iteration, todo, results, diagnostics, life>>
    BY <1>7 DEF campaignVars
  <2>2. StateIsSound' /\ CheckpointIsSound'
    BY <2>1, SoundStays DEF Rotation, StateIsSound, CheckpointIsSound
  <2>3. CampaignTypeOK' /\ OnceForASelection' /\ Running'
    BY <2>1 DEF Rotation, CampaignTypeOK, OnceForASelection, Running
  <2>4. OnlyProgressIsLeftOut'
    BY <2>1 DEF Rotation, OnlyProgressIsLeftOut, UnscoredTasks, SummarisedTrials
  <2> QED
    BY <2>1, <2>2, <2>3, <2>4 DEF Rotation
<1> QED
  BY <1>1, <1>2, <1>3, <1>4, <1>5, <1>6, <1>7 DEF CampaignNext

\* Rotation is an invariant.
LEMMA RotationHolds == CampaignSpec => []Rotation
BY InitRotates, NextRotates, PTL DEF CampaignSpec

\* A task runs at most once for the batch it was selected in, though the selection is
\* made twice before an iteration and again after each resume (_iteration_tasks), and
\* an iteration leaves one out only for a trial of it that is still to be scored.
THEOREM TasksRunOnce == CampaignSpec => []CampaignInv
<1>1. Rotation => CampaignInv
  BY DEF Rotation, CampaignInv
<1> QED
  BY <1>1, RotationHolds, PTL

\* No task waits for its next selection longer than two orders that put it first and
\* last make it wait, whatever was interrupted between them (_advance_task_rotation).
THEOREM EveryTaskReturns == CampaignSpec => []NoTaskIsForgotten
<1>1. Rotation => NoTaskIsForgotten
  <2> SUFFICES ASSUME Rotation, NEW t \in Tasks
               PROVE  state.selections - state.picked[t] <= (2 * NTasks - 2) \div BatchSize
    BY DEF NoTaskIsForgotten
  <2> DEFINE d == state.selections - state.picked[t]
             m == 2 * NTasks - 2
  <2>1. /\ state \in CampaignState /\ orders \in [0 .. Cycles - 1 -> Permutation]
        /\ state.picked[t] <= state.selections
        /\ BatchSize * d + Ahead(NextPosition(state), t) <= m
    BY DEF Rotation, CampaignTypeOK, StateIsSound, Sound, Waiting
  <2>2. NextPosition(state) \in Position
    BY <2>1 DEF NextPosition, CampaignState
  <2>3. Ahead(NextPosition(state), t) \in 0 .. m
    BY <2>1, <2>2, AheadIsBounded
  <2>4. d \in Nat /\ m \in Nat /\ BatchSize \in Nat /\ BatchSize > 0
    BY <2>1, PlanType DEF CampaignState
  <2> HIDE DEF d, m
  <2>5. BatchSize * d <= m
    BY <2>1, <2>3, <2>4
  <2>6. d <= m \div BatchSize
    BY <2>4, <2>5
  <2> QED
    BY <2>6 DEF d, m
<1> QED
  BY <1>1, RotationHolds, PTL

\* Summaries are numbered without gap or repetition, also when an iteration was begun
\* again after a resume (ResumeIndex), and a trial counts in that of its number alone.
THEOREM SummariesShareNothing == CampaignSpec => []TrialsAreScoredOnce
<1>1. Rotation => TrialsAreScoredOnce
  BY DEF Rotation, StateIsSound, Sound, Numbered, TrialsAreScoredOnce
<1> QED
  BY <1>1, RotationHolds, PTL

=============================================================================

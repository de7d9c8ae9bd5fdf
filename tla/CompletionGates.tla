-------------------------- MODULE CompletionGates --------------------------
(***************************************************************************)
(* When the worker may end its run: the completion gate of run_worker in   *)
(* crates/hl-worker-core/src/main.rs.  A call of done is accepted only if  *)
(* no todo is open, no failed check is unrepaired, and the artifact that a *)
(* contract of the task is about passed the contract's preflight.          *)
(*                                                                         *)
(* The code has one copy of the preflight machinery for each family of     *)
(* contracts.  They differ in when a change of the artifact counts, in     *)
(* what a failed check that names the contract leaves behind, and in what  *)
(* the preflight is due for: a row of the table says which.  Calls are     *)
(* compared by their turn; one turn has several.  Families share nothing   *)
(* but the checks, so one of them at a time is enough.                     *)
(***************************************************************************)
EXTENDS Naturals

CONSTANTS
  Families,   \* the rows of the table that are considered
  MaxTurns,   \* bound on the turns
  MaxCalls    \* bound on the tool calls of one turn

VARIABLES
  family,     \* the row of the contract that the task is about
  pc,         \* request, tools, or accepted when the gate has let done pass
  turn_count, calls,
  todos,      \* todos_block_completion
  done,       \* done was called in this turn
  unresolved_local_exception,
  unresolved_failed_verification,     \* none, or whether it names the contract
  unresolved_local_semantic_failure,  \* likewise
  contract,   \* turns: touched, observed, preflight; required: the flag
  repairs,    \* history: for each kind of failure, what passed after the last
  told,       \* history: the task itself sets the flag
  unchecked,  \* history: how the artifact was changed since its preflight passed
  named,      \* history: turn of the last failure that named the contract
  checked     \* history: turn of the last preflight that passed

checkVars == <<unresolved_local_exception, unresolved_failed_verification,
               unresolved_local_semantic_failure, repairs>>
contractVars == <<contract, told, unchecked, named, checked>>
vars == <<family, pc, turn_count, calls, todos, done, checkVars, contractVars>>

-----------------------------------------------------------------------------
(* The table.  touch: a change of the artifact counts never, always, once   *)
(* the flag is set, once the contract is known in any way, or it arms the   *)
(* flag itself.  due: the preflight is due as soon as the contract is       *)
(* required, or only after a change.  Traits: a failed check that names the *)
(* contract sets the flag (flag) and its turn (dated); an unresolved        *)
(* failure that names it is read as part of the task (reads); a change by   *)
(* the preflight command counts (own); a preflight may miss required        *)
(* fixtures or columns (strict).                                            *)

Row(name, touch, due, traits) ==
  [name |-> name, touch |-> touch, due |-> due, traits |-> traits]

Regex == Row("regex", "always", "required", {"reads", "own"})
StateTransition ==
  Row("state_transition", "flagged", "required", {"flag", "own", "strict"})
StructuredCsv ==
  Row("structured_csv", "always", "required", {"reads", "strict"})
RecoveredJson == Row("recovered_json", "arms", "required", {"flag", "reads"})
DnaPrimer == Row("dna_primer", "arms", "required", {"flag", "dated", "reads"})
Sparql == Row("sparql", "arms", "required", {"flag", "reads"})
GeneratedScript ==
  Row("generated_script", "arms", "required", {"flag", "dated", "reads"})
TokenSubstitution ==
  Row("token_substitution", "flagged", "required", {"flag", "reads"})
DatasetShard == Row("dataset_shard", "none", "required", {"reads"})
ExactOutput == Row("exact_output", "always", "change", {})
ImageSimilarity == Row("image_similarity", "flagged", "change", {})
HtmlFilter == Row("html_filter", "flagged", "change", {"flag"})
SpectralPeak == Row("spectral_peak", "flagged", "required", {"reads"})
StructuredNumeric ==
  Row("structured_numeric", "known", "required", {"flag", "reads"})
Arithmetic == Row("arithmetic", "none", "required", {"flag", "reads"})
NativeCrash == Row("native_crash", "none", "required", {"flag", "dated", "reads"})
Pytorch == Row("pytorch", "none", "required", {"flag", "dated", "reads"})
GitSanitization ==
  Row("git_sanitization", "none", "required", {"flag", "dated", "reads"})

AllFamilies ==
  {Regex, StateTransition, StructuredCsv, RecoveredJson, DnaPrimer, Sparql,
   GeneratedScript, TokenSubstitution, DatasetShard, ExactOutput,
   ImageSimilarity, HtmlFilter, SpectralPeak, StructuredNumeric, Arithmetic,
   NativeCrash, Pytorch, GitSanitization}

ASSUME FamiliesAssumption == Families \subseteq AllFamilies
ASSUME BoundsAssumption == MaxTurns \in Nat \ {0} /\ MaxCalls \in Nat

-----------------------------------------------------------------------------
Has(trait) == trait \in family.traits
Later(i, j) == IF i < j THEN j ELSE i

\* ..._preflight_required: by the flag, or by an unresolved failure's text.
Required ==
  \/ contract.required
  \/ /\ Has("reads")
     /\ "ours" \in {unresolved_failed_verification,
                    unresolved_local_semantic_failure}

\* ..._preflight_reference_turn and ..._preflight_pending.
Reference ==
  Later(contract.touched,
        IF family.due = "required" /\ Required
        THEN Later(contract.observed, 1) ELSE 0)

\* Mutant: a preflight is enough forever.
PendingOnce == Reference > 0 /\ contract.preflight = 0
Pending == Reference > 0 /\ contract.preflight < Reference

\* record_..._artifact_progress counts this change of the artifact.
Counts(own) ==
  /\ own => Has("own")
  /\ \/ family.touch \in {"always", "arms"}
     \/ family.touch = "flagged" /\ contract.required
     \/ family.touch = "known" /\ Required

\* Mutant: syntax-only checks repair too.
StrongEnough(recheck, syntax) == recheck

\* is_strong_exception_repair_verification: tests or the failed command are run
\* again, and more than the syntax is checked.
Strong(recheck, syntax) == recheck /\ ~ syntax

-----------------------------------------------------------------------------
\* WorkerState::new: the flag and its turn come from the task.
Init ==
  /\ family \in Families
  /\ pc = "request" /\ turn_count = 0 /\ calls = 0
  /\ todos = FALSE /\ done = FALSE
  /\ unresolved_local_exception = FALSE
  /\ unresolved_failed_verification = "none"
  /\ unresolved_local_semantic_failure = "none"
  /\ told \in BOOLEAN
  /\ contract = [touched |-> 0, preflight |-> 0, required |-> told,
                 observed |-> IF Has("dated") /\ told THEN 1 ELSE 0]
  /\ repairs = [exception |-> {"pass", "strong"},
                verification |-> {"pass", "strong"},
                semantic |-> {"pass", "strong"}]
  /\ unchecked = {} /\ named = 0 /\ checked = 0

\* The model answers.
Answer ==
  /\ pc = "request" /\ turn_count < MaxTurns
  /\ pc' = "tools" /\ turn_count' = turn_count + 1
  /\ calls' = 0 /\ done' = FALSE
  /\ UNCHANGED <<family, todos, checkVars, contractVars>>

Call ==
  /\ pc = "tools" /\ calls < MaxCalls
  /\ calls' = calls + 1
  /\ UNCHANGED <<family, pc, turn_count>>

\* sync_todos_from_tool.
WriteTodos ==
  /\ Call
  /\ todos' \in BOOLEAN
  /\ UNCHANGED <<done, checkVars, contractVars>>

CallDone ==
  /\ Call
  /\ done' = TRUE
  /\ UNCHANGED <<todos, checkVars, contractVars>>

Arms == family.touch = "arms"

\* The contract after record_..._artifact_progress has counted a change.
Touched(k) ==
  [touched |-> turn_count, preflight |-> k.preflight,
   required |-> IF Arms THEN TRUE ELSE k.required,
   observed |-> IF Arms /\ Has("dated") /\ k.observed = 0 THEN turn_count
                ELSE k.observed]

\* Whether the worker has to follow changes of the artifact: always, or since
\* the task or a failed check told it of the contract.
Watched ==
  \/ family.touch \in {"always", "arms"}
  \/ family.touch # "none" /\ (told \/ (Has("flag") /\ named > 0))

\* How a change was made: by a call that failed or that need not be watched, in
\* the turn of a preflight that passed, by a preflight that did not, or by any
\* other work.
Change(succeeded, own, passed) ==
  IF ~ succeeded \/ ~ Watched THEN "unseen"
  ELSE IF passed \/ checked = turn_count THEN "late"
  ELSE IF own THEN "preflight" ELSE "work"

\* Mutant: a preflight counts for changes of the next turn.
PreflightedAhead(k, valid) ==
  IF valid THEN [k EXCEPT !.preflight = turn_count + 1] ELSE k

\* record_successful_..._preflight.
Preflighted(k, valid) == IF valid THEN [k EXCEPT !.preflight = turn_count] ELSE k

\* A tool call that succeeded: record_tool_progress.  A verification is any
\* local verification that is not the preflight of the family.
CallSucceeds ==
  /\ Call
  /\ \E kind \in {"verification", "preflight", "other"},
        touches \in BOOLEAN, recheck \in BOOLEAN, syntax \in BOOLEAN,
        valid \in BOOLEAN :
       LET own == kind = "preflight"
           checks == kind # "other"
           passed == own /\ valid
           change == IF touches THEN {Change(TRUE, own, passed)} ELSE {}
           after == IF touches /\ Counts(own) THEN Touched(contract) ELSE contract
           repair == (IF valid THEN {"pass"} ELSE {})
                       \cup (IF recheck /\ ~ syntax THEN {"strong"} ELSE {})
       IN  /\ ~ valid => own /\ Has("strict")
           /\ recheck \/ syntax => checks
           /\ contract' = IF own THEN Preflighted(after, valid) ELSE after
           /\ checked' = IF passed THEN turn_count ELSE checked
           /\ unchecked' = (IF passed THEN {} ELSE unchecked) \cup change
           /\ IF checks
              THEN /\ unresolved_failed_verification' =
                        IF valid THEN "none" ELSE unresolved_failed_verification
                   /\ unresolved_local_semantic_failure' =
                        IF valid \/ Strong(recheck, syntax) THEN "none"
                        ELSE unresolved_local_semantic_failure
                   /\ unresolved_local_exception' =
                        (unresolved_local_exception /\ ~ Strong(recheck, syntax))
                   /\ repairs' = [f \in DOMAIN repairs |-> repairs[f] \cup repair]
              ELSE UNCHANGED checkVars
  /\ UNCHANGED <<todos, done, told, named>>

\* The contract after a failure that names it.
Named(k) ==
  IF ~ Has("flag") THEN k
  ELSE [k EXCEPT !.required = TRUE,
                 !.observed = IF Has("dated") THEN turn_count ELSE @]

\* Mutant: only a failure with a focus sets the flags.
ObservedWithFocus(contracts, focus) == contracts = "ours" /\ focus

\* The flags are set before the focus of the failure is asked for.
Observed(contracts, focus) == contracts = "ours"

\* A local verification or a script failed: record_local_exception_observation,
\* record_failed_verification_observation and the one of semantic failures,
\* whose contracts may be another family's; without focus, as after a timeout,
\* no semantic failure is kept.  What a call changed before it failed is not
\* recorded.
CallFails ==
  /\ Call
  /\ \E verification \in BOOLEAN, exception \in BOOLEAN, focus \in BOOLEAN,
        touches \in BOOLEAN, contracts \in {"none", "other", "ours"} :
       /\ unresolved_local_exception' = (unresolved_local_exception \/ exception)
       /\ unresolved_failed_verification' =
            IF ~ verification THEN unresolved_failed_verification
            ELSE IF contracts = "ours" THEN "ours" ELSE "other"
       /\ unresolved_local_semantic_failure' =
            IF contracts # "none" /\ focus THEN contracts
            ELSE unresolved_local_semantic_failure
       /\ contract' = IF Observed(contracts, focus) THEN Named(contract)
                      ELSE contract
       /\ named' = IF contracts = "ours" THEN turn_count ELSE named
       /\ unchecked' = IF touches THEN unchecked \cup {Change(FALSE, FALSE, FALSE)}
                       ELSE unchecked
       /\ repairs' = [repairs EXCEPT
                        !.exception = IF exception THEN {} ELSE @,
                        !.verification = IF verification THEN {} ELSE @,
                        !.semantic = IF contracts # "none" /\ focus THEN {} ELSE @]
  /\ UNCHANGED <<todos, done, told, checked>>

\* completion_gate_passed.
Passed ==
  /\ ~ todos
  /\ ~ unresolved_local_exception
  /\ unresolved_failed_verification = "none"
  /\ unresolved_local_semantic_failure = "none"
  /\ ~ Pending

\* The calls of the answer are done, or it had none.
EndRound ==
  /\ pc = "tools"
  /\ pc' = IF done /\ Passed THEN "accepted" ELSE "request"
  /\ UNCHANGED <<family, turn_count, calls, todos, done, checkVars,
                 contractVars>>

Next ==
  \/ Answer \/ WriteTodos \/ CallDone \/ CallSucceeds \/ CallFails \/ EndRound

Spec == Init /\ [][Next]_vars

-----------------------------------------------------------------------------
Turns == 0 .. MaxTurns
Failures == {"exception", "verification", "semantic"}
Changes == {"unseen", "late", "preflight", "work"}

TypeOK ==
  /\ family \in Families
  /\ pc \in {"request", "tools", "accepted"}
  /\ turn_count \in Turns /\ calls \in 0 .. MaxCalls
  /\ pc # "request" => turn_count > 0
  /\ todos \in BOOLEAN /\ done \in BOOLEAN
  /\ unresolved_local_exception \in BOOLEAN
  /\ unresolved_failed_verification \in {"none", "other", "ours"}
  /\ unresolved_local_semantic_failure \in {"none", "other", "ours"}
  /\ contract \in [touched : Turns, preflight : Turns, observed : Turns,
                   required : BOOLEAN]
  /\ repairs \in [Failures -> SUBSET {"pass", "strong"}]
  /\ told \in BOOLEAN /\ unchecked \subseteq Changes
  /\ named \in Turns /\ checked \in Turns

\* What is kept of a failure, until it is repaired.
FailuresAreKept ==
  /\ unresolved_local_exception \/ "strong" \in repairs["exception"]
  /\ unresolved_failed_verification # "none" \/ "pass" \in repairs["verification"]
  /\ unresolved_local_semantic_failure # "none" \/ repairs["semantic"] # {}

\* The kinds of changes after which a family needs its preflight again.
Followed == {"work"} \cup IF Has("own") THEN {"preflight"} ELSE {}

\* The turns of the contract are those of what happened to it.
TurnsAreKept ==
  /\ contract.preflight = checked /\ checked <= turn_count
  /\ contract.touched <= turn_count
  /\ unchecked \cap Followed # {} => contract.touched > checked
  /\ told => contract.required
  /\ named > 0 /\ Has("flag") =>
       contract.required /\ (Has("dated") => contract.observed >= named)

\* The inductive invariant: what the worker keeps in its flags and turns is
\* what happened, and a run that ended has passed the gate.
Inv ==
  /\ TypeOK
  /\ FailuresAreKept
  /\ TurnsAreKept
  /\ pc = "accepted" => Passed

\* A run ends only after its failures are repaired: since the last exception of
\* a local script the tests or the failed command ran again, since the last
\* failed verification one passed, and since the last semantic failure either.
FailuresAreRepaired ==
  pc = "accepted" =>
    /\ "strong" \in repairs["exception"]
    /\ "pass" \in repairs["verification"]
    /\ repairs["semantic"] # {}

\* A run does not end on an artifact that a successful call changed in a later
\* turn than the preflight passed, once the worker has to watch the artifact: for
\* some families always, for others since the task or any failed check named the
\* contract, however that failure was resolved.  A preflight that did not pass is
\* such a call only where the table says own.  Nothing is promised of changes by
\* calls that fail, before the contract was named, in the turn of the preflight
\* but behind it, by other families' preflights, of the five families that watch
\* nothing, or of what the worker does not recognise as a change.
ChangesAreChecked == pc = "accepted" => unchecked \cap Followed = {}

\* The families that keep in mind a contract which a failed check named: eleven.
\* html_filter sets its flag and still waits for a change of the artifact; six
\* have no flag that a failure sets.
Remembers == Has("flag") /\ family.due = "required"

\* For these families a contract that a failed check named is not forgotten when
\* some other check passes or the task never spoke of it: the run ends only after
\* its preflight passed, and for those that keep the turn of the failure not in
\* an earlier turn.  The others may forget it once the failure is resolved.
RememberedContractsAreChecked ==
  pc = "accepted" /\ named > 0 /\ Remembers =>
    IF Has("dated") THEN checked >= named ELSE checked > 0
=============================================================================

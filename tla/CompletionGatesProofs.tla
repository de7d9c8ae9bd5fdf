----------------------- MODULE CompletionGatesProofs -----------------------
(***************************************************************************)
(* Inv of CompletionGates is inductive for any families of the table and   *)
(* any number of turns and calls, and what the run promises follows.       *)
(***************************************************************************)
EXTENDS CompletionGates, TLAPS

Contracts ==
  [touched : Turns, preflight : Turns, observed : Turns, required : BOOLEAN]

\* What a change of the artifact leaves of the contract.
LEMMA TouchedFacts ==
  ASSUME NEW k \in Contracts, turn_count \in Turns
  PROVE  /\ Touched(k) \in Contracts
         /\ Touched(k).touched = turn_count
         /\ Touched(k).preflight = k.preflight
         /\ k.required => Touched(k).required
         /\ k.observed > 0 => Touched(k).observed = k.observed
<1>1. /\ k.touched \in Turns /\ k.preflight \in Turns /\ k.observed \in Turns
      /\ k.required \in BOOLEAN
  BY DEF Contracts
<1>2. /\ Touched(k).touched = turn_count
      /\ Touched(k).preflight = k.preflight
      /\ Touched(k).required = IF Arms THEN TRUE ELSE k.required
      /\ Touched(k).observed \in {turn_count, k.observed}
      /\ k.observed # 0 => Touched(k).observed = k.observed
  BY DEF Touched
<1>3. Touched(k) \in Contracts
  BY <1>1 DEF Touched, Contracts
<1> QED
  BY <1>1, <1>2, <1>3 DEF Turns

\* A change and a preflight in one call, in that order.
LEMMA PreflightedFacts ==
  ASSUME NEW k \in Contracts, NEW valid \in BOOLEAN, turn_count \in Turns
  PROVE  LET p == Preflighted(k, valid) IN
         /\ p \in Contracts
         /\ p.touched = k.touched /\ p.required = k.required
         /\ p.observed = k.observed
         /\ p.preflight = IF valid THEN turn_count ELSE k.preflight
BY DEF Preflighted, Contracts, Turns

LEMMA NamedFacts ==
  ASSUME NEW k \in Contracts, turn_count \in Turns
  PROVE  /\ Named(k) \in Contracts
         /\ Named(k).touched = k.touched /\ Named(k).preflight = k.preflight
         /\ Has("flag") =>
              Named(k).required /\ (Has("dated") => Named(k).observed = turn_count)
<1> QED
  BY DEF Named, Contracts, Turns

\* When a change counts is one of five cases in every row of the table.
LEMMA RowsFacts ==
  ASSUME NEW f \in AllFamilies
  PROVE  f.touch \in {"none", "always", "arms", "flagged", "known"}
BY DEF AllFamilies, Row, Regex, StateTransition, StructuredCsv, RecoveredJson,
       DnaPrimer, Sparql, GeneratedScript, TokenSubstitution, DatasetShard,
       ExactOutput, ImageSimilarity, HtmlFilter, SpectralPeak, StructuredNumeric,
       Arithmetic, NativeCrash, Pytorch, GitSanitization

\* A call that succeeded, taken apart.
LEMMA SuccessKeepsInv ==
  ASSUME Inv, CallSucceeds
  PROVE  Inv'
<1> USE DEF Inv
<1>1. PICK kind \in {"verification", "preflight", "other"},
           touches \in BOOLEAN, recheck \in BOOLEAN, syntax \in BOOLEAN,
           valid \in BOOLEAN :
        LET own == kind = "preflight"
            checks == kind # "other"
            passed == own /\ valid
            change == IF touches THEN {Change(TRUE, own, passed)} ELSE {}
            after == IF touches /\ Counts(own) THEN Touched(contract) ELSE contract
            repair == (IF valid THEN {"pass"} ELSE {})
                        \cup (IF recheck /\ ~ syntax THEN {"strong"} ELSE {})
        IN  /\ ~ valid => own /\ Has("strict")
            /\ recheck \/ syntax => checks
            /\ contract' = IF own THEN Preflighted(after, valid) ELSE after
            /\ checked' = IF passed THEN turn_count ELSE checked
            /\ unchecked' = (IF passed THEN {} ELSE unchecked) \cup change
            /\ IF checks
               THEN /\ unresolved_failed_verification' =
                         IF valid THEN "none" ELSE unresolved_failed_verification
                    /\ unresolved_local_semantic_failure' =
                         IF valid \/ Strong(recheck, syntax) THEN "none"
                         ELSE unresolved_local_semantic_failure
                    /\ unresolved_local_exception' =
                         (unresolved_local_exception /\ ~ Strong(recheck, syntax))
                    /\ repairs' = [f \in DOMAIN repairs |-> repairs[f] \cup repair]
               ELSE UNCHANGED checkVars
  BY DEF CallSucceeds
<1> DEFINE own == kind = "preflight"
           passed == own /\ valid
           counted == touches /\ Counts(own)
           after == IF counted THEN Touched(contract) ELSE contract
           repair == (IF valid THEN {"pass"} ELSE {})
                       \cup (IF recheck /\ ~ syntax THEN {"strong"} ELSE {})
<1>2. /\ pc = "tools" /\ pc' = "tools" /\ calls < MaxCalls /\ calls' = calls + 1
      /\ family' = family /\ turn_count' = turn_count
      /\ todos' = todos /\ done' = done /\ named' = named /\ told' = told
  BY DEF CallSucceeds, Call
<1>3. contract \in Contracts /\ turn_count \in Turns /\ family \in Families
      /\ unchecked \subseteq Changes /\ named \in Turns /\ checked \in Turns
      /\ repairs \in [Failures -> SUBSET {"pass", "strong"}]
  BY DEF TypeOK, Contracts
<1>4. after \in Contracts /\ after.preflight = contract.preflight
      /\ after.touched = (IF counted THEN turn_count ELSE contract.touched)
      /\ (contract.required => after.required)
      /\ (contract.observed > 0 => after.observed = contract.observed)
  BY <1>3, TouchedFacts
<1>5. contract' \in Contracts /\ contract'.touched = after.touched
      /\ contract'.required = after.required
      /\ contract'.observed = after.observed
      /\ contract'.preflight =
           (IF own /\ valid THEN turn_count ELSE contract.preflight)
  BY <1>1, <1>3, <1>4, PreflightedFacts
<1>6. \/ /\ unresolved_failed_verification' =
              (IF valid THEN "none" ELSE unresolved_failed_verification)
         /\ unresolved_local_semantic_failure' =
              (IF valid \/ (recheck /\ ~ syntax) THEN "none"
               ELSE unresolved_local_semantic_failure)
         /\ unresolved_local_exception' =
              (unresolved_local_exception /\ ~ (recheck /\ ~ syntax))
         /\ repairs' = [f \in Failures |-> repairs[f] \cup repair]
      \/ UNCHANGED checkVars
  BY <1>1, <1>3 DEF Strong
<1>7. FailuresAreKept'
  <2>1. CASE UNCHANGED checkVars
    BY <2>1 DEF FailuresAreKept, checkVars
  <2>2. CASE ~ UNCHANGED checkVars
    BY <1>3, <1>6, <2>2 DEF FailuresAreKept, Failures
  <2> QED
    BY <2>1, <2>2
<1>8. TurnsAreKept'
  <2>0. contract.touched \in Nat /\ checked \in Nat /\ turn_count \in Nat
    BY <1>3 DEF Contracts, Turns
  <2>1. contract'.preflight = checked' /\ checked' <= turn_count
    BY <1>1, <1>5, <2>0 DEF TurnsAreKept
  <2>2. contract'.touched <= turn_count /\ contract'.touched >= contract.touched
    BY <1>4, <1>5, <2>0 DEF TurnsAreKept
  <2>4. ASSUME unchecked' \cap Followed # {} PROVE contract'.touched > checked'
    <3>1. CASE passed
      <4>1. unchecked' \subseteq {Change(TRUE, own, passed)}
        BY <1>1, <3>1
      <4>2. Change(TRUE, own, passed) \in {"unseen", "late"}
        BY <3>1 DEF Change
      <4> QED
        BY <4>1, <4>2, <2>4 DEF Followed
    <3>2. CASE ~ passed /\ unchecked \cap Followed # {}
      <4>1. contract.touched > checked /\ checked' = checked
        BY <1>1, <3>2 DEF TurnsAreKept
      <4> QED
        BY <4>1, <2>0, <2>2, <1>3, <1>5 DEF Contracts, Turns
    <3>3. CASE ~ passed /\ unchecked \cap Followed = {}
      <4>1. checked' = checked /\ touches /\ Change(TRUE, own, passed) \in Followed
        BY <1>1, <2>4, <3>3
      <4>2. Watched /\ checked # turn_count /\ (own => Has("own"))
        BY <4>1, <3>3 DEF Change, Followed
      <4>3. Counts(own)
        <5>1. told \/ (Has("flag") /\ named > 0) => contract.required
          BY DEF TurnsAreKept
        <5>2. family.touch \in {"none", "always", "arms", "flagged", "known"}
          BY <1>3, FamiliesAssumption, RowsFacts
        <5> QED
          BY <4>2, <5>1, <5>2 DEF Watched, Counts, Required
      <4>4. contract'.touched = turn_count
        BY <1>4, <1>5, <4>1, <4>3
      <4>5. checked < turn_count
        BY <2>0, <4>2 DEF TurnsAreKept
      <4> QED
        BY <4>1, <4>4, <4>5
    <3> QED
      BY <3>1, <3>2, <3>3
  <2>5. told => contract'.required
    BY <1>4, <1>5 DEF TurnsAreKept
  <2>3. ASSUME named > 0, Has("flag")
        PROVE  contract'.required
               /\ (Has("dated") => contract'.observed >= named)
    <3>1. contract.required /\ (Has("dated") => contract.observed >= named)
      BY <2>3 DEF TurnsAreKept
    <3>2. contract.observed \in Nat /\ named \in Nat
      BY <1>3 DEF Contracts, Turns
    <3> QED
      BY <2>3, <3>1, <3>2, <1>4, <1>5
  <2> QED
    BY <1>2, <2>1, <2>2, <2>3, <2>4, <2>5 DEF TurnsAreKept, Has, Followed
<1>9. TypeOK'
  <2>1. repairs' \in [Failures -> SUBSET {"pass", "strong"}]
    <3>1. CASE UNCHANGED checkVars
      BY <1>3, <3>1 DEF checkVars
    <3>2. CASE ~ UNCHANGED checkVars
      BY <1>3, <1>6, <3>2
    <3> QED
      BY <3>1, <3>2
  <2>2. /\ unresolved_local_exception' \in BOOLEAN
        /\ unresolved_failed_verification' \in {"none", "other", "ours"}
        /\ unresolved_local_semantic_failure' \in {"none", "other", "ours"}
    <3>1. CASE UNCHANGED checkVars
      BY <3>1 DEF checkVars, TypeOK
    <3>2. CASE ~ UNCHANGED checkVars
      BY <1>6, <3>2 DEF TypeOK
    <3> QED
      BY <3>1, <3>2
  <2>3. /\ unchecked' \subseteq Changes /\ told' \in BOOLEAN
        /\ named' \in Turns /\ checked' \in Turns
    <3>1. Change(TRUE, own, passed) \in Changes
      BY DEF Change, Changes
    <3>2. unchecked' \subseteq Changes
      BY <1>1, <1>3, <3>1
    <3> QED
      BY <1>1, <1>2, <1>3, <3>2 DEF TypeOK
  <2>4. calls' \in 0 .. MaxCalls
    BY <1>2, BoundsAssumption DEF TypeOK
  <2> QED
    BY <1>2, <1>3, <1>5, <2>1, <2>2, <2>3, <2>4 DEF TypeOK, Contracts, Turns
<1> QED
  BY <1>2, <1>7, <1>8, <1>9

\* A call that failed only adds to what is kept.
LEMMA FailureKeepsInv ==
  ASSUME Inv, CallFails
  PROVE  Inv'
<1> USE DEF Inv
<1>1. PICK verification \in BOOLEAN, exception \in BOOLEAN, focus \in BOOLEAN,
           touches \in BOOLEAN, contracts \in {"none", "other", "ours"} :
        /\ unresolved_local_exception' = (unresolved_local_exception \/ exception)
        /\ unresolved_failed_verification' =
             IF ~ verification THEN unresolved_failed_verification
             ELSE IF contracts = "ours" THEN "ours" ELSE "other"
        /\ unresolved_local_semantic_failure' =
             IF contracts # "none" /\ focus THEN contracts
             ELSE unresolved_local_semantic_failure
        /\ contract' = IF Observed(contracts, focus) THEN Named(contract)
                       ELSE contract
        /\ named' = IF contracts = "ours" THEN turn_count ELSE named
        /\ unchecked' = IF touches THEN unchecked \cup {Change(FALSE, FALSE, FALSE)}
                        ELSE unchecked
        /\ repairs' = [repairs EXCEPT
                         !.exception = IF exception THEN {} ELSE @,
                         !.verification = IF verification THEN {} ELSE @,
                         !.semantic = IF contracts # "none" /\ focus THEN {} ELSE @]
  BY DEF CallFails
<1>2. /\ pc = "tools" /\ pc' = "tools" /\ calls < MaxCalls /\ calls' = calls + 1
      /\ family' = family /\ turn_count' = turn_count
      /\ todos' = todos /\ done' = done /\ told' = told /\ checked' = checked
  BY DEF CallFails, Call
<1>3. contract \in Contracts /\ turn_count \in Turns /\ family \in Families
      /\ unchecked \subseteq Changes /\ named \in Turns /\ checked \in Turns
      /\ repairs \in [Failures -> SUBSET {"pass", "strong"}]
  BY DEF TypeOK, Contracts
<1>4. contract' \in Contracts /\ contract'.touched = contract.touched
      /\ contract'.preflight = contract.preflight
      /\ IF contracts = "ours"
         THEN Has("flag") => contract'.required
                /\ (Has("dated") => contract'.observed = turn_count)
         ELSE contract' = contract
  BY <1>1, <1>3, NamedFacts DEF Observed
<1>5. /\ repairs'["exception"] = IF exception THEN {} ELSE repairs["exception"]
      /\ repairs'["verification"] =
           IF verification THEN {} ELSE repairs["verification"]
      /\ repairs'["semantic"] =
           IF contracts # "none" /\ focus THEN {} ELSE repairs["semantic"]
      /\ repairs' \in [Failures -> SUBSET {"pass", "strong"}]
  BY <1>1, <1>3 DEF Failures
<1>6. FailuresAreKept'
  <2>1. unresolved_local_exception' \/ "strong" \in repairs'["exception"]
    BY <1>1, <1>5 DEF FailuresAreKept
  <2>2. \/ unresolved_failed_verification' # "none"
        \/ "pass" \in repairs'["verification"]
    BY <1>1, <1>5 DEF FailuresAreKept
  <2>3. \/ unresolved_local_semantic_failure' # "none"
        \/ repairs'["semantic"] # {}
    BY <1>1, <1>5 DEF FailuresAreKept
  <2> QED
    BY <2>1, <2>2, <2>3 DEF FailuresAreKept
<1>7. TurnsAreKept'
  <2>1. /\ contract'.preflight = checked' /\ checked' <= turn_count
        /\ contract'.touched <= turn_count
    BY <1>2, <1>4 DEF TurnsAreKept
  <2>3. unchecked' \cap Followed \subseteq unchecked
    BY <1>1 DEF Change, Followed
  <2>4. unchecked' \cap Followed # {} => contract'.touched > checked'
    BY <1>2, <1>4, <2>3 DEF TurnsAreKept
  <2>5. told => contract'.required
    <3>1. told => contract.required
      BY DEF TurnsAreKept
    <3>2. contract.required => contract'.required
      BY <1>1 DEF Named
    <3> QED
      BY <3>1, <3>2
  <2>2. ASSUME named' > 0, Has("flag")
        PROVE  contract'.required
               /\ (Has("dated") => contract'.observed >= named')
    BY <1>1, <1>3, <1>4, <2>2 DEF TurnsAreKept, Contracts, Turns
  <2> QED
    BY <1>2, <2>1, <2>2, <2>4, <2>5 DEF TurnsAreKept, Has, Followed
<1>8. TypeOK'
  <2>1. /\ unresolved_local_exception' \in BOOLEAN
        /\ unresolved_failed_verification' \in {"none", "other", "ours"}
        /\ unresolved_local_semantic_failure' \in {"none", "other", "ours"}
    BY <1>1 DEF TypeOK
  <2>2. /\ unchecked' \subseteq Changes /\ told' \in BOOLEAN
        /\ named' \in Turns /\ checked' \in Turns
    <3>1. Change(FALSE, FALSE, FALSE) \in Changes
      BY DEF Change, Changes
    <3>2. unchecked' \subseteq Changes
      BY <1>1, <1>3, <3>1
    <3> QED
      BY <1>1, <1>2, <1>3, <3>2 DEF TypeOK
  <2>3. calls' \in 0 .. MaxCalls
    BY <1>2, BoundsAssumption DEF TypeOK
  <2> QED
    BY <1>2, <1>3, <1>4, <1>5, <2>1, <2>2, <2>3 DEF TypeOK, Contracts, Turns
<1> QED
  BY <1>2, <1>6, <1>7, <1>8

LEMMA InitInv == Init => Inv
<1> SUFFICES ASSUME Init PROVE Inv
  OBVIOUS
<1>1. /\ told \in BOOLEAN
      /\ contract = [touched |-> 0, preflight |-> 0, required |-> told,
                     observed |-> IF Has("dated") /\ told THEN 1 ELSE 0]
  BY DEF Init
<1>2. /\ contract \in Contracts /\ contract.touched = 0 /\ contract.preflight = 0
      /\ contract.required = told
  <2>1. 0 \in Turns /\ 1 \in Turns
    BY BoundsAssumption DEF Turns
  <2> QED
    BY <1>1, <2>1 DEF Contracts
<1>3. repairs \in [Failures -> SUBSET {"pass", "strong"}]
  BY DEF Init, Failures
<1>4. TypeOK
  <2>1. /\ turn_count \in Turns /\ calls \in 0 .. MaxCalls
        /\ unchecked \subseteq Changes /\ named \in Turns /\ checked \in Turns
    BY BoundsAssumption DEF Init, Turns
  <2>2. contract \in [touched : Turns, preflight : Turns, observed : Turns,
                      required : BOOLEAN]
    BY <1>2 DEF Contracts
  <2> QED
    BY <1>3, <2>1, <2>2 DEF Init, TypeOK
<1>5. FailuresAreKept
  <2>1. /\ repairs["exception"] = {"pass", "strong"}
        /\ repairs["verification"] = {"pass", "strong"}
        /\ repairs["semantic"] = {"pass", "strong"}
    BY DEF Init
  <2> QED
    BY <2>1 DEF FailuresAreKept
<1>6. TurnsAreKept
  BY <1>2 DEF Init, TurnsAreKept
<1> QED
  BY <1>4, <1>5, <1>6 DEF Init, Inv

LEMMA NextInv == Inv /\ [Next]_vars => Inv'
<1> SUFFICES ASSUME Inv, [Next]_vars PROVE Inv'
  OBVIOUS
<1>1. CASE Answer
  <2>1. turn_count' \in Turns /\ turn_count' > 0 /\ calls' \in 0 .. MaxCalls
    BY <1>1, BoundsAssumption DEF Answer, Inv, TypeOK, Turns
  <2>2. TypeOK'
    BY <1>1, <2>1 DEF Answer, Inv, TypeOK, Turns, checkVars, contractVars
  <2>3. FailuresAreKept'
    BY <1>1 DEF Answer, Inv, checkVars, contractVars, FailuresAreKept
  <2>4. checked' <= turn_count' /\ contract.touched <= turn_count'
    BY <1>1 DEF Answer, Inv, TypeOK, Turns, TurnsAreKept, contractVars
  <2>5. TurnsAreKept'
    BY <1>1, <2>4 DEF Answer, Inv, contractVars, TurnsAreKept, Has, Followed
  <2> QED
    BY <1>1, <2>2, <2>3, <2>5 DEF Answer, Inv
<1>2. CASE WriteTodos
  BY <1>2, BoundsAssumption
     DEF WriteTodos, Call, Inv, TypeOK, Turns, checkVars, contractVars,
         FailuresAreKept, TurnsAreKept, Has, Followed
<1>3. CASE CallDone
  BY <1>3, BoundsAssumption
     DEF CallDone, Call, Inv, TypeOK, Turns, checkVars, contractVars,
         FailuresAreKept, TurnsAreKept, Has, Followed
<1>4. CASE CallSucceeds
  BY <1>4, SuccessKeepsInv
<1>5. CASE CallFails
  BY <1>5, FailureKeepsInv
<1>6. CASE EndRound
  BY <1>6
     DEF EndRound, Inv, TypeOK, Turns, checkVars, contractVars, FailuresAreKept,
         TurnsAreKept, Passed, Pending, Reference, Required, Has, Followed
<1>7. CASE UNCHANGED vars
  BY <1>7
     DEF vars, Inv, TypeOK, Turns, checkVars, contractVars, FailuresAreKept,
         TurnsAreKept, Passed, Pending, Reference, Required, Has, Followed
<1> QED
  BY <1>1, <1>2, <1>3, <1>4, <1>5, <1>6, <1>7 DEF Next

\* Everything that holds of the worker's flags and turns holds always
\* (record_tool_progress and the three record_..._observation functions).
THEOREM InvHolds == Spec => []Inv
<1> QED
  BY InitInv, NextInv, PTL DEF Spec

\* No run ends with an unrepaired failure (completion_gate_passed).
THEOREM RunsEndRepaired == Spec => []FailuresAreRepaired
<1>1. Inv => FailuresAreRepaired
  BY DEF Inv, FailuresAreKept, FailuresAreRepaired, Passed
<1> QED
  BY <1>1, InvHolds, PTL

\* No run ends on an artifact that work which the family follows changed in a
\* later turn than its preflight passed (..._preflight_pending).
THEOREM RunsEndChecked == Spec => []ChangesAreChecked
<1>1. Inv => ChangesAreChecked
  <2> SUFFICES ASSUME Inv, pc = "accepted", unchecked \cap Followed # {}
               PROVE  FALSE
    BY DEF ChangesAreChecked
  <2>1. contract \in Contracts /\ checked \in Nat
    BY DEF Inv, TypeOK, Contracts, Turns
  <2>2. contract.touched \in Nat /\ contract.observed \in Nat
    BY <2>1 DEF Contracts, Turns
  <2>3. Reference \in Nat /\ Reference >= contract.touched
    BY <2>2 DEF Reference, Later
  <2>4. ~ Pending
    BY DEF Inv, Passed
  <2> QED
    BY <2>1, <2>2, <2>3, <2>4 DEF Inv, TurnsAreKept, Pending
<1> QED
  BY <1>1, InvHolds, PTL

\* Under the families that remember it, no run ends with a contract that a failed
\* check named and no preflight passed (..._preflight_required_turn).
THEOREM RunsEndWithContracts == Spec => []RememberedContractsAreChecked
<1>1. Inv => RememberedContractsAreChecked
  <2> SUFFICES ASSUME Inv, pc = "accepted", named > 0, Has("flag"),
                      family.due = "required"
               PROVE  IF Has("dated") THEN checked >= named ELSE checked > 0
    BY DEF RememberedContractsAreChecked, Remembers
  <2>1. contract \in Contracts /\ checked \in Nat /\ named \in Nat
    BY DEF Inv, TypeOK, Contracts, Turns
  <2>2. contract.touched \in Nat /\ contract.observed \in Nat
    BY <2>1 DEF Contracts, Turns
  <2>3. contract.required /\ (Has("dated") => contract.observed >= named)
    BY DEF Inv, TurnsAreKept
  <2>4. Reference = Later(contract.touched, Later(contract.observed, 1))
    BY <2>3 DEF Reference, Required
  <2>5. Reference \in Nat /\ Reference >= contract.observed /\ Reference >= 1
    BY <2>2, <2>4 DEF Later
  <2>6. ~ Pending /\ contract.preflight = checked
    BY DEF Inv, Passed, TurnsAreKept
  <2>7. checked >= Reference
    BY <2>1, <2>5, <2>6 DEF Pending
  <2> QED
    BY <2>1, <2>2, <2>3, <2>5, <2>7
<1> QED
  BY <1>1, InvHolds, PTL
=============================================================================

---------------------------- MODULE WorkerUsage ----------------------------
(***************************************************************************)
(* Token accounting of one worker: bench/usage.py normalises what the      *)
(* provider reports, WorkerState::accumulate_usage                         *)
(* (crates/hl-worker-core/src/main.rs) adds it up and                      *)
(* WorkerState::reported_usage publishes the totals.  A counter that is    *)
(* missing, negative, contradictory or too large once is unknown for good. *)
(* An optional counter is a set with at most one element.                  *)
(***************************************************************************)
EXTENDS Integers, FiniteSets

CONSTANTS
  MaxCount,  \* i64::MAX
  Calls,     \* what model calls cost and how their usage is told
  MaxLost    \* bound on what the calls cost whose answer gets lost

VARIABLES
  token_usage,    \* the totals of the keys that were counted at least once
  usage_unknown,  \* the keys whose total is not to be trusted
  spent,          \* history: what all calls cost
  lost            \* history: what the calls cost whose answer got lost

usageVars == <<token_usage, usage_unknown, spent, lost>>

Keys == {"input", "cache", "output"}
InputNames == {"prompt_tokens", "input_tokens"}
OutputNames == {"completion_tokens", "output_tokens"}
CacheRead == "cache_read_input_tokens"
CacheCreation == "cache_creation_input_tokens"
ProviderNames == InputNames \cup OutputNames \cup {CacheRead}

\* The usable value among those given under some names: all present ones must
\* agree, be no less than zero and fit.
Select(u, names) ==
  LET given == {u[f] : f \in names \cap DOMAIN u}
  IN  IF Cardinality(given) = 1 THEN {v \in given : v >= 0 /\ v <= MaxCount}
      ELSE {}

Creation(u) ==
  IF CacheCreation \in DOMAIN u THEN Select(u, {CacheCreation}) ELSE {0}

\* Input without cache hits: Anthropic reports it so and apart from what it
\* wrote to the cache, everybody else reports it with the hits included.
Partition(u, anthropic, inclusive, cache) ==
  LET input == IF anthropic
               THEN {i + c : i \in inclusive, c \in Creation(u)}
               ELSE {i - c : i \in inclusive, c \in cache}
      usable == {i \in input : i >= 0 /\ i <= MaxCount}
  IN  IF usable = {} \/ cache = {} THEN [input |-> {}, cache |-> {}]
      ELSE [input |-> usable, cache |-> cache]

\* normalize_worker_usage; cached_tokens is the member of prompt_tokens_details.
Normalize(u) ==
  LET anthropic == /\ {"prompt_tokens", "cached_tokens"} \cap DOMAIN u = {}
                   /\ CacheRead \in DOMAIN u
      cache == Select(u, {"cached_tokens", CacheRead})
      split == Partition(u, anthropic, Select(u, InputNames), cache)
  IN  [input |-> split.input, cache |-> split.cache,
       output |-> Select(u, OutputNames)]

\* What the bridge sends of it: the known counters under their own names.
BridgePayload(u) ==
  LET counts == Normalize(u)
  IN  [k \in {key \in Keys : counts[key] # {}} |->
         CHOOSE v \in counts[k] : TRUE]

\* The worker's reading of a payload in the schema of the bridge; provider
\* names mixed into it spoil every counter.
CanonicalCounts(u) ==
  [k \in Keys |-> IF ProviderNames \cap DOMAIN u # {} THEN {}
                  ELSE Select(u, {k})]

\* The worker's reading of a payload an older bridge passed through.
LegacyCounts(u) ==
  LET anthropic == /\ "prompt_tokens" \notin DOMAIN u
                   /\ {"input_tokens", CacheRead} \subseteq DOMAIN u
      split == Partition(u, anthropic, Select(u, InputNames),
                         Select(u, {CacheRead}))
  IN  [input |-> split.input, cache |-> split.cache,
       output |-> Select(u, OutputNames)]

Counts(u, schema) ==
  IF schema \/ Keys \cap DOMAIN u # {} THEN CanonicalCounts(u)
  ELSE LegacyCounts(u)

\* A call: what it cost, what the provider says of it and who passes that on.
Observed(call) == IF call.bridge THEN Counts(BridgePayload(call.raw), TRUE)
                  ELSE Counts(call.raw, FALSE)

-----------------------------------------------------------------------------
(* How providers report a cost. *)

LiteLLM(cost) ==
  [prompt_tokens |-> cost.input + cost.cache, cached_tokens |-> cost.cache,
   completion_tokens |-> cost.output]

OpenAI(cost) ==
  [prompt_tokens |-> cost.input + cost.cache,
   input_tokens |-> cost.input + cost.cache,
   cache_read_input_tokens |-> cost.cache,
   completion_tokens |-> cost.output, output_tokens |-> cost.output]

Anthropic(cost, written) ==
  [input_tokens |-> cost.input - written,
   cache_creation_input_tokens |-> written,
   cache_read_input_tokens |-> cost.cache, output_tokens |-> cost.output]

\* A report that lost some of its counters.
Without(u, names) == [f \in DOMAIN u \ names |-> u[f]]

(* What is assumed of a report: the values it has of a counter are right,  *)
(* contradict each other or are out of range, and its names tell whether   *)
(* the input is inclusive of the cache hits.  A message that lost what it  *)
(* says of the cache written is not one.                                   *)

Tells(u, names, x) ==
  LET given == {u[f] : f \in names \cap DOMAIN u}
  IN  \/ given \subseteq {x} \/ Cardinality(given) > 1
      \/ {v \in given : v >= 0 /\ v <= MaxCount} = {}

IsInclusive(u, cost) ==
  /\ "prompt_tokens" \in DOMAIN u \/ CacheRead \notin DOMAIN u
  /\ Tells(u, InputNames, cost.input + cost.cache)

IsExclusive(u, cost) ==
  /\ {"prompt_tokens", "cached_tokens"} \cap DOMAIN u = {}
  /\ CacheRead \in DOMAIN u
  /\ "input_tokens" \in DOMAIN u =>
       cost.input = u["input_tokens"] + IF CacheCreation \in DOMAIN u
                                        THEN u[CacheCreation] ELSE 0

IsReport(u, cost) ==
  /\ Keys \cap DOMAIN u = {}
  /\ IsInclusive(u, cost) \/ IsExclusive(u, cost)
  /\ Tells(u, {"cached_tokens", CacheRead}, cost.cache)
  /\ Tells(u, {CacheRead}, cost.cache)
  /\ Tells(u, OutputNames, cost.output)

ASSUME MaxCountAssumption == MaxCount \in Nat
ASSUME CallsAssumption ==
  \A call \in Calls :
    /\ call.cost \in [Keys -> Nat] /\ call.bridge \in BOOLEAN
    /\ IsReport(call.raw, call.cost)

-----------------------------------------------------------------------------
UsageInit ==
  /\ token_usage = [k \in {} |-> 0] /\ usage_unknown = {}
  /\ spent = [k \in Keys |-> 0] /\ lost = [k \in Keys |-> 0]

\* Mutant: a counter is unknown only until it is reported again.
AccountForgiving(call) ==
  LET counts == Observed(call)
      known == {k \in Keys : counts[k] # {}}
      Total(k) == IF k \in DOMAIN token_usage THEN token_usage[k] ELSE 0
      Sum(k) == Total(k) + CHOOSE v \in counts[k] : TRUE
  IN  /\ token_usage' =
           [k \in DOMAIN token_usage \cup known |->
              IF k \in known /\ Sum(k) <= MaxCount THEN Sum(k) ELSE Total(k)]
      /\ usage_unknown' = (Keys \ known) \cup {k \in known : Sum(k) > MaxCount}
      /\ spent' = [k \in Keys |-> spent[k] + call.cost[k]]
      /\ UNCHANGED lost

\* Mutant: the sum is not checked for overflow.
AccountUnchecked(call) ==
  LET counts == Observed(call)
      known == {k \in Keys : counts[k] # {}}
      Total(k) == IF k \in DOMAIN token_usage THEN token_usage[k] ELSE 0
      Sum(k) == Total(k) + CHOOSE v \in counts[k] : TRUE
  IN  /\ token_usage' = [k \in DOMAIN token_usage \cup known |->
                           IF k \in known THEN Sum(k) ELSE Total(k)]
      /\ usage_unknown' = usage_unknown \cup (Keys \ known)
      /\ spent' = [k \in Keys |-> spent[k] + call.cost[k]]
      /\ UNCHANGED lost

\* accumulate_usage for one accepted model response.
Account(call) ==
  LET counts == Observed(call)
      known == {k \in Keys : counts[k] # {}}
      Total(k) == IF k \in DOMAIN token_usage THEN token_usage[k] ELSE 0
      Sum(k) == Total(k) + CHOOSE v \in counts[k] : TRUE
      overflowing == {k \in known : Sum(k) > MaxCount}
  IN  /\ token_usage' =
           [k \in DOMAIN token_usage \cup known |->
              IF k \in known \ overflowing THEN Sum(k) ELSE Total(k)]
      /\ usage_unknown' = usage_unknown \cup (Keys \ known) \cup overflowing
      /\ spent' = [k \in Keys |-> spent[k] + call.cost[k]]
      /\ UNCHANGED lost

\* A call may be paid for without an answer to count: the bridge gives up
\* waiting or cannot convert what it got, and sends an error in its place.
Miss ==
  \/ UNCHANGED usageVars
  \/ \E call \in Calls :
       /\ spent' = [k \in Keys |-> spent[k] + call.cost[k]]
       /\ lost' = [k \in Keys |-> lost[k] + call.cost[k]]
       /\ \A k \in Keys : lost'[k] <= MaxLost
       /\ UNCHANGED <<token_usage, usage_unknown>>

Reported ==
  [k \in DOMAIN token_usage \ usage_unknown |-> token_usage[k]]

UsageTypeOK ==
  /\ DOMAIN token_usage \subseteq Keys
  /\ \A k \in DOMAIN token_usage : token_usage[k] \in 0 .. MaxCount
  /\ usage_unknown \subseteq Keys
  /\ spent \in [Keys -> Nat] /\ lost \in [Keys -> Nat]

\* A total the worker reports is what all its calls cost but for those whose
\* answer got lost, whatever mixture of complete, incomplete, contradictory and
\* overflowing reports it got: an answer that was accepted and not counted in
\* full hides the total for good.  A lost answer does not: its cost is missing
\* from a total that is still reported.
UsageIsExactOrUnknown ==
  \A k \in DOMAIN Reported : Reported[k] = spent[k] - lost[k]

\* The inductive part of it: the sum of a key that is not unknown is exact.
UsageFits ==
  /\ DOMAIN token_usage \subseteq Keys
  /\ spent \in [Keys -> Nat] /\ lost \in [Keys -> Nat]
  /\ \A k \in Keys \ usage_unknown :
       spent[k] - lost[k] =
         IF k \in DOMAIN token_usage THEN token_usage[k] ELSE 0
=============================================================================

------------------------- MODULE WorkerContextProofs -------------------------
(***************************************************************************)
(* For any calls whose reports are right as far as they go, every total    *)
(* the worker reports is what its calls cost.  For any thresholds, rounds, *)
(* results and errors, its list of messages pairs every call with its      *)
(* result, loses no message but to the trajectory, shows a round in full   *)
(* or announces that it could not, and shrinks before it is sent again.    *)
(* What keeps the list so is Context: it names the round that is waiting   *)
(* for results and the results that are owed, and every operation on a     *)
(* list is shown to move whole rounds.                                     *)
(***************************************************************************)
EXTENDS WorkerContext, FiniteSetTheorems, SequenceTheorems, WellFoundedInduction, TLAPS

-----------------------------------------------------------------------------
(* Reports. *)

\* Names that agree select their value or nothing.
LEMMA SelectOne ==
  ASSUME NEW u, NEW names, NEW x, \A f \in names \cap DOMAIN u : u[f] = x
  PROVE  Select(u, names) \subseteq {x}
  <1>1. {u[f] : f \in names \cap DOMAIN u} \subseteq {x}
    OBVIOUS
  <1> QED
    BY <1>1 DEF Select

\* So do names that tell it or contradict each other.
LEMMA SelectTold ==
  ASSUME NEW u, NEW names, NEW x, Tells(u, names, x)
  PROVE  Select(u, names) \subseteq {x}
  <1> DEFINE given == {u[f] : f \in names \cap DOMAIN u}
             fit == {v \in given : v >= 0 /\ v <= MaxCount}
  <1>1. \/ given \subseteq {x} \/ Cardinality(given) > 1
        \/ fit = {}
    BY DEF Tells
  <1>2. Select(u, names) = IF Cardinality(given) = 1 THEN fit ELSE {}
    BY DEF Select
  <1>3. fit \subseteq given
    OBVIOUS
  <1>4. CASE given \subseteq {x}
    BY <1>2, <1>3, <1>4
  <1>5. CASE Cardinality(given) > 1
    <2> HIDE DEF given, fit
    <2>1. Cardinality(given) # 1
      BY <1>5
    <2> QED
      BY <1>2, <2>1
  <1>6. CASE fit = {}
    BY <1>2, <1>6
  <1> QED
    BY <1>1, <1>4, <1>5, <1>6

LEMMA PartitionInclusive ==
  ASSUME NEW u, NEW anthropic, ~ anthropic, NEW x \in Int, NEW y \in Int,
         NEW inclusive \in SUBSET {x + y}, NEW cache \in SUBSET {y}
  PROVE  /\ Partition(u, anthropic, inclusive, cache).input \subseteq {x}
         /\ Partition(u, anthropic, inclusive, cache).cache \subseteq {y}
  <1> DEFINE usable == {n \in {i - c : i \in inclusive, c \in cache} :
                          n >= 0 /\ n <= MaxCount}
  <1>1. ASSUME NEW i \in inclusive, NEW c \in cache PROVE i - c = x
    <2>1. i = x + y /\ c = y
      OBVIOUS
    <2> QED
      BY <2>1
  <1>2. usable \subseteq {x}
    BY <1>1
  <1>3. Partition(u, anthropic, inclusive, cache)
          = IF usable = {} \/ cache = {} THEN [input |-> {}, cache |-> {}]
            ELSE [input |-> usable, cache |-> cache]
    BY DEF Partition
  <1> HIDE DEF usable
  <1>4. CASE usable = {} \/ cache = {}
    <2>1. Partition(u, anthropic, inclusive, cache) = [input |-> {}, cache |-> {}]
      BY <1>4, <1>3
    <2> QED
      BY <2>1
  <1>5. CASE ~ (usable = {} \/ cache = {})
    <2>1. Partition(u, anthropic, inclusive, cache) = [input |-> usable, cache |-> cache]
      BY <1>5, <1>3
    <2> QED
      BY <2>1, <1>2
  <1> QED
    BY <1>4, <1>5

LEMMA PartitionExclusive ==
  ASSUME NEW u, NEW anthropic, anthropic = TRUE, NEW y, NEW i, NEW c,
         NEW inclusive \in SUBSET {i}, Creation(u) \subseteq {c}, NEW cache \in SUBSET {y}
  PROVE  /\ Partition(u, anthropic, inclusive, cache).input \subseteq {i + c}
         /\ Partition(u, anthropic, inclusive, cache).cache \subseteq {y}
  <1> DEFINE usable == {n \in {j + d : j \in inclusive, d \in Creation(u)} :
                          n >= 0 /\ n <= MaxCount}
  <1>1. usable \subseteq {i + c}
    OBVIOUS
  <1>2. Partition(u, anthropic, inclusive, cache)
          = IF usable = {} \/ cache = {} THEN [input |-> {}, cache |-> {}]
            ELSE [input |-> usable, cache |-> cache]
    BY DEF Partition
  <1> HIDE DEF usable
  <1>3. CASE usable = {} \/ cache = {}
    <2>1. Partition(u, anthropic, inclusive, cache) = [input |-> {}, cache |-> {}]
      BY <1>3, <1>2
    <2> QED
      BY <2>1
  <1>4. CASE ~ (usable = {} \/ cache = {})
    <2>1. Partition(u, anthropic, inclusive, cache) = [input |-> usable, cache |-> cache]
      BY <1>4, <1>2
    <2> QED
      BY <2>1, <1>1
  <1> QED
    BY <1>3, <1>4

-----------------------------------------------------------------------------
(* Reports. *)

Exact(counts, cost) == \A k \in Keys : counts[k] \subseteq {cost[k]}

LEMMA CountsAreShared ==
  ASSUME NEW u, NEW cost, IsReport(u, cost)
  PROVE  /\ Select(u, OutputNames) \subseteq {cost.output}
         /\ Select(u, {"cached_tokens", CacheRead}) \subseteq {cost.cache}
         /\ Select(u, {CacheRead}) \subseteq {cost.cache}
  BY SelectTold DEF IsReport

\* The input of an inclusive report, split by any selection of cache hits.
LEMMA InclusiveSplit ==
  ASSUME NEW u, NEW anthropic, ~ anthropic, NEW cost \in [Keys -> Nat],
         IsInclusive(u, cost), NEW cache \in SUBSET {cost.cache}
  PROVE  LET split == Partition(u, anthropic, Select(u, InputNames), cache)
         IN  split.input \subseteq {cost.input} /\ split.cache \subseteq {cost.cache}
  <1> DEFINE total == cost.input + cost.cache
  <1>1. Select(u, InputNames) \subseteq {total}
    <2>1. Tells(u, InputNames, total)
      BY DEF IsInclusive
    <2> HIDE DEF total
    <2> QED
      BY <2>1, SelectTold
  <1>2. cost.input \in Int /\ cost.cache \in Int
    BY DEF Keys
  <1> QED
    BY <1>1, <1>2, PartitionInclusive

LEMMA ExclusiveSplit ==
  ASSUME NEW u, NEW anthropic, anthropic = TRUE, NEW cost, IsExclusive(u, cost),
         "input_tokens" \in DOMAIN u, NEW cache \in SUBSET {cost.cache}
  PROVE  LET split == Partition(u, anthropic, Select(u, InputNames), cache)
         IN  split.input \subseteq {cost.input} /\ split.cache \subseteq {cost.cache}
  <1> DEFINE written == IF CacheCreation \in DOMAIN u THEN u[CacheCreation] ELSE 0
             rest == u["input_tokens"]
  <1>1. Select(u, InputNames) \subseteq {rest}
    BY SelectOne DEF IsExclusive, InputNames
  <1>2. Creation(u) \subseteq {written}
    <2>1. CASE CacheCreation \in DOMAIN u
      <3>1. Select(u, {CacheCreation}) \subseteq {u[CacheCreation]}
        BY SelectOne
      <3> QED
        BY <2>1, <3>1 DEF Creation
    <2>2. CASE CacheCreation \notin DOMAIN u
      BY <2>2 DEF Creation
    <2> QED
      BY <2>1, <2>2
  <1>3. cost.input = rest + written
    BY DEF IsExclusive
  <1> HIDE DEF written, rest
  <1> DEFINE inclusive == Select(u, InputNames)
  <1>4. inclusive \subseteq {rest}
    BY <1>1
  <1> HIDE DEF inclusive
  <1>5. /\ Partition(u, anthropic, inclusive, cache).input \subseteq {rest + written}
        /\ Partition(u, anthropic, inclusive, cache).cache \subseteq {cost.cache}
    BY <1>2, <1>4, PartitionExclusive, ZenonT(30)
  <1> QED
    BY <1>3, <1>5 DEF inclusive

\* An exclusive report that lost its input tells no input.
LEMMA NoInputSplit ==
  ASSUME NEW u, InputNames \cap DOMAIN u = {}, NEW anthropic, NEW cache
  PROVE  LET split == Partition(u, anthropic, Select(u, InputNames), cache)
         IN  split.input = {} /\ split.cache = {}
  <1>1. Select(u, InputNames) = {}
    BY DEF Select
  <1>2. /\ {i + c : i \in {}, c \in Creation(u)} = {}
        /\ {i - c : i \in {}, c \in cache} = {}
    OBVIOUS
  <1> QED
    BY <1>1, <1>2 DEF Partition

\* Whatever counters a report lost, its normalisation is exact.
LEMMA NormalizeIsExact ==
  ASSUME NEW u, NEW cost \in [Keys -> Nat], IsReport(u, cost)
  PROVE  Exact(Normalize(u), cost)
  <1> DEFINE anthropic == /\ {"prompt_tokens", "cached_tokens"} \cap DOMAIN u = {}
                          /\ CacheRead \in DOMAIN u
             cache == Select(u, {"cached_tokens", CacheRead})
             split == Partition(u, anthropic, Select(u, InputNames), cache)
  <1>1. cache \subseteq {cost.cache}
    BY CountsAreShared
  <1>2. split.input \subseteq {cost.input} /\ split.cache \subseteq {cost.cache}
    <2>1. CASE IsInclusive(u, cost)
      <3>1. ~ anthropic
        BY <2>1 DEF IsInclusive
      <3> HIDE DEF anthropic, cache
      <3> QED
        BY <1>1, <2>1, <3>1, InclusiveSplit
    <2>2. CASE IsExclusive(u, cost)
      <3>1. anthropic = TRUE
        BY <2>2 DEF IsExclusive
      <3> HIDE DEF anthropic, cache
      <3>2. CASE "input_tokens" \in DOMAIN u
        BY <1>1, <2>2, <3>1, <3>2, ExclusiveSplit
      <3>3. CASE "input_tokens" \notin DOMAIN u
        <4>1. InputNames \cap DOMAIN u = {}
          BY <2>2, <3>3 DEF InputNames, IsExclusive
        <4> HIDE DEF anthropic, cache
        <4> QED
          BY <4>1, NoInputSplit
      <3> QED
        BY <3>2, <3>3
    <2> QED
      BY <2>1, <2>2 DEF IsReport
  <1>3. Normalize(u) = [input |-> split.input, cache |-> split.cache,
                        output |-> Select(u, OutputNames)]
    BY DEF Normalize
  <1> HIDE DEF split
  <1> QED
    BY <1>2, <1>3, CountsAreShared DEF Exact, Keys

\* The same of what an older bridge passed on.
LEMMA LegacyIsExact ==
  ASSUME NEW u, NEW cost \in [Keys -> Nat], IsReport(u, cost)
  PROVE  Exact(LegacyCounts(u), cost)
  <1> DEFINE anthropic == /\ "prompt_tokens" \notin DOMAIN u
                          /\ {"input_tokens", CacheRead} \subseteq DOMAIN u
             cache == Select(u, {CacheRead})
             split == Partition(u, anthropic, Select(u, InputNames), cache)
  <1>1. cache \subseteq {cost.cache}
    BY CountsAreShared
  <1>2. split.input \subseteq {cost.input} /\ split.cache \subseteq {cost.cache}
    <2>1. CASE IsInclusive(u, cost)
      <3>1. ~ anthropic
        BY <2>1 DEF IsInclusive
      <3> HIDE DEF anthropic, cache
      <3> QED
        BY <1>1, <2>1, <3>1, InclusiveSplit
    <2>2. CASE IsExclusive(u, cost)
      <3>2. CASE "input_tokens" \in DOMAIN u
        <4>1. anthropic = TRUE
          BY <2>2, <3>2 DEF IsExclusive
        <4> HIDE DEF anthropic, cache
        <4> QED
          BY <1>1, <2>2, <3>2, <4>1, ExclusiveSplit
      <3>3. CASE "input_tokens" \notin DOMAIN u
        <4>1. InputNames \cap DOMAIN u = {}
          BY <2>2, <3>3 DEF InputNames, IsExclusive
        <4> HIDE DEF anthropic, cache
        <4> QED
          BY <4>1, NoInputSplit
      <3> QED
        BY <3>2, <3>3
    <2> QED
      BY <2>1, <2>2 DEF IsReport
  <1>3. LegacyCounts(u) = [input |-> split.input, cache |-> split.cache,
                           output |-> Select(u, OutputNames)]
    BY DEF LegacyCounts
  <1> HIDE DEF split
  <1> QED
    BY <1>2, <1>3, CountsAreShared DEF Exact, Keys

\* What the worker reads of a report is exact, whoever passed it on.
LEMMA ObservedIsExact ==
  ASSUME NEW call \in Calls
  PROVE  Exact(Observed(call), call.cost)
  <1> DEFINE u == call.raw
             cost == call.cost
             payload == BridgePayload(u)
  <1>1. cost \in [Keys -> Nat] /\ IsReport(u, cost) /\ call.bridge \in BOOLEAN
    BY CallsAssumption
  <1>2. CASE call.bridge
    <2>1. Exact(Normalize(u), cost)
      BY <1>1, NormalizeIsExact
    <2>2. /\ DOMAIN payload \subseteq Keys
          /\ \A k \in DOMAIN payload : payload[k] = cost[k]
      BY <2>1 DEF BridgePayload, Exact
    <2>3. ASSUME NEW k \in Keys
          PROVE  CanonicalCounts(payload)[k] \subseteq {cost[k]}
      <3>1. \A f \in {k} \cap DOMAIN payload : payload[f] = cost[k]
        BY <2>2
      <3> HIDE DEF payload, cost
      <3>2. Select(payload, {k}) \subseteq {cost[k]}
        BY <3>1, SelectOne
      <3> QED
        BY <3>2 DEF CanonicalCounts
    <2>4. Observed(call) = CanonicalCounts(payload)
      BY <1>2 DEF Observed, Counts
    <2> QED
      BY <2>3, <2>4 DEF Exact
  <1>3. CASE ~ call.bridge
    <2>1. Observed(call) = LegacyCounts(u)
      BY <1>1, <1>3 DEF Observed, Counts, IsReport
    <2> QED
      BY <1>1, <2>1, LegacyIsExact
  <1> QED
    BY <1>2, <1>3

-----------------------------------------------------------------------------
(* Totals. *)

\* Accounting for a call keeps the totals that are not unknown exact.
LEMMA AccountFits ==
  ASSUME UsageFits, NEW call \in Calls, Account(call)
  PROVE  UsageFits'
  <1> DEFINE counts == Observed(call)
             known == {k \in Keys : counts[k] # {}}
             Total(k) == IF k \in DOMAIN token_usage THEN token_usage[k] ELSE 0
             Value(k) == CHOOSE v \in counts[k] : TRUE
             over == {k \in known : Total(k) + Value(k) > MaxCount}
  <1>1. call.cost \in [Keys -> Nat]
    BY CallsAssumption
  <1>2. Exact(counts, call.cost)
    BY ObservedIsExact
  <1>3. \A k \in known : Value(k) = call.cost[k]
    BY <1>2 DEF Exact
  <1>4. /\ token_usage' =
             [k \in DOMAIN token_usage \cup known |->
                IF k \in known \ over THEN Total(k) + Value(k) ELSE Total(k)]
        /\ usage_unknown' = usage_unknown \cup (Keys \ known) \cup over
        /\ spent' = [k \in Keys |-> spent[k] + call.cost[k]]
        /\ lost' = lost
    BY DEF Account
  <1> HIDE DEF counts
  <1>5. DOMAIN token_usage' \subseteq Keys
    BY <1>4 DEF UsageFits
  <1>6. spent' \in [Keys -> Nat] /\ lost' \in [Keys -> Nat]
    BY <1>1, <1>4 DEF UsageFits
  <1>7. ASSUME NEW k \in Keys \ usage_unknown'
        PROVE  spent'[k] - lost'[k] = IF k \in DOMAIN token_usage' THEN token_usage'[k] ELSE 0
    <2>1. k \in known /\ k \notin over /\ k \notin usage_unknown
      BY <1>4
    <2>2. spent[k] - lost[k] = Total(k) /\ spent[k] \in Int /\ lost[k] \in Int
      BY <2>1 DEF UsageFits
    <2>4. call.cost[k] \in Int /\ Value(k) = call.cost[k]
      BY <1>1, <1>3, <2>1
    <2>3. k \in DOMAIN token_usage' /\ token_usage'[k] = Total(k) + Value(k)
      BY <1>4, <2>1
    <2> HIDE DEF Total, Value, known, over
    <2> QED
      BY <1>4, <2>2, <2>3, <2>4
  <1> QED
    BY <1>5, <1>6, <1>7 DEF UsageFits

\* A lost answer is told apart from what the totals count.
LEMMA MissFits == ASSUME UsageFits, Miss PROVE UsageFits'
  <1>1. CASE UNCHANGED usageVars
    BY <1>1 DEF usageVars, UsageFits
  <1>2. CASE ~ UNCHANGED usageVars
    <2>1. PICK call \in Calls :
            /\ spent' = [k \in Keys |-> spent[k] + call.cost[k]]
            /\ lost' = [k \in Keys |-> lost[k] + call.cost[k]]
            /\ token_usage' = token_usage /\ usage_unknown' = usage_unknown
      BY <1>2 DEF Miss
    <2>2. call.cost \in [Keys -> Nat]
      BY CallsAssumption
    <2>3. spent' \in [Keys -> Nat] /\ lost' \in [Keys -> Nat]
      BY <2>1, <2>2 DEF UsageFits
    <2>4. ASSUME NEW k \in Keys \ usage_unknown
          PROVE  spent'[k] - lost'[k] = IF k \in DOMAIN token_usage THEN token_usage[k] ELSE 0
      <3> DEFINE total == IF k \in DOMAIN token_usage THEN token_usage[k] ELSE 0
      <3>1. spent[k] - lost[k] = total /\ lost[k] \in Int /\ spent[k] \in Int
        BY DEF UsageFits
      <3>2. call.cost[k] \in Int
        BY <2>2
      <3>3. spent'[k] = spent[k] + call.cost[k] /\ lost'[k] = lost[k] + call.cost[k]
        BY <2>1
      <3> HIDE DEF total
      <3>4. spent'[k] - lost'[k] = total
        BY <3>1, <3>2, <3>3
      <3> QED
        BY <3>4 DEF total
    <2> QED
      BY <2>1, <2>3, <2>4 DEF UsageFits
  <1> QED
    BY <1>1, <1>2

LEMMA InitFits == Init => UsageFits
  BY DEF Init, UsageInit, UsageFits

LEMMA NextFits == UsageFits /\ [Next]_vars => UsageFits'
  <1> SUFFICES ASSUME UsageFits, [Next]_vars PROVE UsageFits'
    OBVIOUS
  <1>1. CASE TextReply
    BY <1>1, AccountFits DEF TextReply
  <1>2. CASE ToolReply
    BY <1>2, AccountFits DEF ToolReply
  <1>3. CASE UNCHANGED usageVars
    BY <1>3 DEF usageVars, UsageFits
  <1>4. CASE Miss
    BY <1>4, MissFits
  <1> QED
    BY <1>1, <1>2, <1>3, <1>4 DEF Next, vars, SendRequest, BridgeGone, Overflow,
       ProviderError, ToolResult, EndRound

\* However complete, incomplete and overflowing reports follow each other, what
\* the worker knows of its totals is exact.
THEOREM TotalsFit == Spec => []UsageFits
  BY InitFits, NextFits, PTL DEF Spec

\* A total the worker reports is what its calls cost but for those whose answer
\* got lost.
THEOREM TotalsAreExact == Spec => []UsageIsExactOrUnknown
  <1>1. ASSUME UsageFits PROVE UsageIsExactOrUnknown
    <2> SUFFICES ASSUME NEW k \in DOMAIN Reported
                 PROVE  Reported[k] = spent[k] - lost[k]
      BY DEF UsageIsExactOrUnknown
    <2>1. k \in DOMAIN token_usage /\ k \notin usage_unknown /\ Reported[k] = token_usage[k]
      BY DEF Reported
    <2>2. k \in Keys
      BY <2>1, <1>1 DEF UsageFits
    <2>3. spent[k] - lost[k] = token_usage[k]
      BY <1>1, <2>1, <2>2 DEF UsageFits
    <2> QED
      BY <2>1, <2>3
  <1> QED
    BY <1>1, TotalsFit, PTL

-----------------------------------------------------------------------------
(* Parts of a list. *)

MessageType ==
  [kind : Kinds, n : Nat, ids : Seq(CallIds), size : Nat, full : BOOLEAN]

Smaller == {pair \in Nat \X Nat : pair[1] < pair[2]}

\* Among any numbers there is a least.
LEMMA LeastNumber ==
  ASSUME NEW S \in SUBSET Nat, S # {}
  PROVE  \E n \in S : \A m \in S : n <= m
  <1>1. Smaller = OpToRel(<, Nat)
    BY Zenon DEF Smaller, OpToRel
  <1>2. IsWellFoundedOn(Smaller, Nat)
    BY <1>1, NatLessThanWellFounded, Zenon
  <1>3. PICK n \in S : \A m \in S : ~ (<<m, n>> \in Smaller)
    BY <1>2, WFMin, Zenon
  <1>4. \A m \in S : ~ (m < n)
    BY <1>3 DEF Smaller
  <1> QED
    BY <1>4

\* h takes the places of new to those of old that were kept, in order.
Thins(new, old, places, h) ==
  /\ h \in [DOMAIN new -> places]
  /\ \A i, j \in DOMAIN new : i < j => h[i] < h[j]
  /\ \A p \in places : \E i \in DOMAIN new : h[i] = p
  /\ \A i \in DOMAIN new : new[i] = old[h[i]]

\* Kept takes the messages at the given places, each once and in order.
LEMMA KeptThins ==
  ASSUME NEW S, NEW msgs \in Seq(S), NEW places \in SUBSET (DOMAIN msgs)
  PROVE  /\ Kept(msgs, places) \in Seq(S)
         /\ \E h : Thins(Kept(msgs, places), msgs, places, h)
  <1> DEFINE N == Cardinality(places)
             rank == [p \in places |-> Cardinality(places \cap 1 .. p)]
             h == [k \in 1 .. N |-> CHOOSE p \in places : Cardinality(places \cap 1 .. p) = k]
  <1>1. /\ IsFiniteSet(places) /\ N \in Nat /\ places \subseteq Nat \ {0}
        /\ IsFiniteSet(1 .. N) /\ Cardinality(1 .. N) = N
    <2>1. IsFiniteSet(DOMAIN msgs)
      BY FS_Interval
    <2>2. IsFiniteSet(places)
      BY <2>1, FS_Subset
    <2>3. N \in Nat
      BY <2>2, FS_CardinalityType
    <2>4. IsFiniteSet(1 .. N) /\ Cardinality(1 .. N) = N
      BY <2>3, FS_Interval
    <2> QED
      BY <2>2, <2>3, <2>4
  <1>2. ASSUME NEW p \in places
        PROVE  IsFiniteSet(places \cap 1 .. p) /\ rank[p] \in 1 .. N
    <2>1. IsFiniteSet(places \cap 1 .. p) /\ rank[p] <= N /\ rank[p] \in Nat
      BY <1>1, FS_Subset, FS_CardinalityType
    <2>2. p \in places \cap 1 .. p
      BY <1>1
    <2>3. rank[p] # 0
      BY <2>1, <2>2, FS_EmptySet
    <2> QED
      BY <1>1, <2>1, <2>3
  <1>3. ASSUME NEW p \in places, NEW q \in places, p < q
        PROVE  rank[p] < rank[q]
    <2>1. places \cap 1 .. p \subseteq places \cap 1 .. q
      BY <1>1, <1>3
    <2>2. q \in places \cap 1 .. q /\ q \notin places \cap 1 .. p
      BY <1>1, <1>3
    <2>3. IsFiniteSet(places \cap 1 .. q) /\ rank[q] \in 1 .. N /\ rank[p] \in 1 .. N
      BY <1>2
    <2>4. rank[p] <= rank[q] /\ rank[p] # rank[q]
      BY <2>1, <2>2, <2>3, FS_Subset
    <2> QED
      BY <1>1, <2>3, <2>4
  <1>4. rank \in Surjection(places, 1 .. N)
    <2>1. rank \in [places -> 1 .. N]
      BY <1>2
    <2>2. \A p, q \in places : rank[p] = rank[q] => p = q
      <3> SUFFICES ASSUME NEW p \in places, NEW q \in places, p # q
                   PROVE  rank[p] # rank[q]
        OBVIOUS
      <3>1. p < q \/ q < p
        BY <1>1
      <3>2. rank[p] \in 1 .. N /\ rank[q] \in 1 .. N
        BY <1>2
      <3> QED
        BY <1>1, <1>3, <3>1, <3>2
    <2>3. rank \in Injection(places, 1 .. N)
      BY <2>1, <2>2 DEF Injection, IsInjective
    <2> QED
      BY <1>1, <2>3, FS_Injection
  <1>5. ASSUME NEW k \in 1 .. N
        PROVE  h[k] \in places /\ rank[h[k]] = k
    <2>1. \E p \in places : rank[p] = k
      BY <1>4 DEF Surjection
    <2> QED
      BY <2>1
  <1>6. Kept(msgs, places) = [k \in 1 .. N |-> msgs[h[k]]]
    BY DEF Kept
  <1> HIDE DEF N, rank, h
  <1>7. /\ Kept(msgs, places) \in Seq(S)
        /\ DOMAIN Kept(msgs, places) = 1 .. N
    <2>1. \A k \in 1 .. N : msgs[h[k]] \in S
      BY <1>5
    <2> QED
      BY <1>1, <1>6, <2>1
  <1>8. h \in [1 .. N -> places]
    BY <1>5 DEF h
  <1>9. \A i, j \in 1 .. N : i < j => h[i] < h[j]
    <2> SUFFICES ASSUME NEW i \in 1 .. N, NEW j \in 1 .. N, i < j PROVE h[i] < h[j]
      OBVIOUS
    <2>1. ~ (h[j] < h[i]) /\ h[i] # h[j]
      BY <1>1, <1>3, <1>5, SMTT(30)
    <2> QED
      BY <1>1, <1>5, <2>1
  <1>10. \A p \in places : \E i \in 1 .. N : h[i] = p
    <2> SUFFICES ASSUME NEW p \in places PROVE h[rank[p]] = p
      BY <1>2
    <2>1. rank[p] \in 1 .. N /\ h[rank[p]] \in places /\ rank[h[rank[p]]] = rank[p]
      BY <1>2, <1>5
    <2>2. ~ (p < h[rank[p]]) /\ ~ (h[rank[p]] < p)
      BY <1>3, <2>1
    <2> QED
      BY <1>1, <2>1, <2>2
  <1> QED
    <2>1. Thins(Kept(msgs, places), msgs, places, h)
      BY <1>6, <1>7, <1>8, <1>9, <1>10 DEF Thins
    <2> QED
      BY <1>7, <2>1

-----------------------------------------------------------------------------
(* Lists that are whole, and what keeps them so. *)

Notices == {"worker_context_state", "worker_tool_delivery"}

\* A list: the system prompt and the task in front, numbered in their order;
\* only notices have no number.
Shape(msgs) ==
  /\ msgs \in Seq(MessageType) /\ Len(msgs) >= 2
  /\ msgs[1].n = 1 /\ msgs[1].kind = "system"
  /\ msgs[2].n = 2 /\ msgs[2].kind = "user"
  /\ \A i \in DOMAIN msgs :
       /\ i >= 3 /\ msgs[i].n # 0 => msgs[i].n >= 3
       /\ i >= 3 => msgs[i].kind # "system"
       /\ msgs[i].n = 0 <=> msgs[i].kind \in Notices
       /\ msgs[i].kind = "tool" => Len(msgs[i].ids) = 1
       /\ msgs[i].kind \notin {"tool", "assistant"} => msgs[i].ids = <<>>
  /\ \A i, j \in DOMAIN msgs : i < j /\ msgs[j].n # 0 => msgs[i].n < msgs[j].n

\* Every call has its result behind it, in order, but for those that are left
\* of the last round.
Paired(msgs, left) ==
  /\ \A i \in DOMAIN msgs : IsRound(msgs[i]) =>
       /\ \A j \in DOMAIN msgs[i].ids : i + j <= Len(msgs) =>
            msgs[i + j].kind = "tool" /\ msgs[i + j].ids = <<msgs[i].ids[j]>>
       /\ \/ i + Len(msgs[i].ids) <= Len(msgs)
          \/ /\ i + Len(msgs[i].ids) = Len(msgs) + Len(left)
             /\ \A j \in DOMAIN left : left[j] = msgs[i].ids[Len(msgs) - i + j]
  /\ \A i \in DOMAIN msgs : msgs[i].kind = "tool" =>
       \E k \in 1 .. i - 1 : IsRound(msgs[k]) /\ i <= k + Len(msgs[k].ids)
  /\ left # <<>> => \E i \in DOMAIN msgs :
       IsRound(msgs[i]) /\ i + Len(msgs[i].ids) = Len(msgs) + Len(left)

Whole(msgs) == Shape(msgs) /\ Paired(msgs, <<>>)

\* Whole rounds are kept.
KeepsRounds(msgs, places) ==
  \A i \in DOMAIN msgs : IsRound(msgs[i]) =>
    \A j \in 1 .. Len(msgs[i].ids) : i \in places <=> i + j \in places

\* What a round looks like in a list that is whole.
LEMMA RoundsAreWhole ==
  ASSUME NEW msgs, Whole(msgs), NEW i \in DOMAIN msgs, IsRound(msgs[i])
  PROVE  /\ Len(msgs[i].ids) \in Nat \ {0} /\ DOMAIN msgs[i].ids = 1 .. Len(msgs[i].ids)
         /\ i + Len(msgs[i].ids) <= Len(msgs)
         /\ \A j \in 1 .. Len(msgs[i].ids) :
              /\ i + j \in DOMAIN msgs
              /\ msgs[i + j].kind = "tool" /\ msgs[i + j].ids = <<msgs[i].ids[j]>>
              /\ ~ IsRound(msgs[i + j])
  <1>1. msgs \in Seq(MessageType) /\ msgs[i] \in MessageType /\ i \in 1 .. Len(msgs)
    BY DEF Whole, Shape
  <1>2. msgs[i].ids \in Seq(CallIds) /\ msgs[i].ids # <<>>
    BY <1>1 DEF MessageType, IsRound
  <1>3. Len(msgs[i].ids) \in Nat \ {0} /\ DOMAIN msgs[i].ids = 1 .. Len(msgs[i].ids)
    BY <1>2
  <1>4. i + Len(msgs[i].ids) <= Len(msgs)
    BY <1>1, <1>3 DEF Whole, Paired
  <1>5. ASSUME NEW j \in 1 .. Len(msgs[i].ids)
        PROVE  /\ i + j \in DOMAIN msgs
               /\ msgs[i + j].kind = "tool" /\ msgs[i + j].ids = <<msgs[i].ids[j]>>
    <2>1. j \in DOMAIN msgs[i].ids /\ i + j <= Len(msgs) /\ i + j \in DOMAIN msgs
      BY <1>1, <1>3, <1>4
    <2> QED
      BY <2>1 DEF Whole, Paired
  <1> QED
    BY <1>3, <1>4, <1>5 DEF IsRound

\* A round that is kept is kept in one piece.
LEMMA RoundsMoveWhole ==
  ASSUME NEW old, NEW new, NEW places \in SUBSET (DOMAIN old), NEW h,
         Whole(old), KeepsRounds(old, places), Thins(new, old, places, h),
         new \in Seq(MessageType), NEW i \in DOMAIN new, IsRound(new[i])
  PROVE  \A j \in 1 .. Len(new[i].ids) : i + j \in DOMAIN new /\ h[i + j] = h[i] + j
  <1> DEFINE L == Len(new[i].ids)
             Lost == {j \in 1 .. L : ~ (i + j \in DOMAIN new /\ h[i + j] = h[i] + j)}
  <1>1. /\ h[i] \in places /\ h[i] \in DOMAIN old /\ new[i] = old[h[i]]
        /\ DOMAIN old = 1 .. Len(old) /\ Len(old) \in Nat
        /\ DOMAIN new = 1 .. Len(new) /\ Len(new) \in Nat
    BY DEF Thins, Whole, Shape
  <1>2. L \in Nat /\ \A j \in 1 .. L : h[i] + j \in places
    BY <1>1, RoundsAreWhole DEF KeepsRounds
  <1>3. SUFFICES ASSUME Lost # {} PROVE FALSE
    OBVIOUS
  <1>4. PICK j \in Lost : \A m \in Lost : j <= m
    <2>1. Lost \subseteq Nat
      BY <1>2
    <2> QED
      BY <1>3, <2>1, LeastNumber
  <1>5. j \in 1 .. L /\ h[i] + j \in places
    BY <1>2, <1>4
  <1>6. i + j - 1 \in DOMAIN new /\ h[i + j - 1] = h[i] + j - 1
    <2>1. CASE j = 1
      BY <2>1, <1>1
    <2>2. CASE j # 1
      <3>1. j - 1 \in 1 .. L /\ j - 1 \notin Lost
        BY <1>2, <1>4, <1>5, <2>2
      <3>2. i + (j - 1) \in DOMAIN new /\ h[i + (j - 1)] = h[i] + (j - 1)
        BY <3>1
      <3>3. i + (j - 1) = i + j - 1 /\ h[i] + (j - 1) = h[i] + j - 1
        BY <1>1, <1>5
      <3> QED
        BY <3>2, <3>3
    <2> QED
      BY <2>1, <2>2
  <1>7. PICK k \in DOMAIN new : h[k] = h[i] + j
    BY <1>5 DEF Thins
  <1>8. k > i + j - 1
    <2>1. k = i + j - 1 \/ k < i + j - 1 => h[k] <= h[i + j - 1]
      BY <1>1, <1>6 DEF Thins
    <2> QED
      BY <1>1, <1>5, <1>6, <1>7, <2>1, SMTT(30)
  <1>9. i + j \in DOMAIN new
    BY <1>1, <1>5, <1>7, <1>8
  <1>10. h[i + j] \in DOMAIN old /\ h[i + j] > h[i + j - 1] /\ h[i + j] <= h[k]
    <2>1. h[i + j] \in DOMAIN old /\ h[k] \in DOMAIN old
      BY <1>9, <1>7 DEF Thins
    <2>2. h[i + j] > h[i + j - 1]
      BY <1>1, <1>5, <1>6, <1>9, SMTT(30) DEF Thins
    <2>3. i + j < k \/ i + j = k
      BY <1>1, <1>5, <1>7, <1>8
    <2>4. i + j < k => h[i + j] < h[k]
      BY <1>9 DEF Thins
    <2> QED
      BY <1>1, <2>1, <2>2, <2>3, <2>4
  <1>11. h[i + j] = h[i] + j
    BY <1>1, <1>5, <1>6, <1>7, <1>10, SMTT(30)
  <1> QED
    BY <1>4, <1>9, <1>11

\* Taking whole rounds out of a list leaves it whole.
LEMMA ThinningKeepsWhole ==
  ASSUME NEW old, NEW new, NEW places \in SUBSET (DOMAIN old), NEW h,
         Whole(old), KeepsRounds(old, places), Thins(new, old, places, h),
         new \in Seq(MessageType), 1 \in places, 2 \in places
  PROVE  Whole(new) /\ h[1] = 1 /\ h[2] = 2
  <1>1. /\ DOMAIN old = 1 .. Len(old) /\ Len(old) \in Nat
        /\ DOMAIN new = 1 .. Len(new) /\ Len(new) \in Nat
        /\ old \in Seq(MessageType)
    BY DEF Whole, Shape
  <1>2. \A i \in DOMAIN new : h[i] \in places /\ h[i] \in DOMAIN old /\ new[i] = old[h[i]]
    BY DEF Thins
  <1>3. \A i, j \in DOMAIN new : i < j => h[i] < h[j]
    BY DEF Thins
  <1>4. 1 \in DOMAIN new /\ h[1] = 1
    <2>1. PICK i \in DOMAIN new : h[i] = 1
      BY DEF Thins
    <2>2. 1 \in DOMAIN new
      BY <1>1, <2>1
    <2>3. ~ (1 < i)
      BY <1>1, <1>2, <1>3, <2>1, <2>2
    <2> QED
      BY <1>1, <2>1, <2>2, <2>3
  <1>5. 2 \in DOMAIN new /\ h[2] = 2
    <2>1. PICK i \in DOMAIN new : h[i] = 2
      BY DEF Thins
    <2>2. i # 1 /\ 2 \in DOMAIN new
      BY <1>1, <1>4, <2>1
    <2>3. ~ (2 < i)
      <3>1. 1 < 2 /\ h[1] < h[2] /\ h[2] \in Nat
        BY <1>1, <1>2, <1>3, <1>4, <2>2
      <3> QED
        BY <1>1, <1>2, <1>3, <1>4, <2>1, <2>2, <3>1
    <2> QED
      BY <1>1, <2>1, <2>2, <2>3
  <1>6. \A i \in DOMAIN new : i >= 3 => h[i] >= 3
    BY <1>1, <1>2, <1>3, <1>5
  <1>7. Shape(new)
    <2>1. Len(new) >= 2 /\ new[1] = old[1] /\ new[2] = old[2]
      BY <1>1, <1>2, <1>4, <1>5
    <2>2. \A i \in DOMAIN new :
            /\ i >= 3 /\ new[i].n # 0 => new[i].n >= 3
            /\ i >= 3 => new[i].kind # "system"
            /\ new[i].n = 0 <=> new[i].kind \in Notices
            /\ new[i].kind = "tool" => Len(new[i].ids) = 1
            /\ new[i].kind \notin {"tool", "assistant"} => new[i].ids = <<>>
      BY <1>2, <1>6 DEF Whole, Shape
    <2>3. \A i, j \in DOMAIN new : i < j /\ new[j].n # 0 => new[i].n < new[j].n
      BY <1>2, <1>3 DEF Whole, Shape
    <2> QED
      BY <2>1, <2>2, <2>3 DEF Whole, Shape
  <1>8. ASSUME NEW i \in DOMAIN new, IsRound(new[i])
        PROVE  /\ i + Len(new[i].ids) <= Len(new)
               /\ DOMAIN new[i].ids = 1 .. Len(new[i].ids)
               /\ \A j \in DOMAIN new[i].ids :
                    /\ i + j \in DOMAIN new /\ h[i + j] = h[i] + j
                    /\ new[i + j].kind = "tool" /\ new[i + j].ids = <<new[i].ids[j]>>
    <2>1. IsRound(old[h[i]]) /\ new[i] = old[h[i]] /\ h[i] \in DOMAIN old
      BY <1>2, <1>8
    <2>2. /\ Len(new[i].ids) \in Nat \ {0} /\ DOMAIN new[i].ids = 1 .. Len(new[i].ids)
          /\ \A j \in 1 .. Len(new[i].ids) :
               old[h[i] + j].kind = "tool" /\ old[h[i] + j].ids = <<new[i].ids[j]>>
      <3> DEFINE r == h[i]
      <3>1. r \in DOMAIN old /\ IsRound(old[r]) /\ new[i] = old[r]
        BY <2>1
      <3> HIDE DEF r
      <3>2. /\ Len(old[r].ids) \in Nat \ {0} /\ DOMAIN old[r].ids = 1 .. Len(old[r].ids)
            /\ \A j \in 1 .. Len(old[r].ids) :
                 old[r + j].kind = "tool" /\ old[r + j].ids = <<old[r].ids[j]>>
        BY <3>1, RoundsAreWhole
      <3> QED
        BY <3>1, <3>2 DEF r
    <2>3. \A j \in 1 .. Len(new[i].ids) : i + j \in DOMAIN new /\ h[i + j] = h[i] + j
      BY <1>8, RoundsMoveWhole
    <2>4. i + Len(new[i].ids) \in DOMAIN new
      BY <2>2, <2>3
    <2>5. i + Len(new[i].ids) <= Len(new)
      BY <1>1, <2>4
    <2>6. ASSUME NEW j \in 1 .. Len(new[i].ids)
          PROVE  /\ i + j \in DOMAIN new /\ h[i + j] = h[i] + j
                 /\ new[i + j].kind = "tool" /\ new[i + j].ids = <<new[i].ids[j]>>
      <3>1. i + j \in DOMAIN new /\ h[i + j] = h[i] + j
        BY <2>3
      <3>2. new[i + j] = old[h[i] + j]
        BY <1>2, <3>1
      <3> QED
        BY <2>2, <3>1, <3>2
    <2> QED
      BY <2>2, <2>5, <2>6
  <1>9. ASSUME NEW i \in DOMAIN new, new[i].kind = "tool"
        PROVE  \E k \in 1 .. i - 1 : IsRound(new[k]) /\ i <= k + Len(new[k].ids)
    <2>1. PICK r \in 1 .. h[i] - 1 : IsRound(old[r]) /\ h[i] <= r + Len(old[r].ids)
      BY <1>2, <1>9 DEF Whole, Paired
    <2>2. r \in DOMAIN old /\ Len(old[r].ids) \in Nat
      BY <1>1, <1>2, <2>1, RoundsAreWhole
    <2>3. h[i] - r \in 1 .. Len(old[r].ids) /\ r + (h[i] - r) = h[i]
      BY <1>1, <1>2, <2>1, <2>2
    <2>4. r \in places
      BY <1>2, <2>1, <2>2, <2>3 DEF KeepsRounds
    <2>5. PICK k \in DOMAIN new : h[k] = r
      BY <2>4 DEF Thins
    <2>6. IsRound(new[k]) /\ new[k] = old[r]
      BY <1>2, <2>1, <2>5
    <2>7. k + (h[i] - r) \in DOMAIN new /\ h[k + (h[i] - r)] = h[i]
      BY <1>8, <2>3, <2>5, <2>6
    <2>8. k + (h[i] - r) = i
      <3>1. ~ (k + (h[i] - r) < i) /\ ~ (i < k + (h[i] - r))
        BY <1>1, <1>2, <1>3, <2>7
      <3> QED
        BY <1>1, <2>7, <3>1
    <2>9. k < i /\ i <= k + Len(new[k].ids)
      <3> DEFINE d == h[i] - r
                 L == Len(old[r].ids)
      <3>1. k + d = i /\ d \in 1 .. L /\ L \in Nat /\ k \in Nat /\ Len(new[k].ids) = L
        BY <1>1, <2>2, <2>3, <2>5, <2>6, <2>8
      <3> HIDE DEF d, L
      <3> QED
        BY <3>1
    <2>10. k \in 1 .. i - 1
      BY <1>1, <2>5, <2>9
    <2> QED
      BY <2>6, <2>9, <2>10
  <1>10. Paired(new, <<>>)
    BY <1>8, <1>9 DEF Paired
  <1> QED
    BY <1>4, <1>5, <1>7, <1>10 DEF Whole

\* The numbers of what is kept, and what is not, are those of the list.
LEMMA ThinningSplitsSerials ==
  ASSUME NEW old, NEW new, NEW places \in SUBSET (DOMAIN old), NEW h,
         Whole(old), Thins(new, old, places, h),
         \A p \in DOMAIN old \ places : old[p].n # 0
  PROVE  /\ Serials(new) = {old[p].n : p \in places} \ {0}
         /\ Serials(old) = Serials(new) \cup {old[p].n : p \in DOMAIN old \ places}
         /\ Serials(new) \cap {old[p].n : p \in DOMAIN old \ places} = {}
  <1>1. Serials(new) = {old[p].n : p \in places} \ {0}
    <2>1. {new[i].n : i \in DOMAIN new} = {old[p].n : p \in places}
      BY DEF Thins
    <2> QED
      BY <2>1 DEF Serials
  <1>2. \A p, q \in DOMAIN old : p # q /\ old[q].n # 0 => old[p].n # old[q].n
    <2> SUFFICES ASSUME NEW p \in DOMAIN old, NEW q \in DOMAIN old, p # q, old[q].n # 0,
                        old[p].n = old[q].n
                 PROVE  FALSE
      OBVIOUS
    <2>1. /\ old \in Seq(MessageType) /\ DOMAIN old = 1 .. Len(old) /\ Len(old) \in Nat
          /\ old[p] \in MessageType
      BY DEF Whole, Shape
    <2>4. old[p].n \in Nat
      BY <2>1 DEF MessageType
    <2>2. CASE p < q
      BY <2>4, <2>2 DEF Whole, Shape
    <2>3. CASE q < p
      BY <2>4, <2>3 DEF Whole, Shape
    <2> QED
      BY <2>1, <2>2, <2>3
  <1> QED
    BY <1>1, <1>2 DEF Serials

\* A notice behind the two messages in front changes the list in no other way.
LEMMA InsertedAt ==
  ASSUME NEW msgs, Whole(msgs), NEW m \in MessageType
  PROVE  /\ InsertAt(msgs, 3, m) \in Seq(MessageType)
         /\ Len(InsertAt(msgs, 3, m)) = Len(msgs) + 1
         /\ \A i \in 1 .. Len(msgs) + 1 :
              InsertAt(msgs, 3, m)[i] = IF i <= 2 THEN msgs[i]
                                        ELSE IF i = 3 THEN m ELSE msgs[i - 1]
  <1> DEFINE head == SubSeq(msgs, 1, 3 - 1)
             tail == SubSeq(msgs, 3, Len(msgs))
             front == head \o <<m>>
  <1>1. /\ msgs \in Seq(MessageType) /\ Len(msgs) \in Nat /\ Len(msgs) >= 2
        /\ \A i \in 1 .. Len(msgs) : msgs[i] \in MessageType
    BY DEF Whole, Shape
  <1>2. /\ head \in Seq(MessageType) /\ Len(head) = 2
        /\ \A i \in 1 .. 2 : head[i] = msgs[i]
    <2>1. \A i \in 1 .. 2 : msgs[i] \in MessageType
      BY <1>1
    <2>2. 3 - 1 = 2
      OBVIOUS
    <2>3. /\ SubSeq(msgs, 1, 2) \in Seq(MessageType)
          /\ Len(SubSeq(msgs, 1, 2)) = IF 1 <= 2 THEN 2 - 1 + 1 ELSE 0
          /\ \A i \in 1 .. 2 - 1 + 1 : SubSeq(msgs, 1, 2)[i] = msgs[1 + i - 1]
      BY <2>1, SubSeqProperties
    <2> QED
      BY <2>2, <2>3
  <1>3. /\ tail \in Seq(MessageType) /\ Len(tail) = Len(msgs) - 2
        /\ \A i \in 1 .. Len(msgs) - 2 : tail[i] = msgs[i + 2]
    <2>1. \A i \in 3 .. Len(msgs) : msgs[i] \in MessageType
      BY <1>1
    <2>2. /\ tail \in Seq(MessageType)
          /\ Len(tail) = IF 3 <= Len(msgs) THEN Len(msgs) - 3 + 1 ELSE 0
          /\ \A i \in 1 .. Len(msgs) - 3 + 1 : tail[i] = msgs[3 + i - 1]
      BY <1>1, <2>1, SubSeqProperties
    <2> HIDE DEF tail
    <2>3. ASSUME NEW i \in 1 .. Len(msgs) - 2 PROVE tail[i] = msgs[i + 2]
      <3>1. i \in 1 .. Len(msgs) - 3 + 1 /\ 3 + i - 1 = i + 2
        BY <1>1
      <3> QED
        BY <2>2, <3>1
    <2>4. Len(tail) = Len(msgs) - 2
      <3>1. CASE 3 <= Len(msgs)
        <4>1. Len(tail) = Len(msgs) - 3 + 1
          BY <2>2, <3>1
        <4> QED
          BY <1>1, <4>1
      <3>2. CASE Len(msgs) = 2
        <4>1. Len(tail) = 0
          BY <2>2, <3>2
        <4> QED
          BY <3>2, <4>1
      <3> QED
        BY <1>1, <3>1, <3>2, SMTT(30)
    <2> QED
      BY <2>2, <2>3, <2>4
  <1>4. InsertAt(msgs, 3, m) = front \o tail
    BY DEF InsertAt
  <1> HIDE DEF head, tail
  <1>5. /\ front \in Seq(MessageType) /\ Len(front) = 3 /\ front[3] = m
        /\ \A i \in 1 .. 2 : front[i] = msgs[i]
    <2>1. <<m>> \in Seq(MessageType) /\ Len(<<m>>) = 1 /\ <<m>>[1] = m
      OBVIOUS
    <2>2. /\ front \in Seq(MessageType) /\ Len(front) = Len(head) + Len(<<m>>)
          /\ \A i \in 1 .. Len(head) + Len(<<m>>) :
               front[i] = IF i <= Len(head) THEN head[i] ELSE <<m>>[i - Len(head)]
      BY <1>2, <2>1, ConcatProperties
    <2> HIDE DEF front
    <2> QED
      BY <1>2, <2>1, <2>2
  <1> HIDE DEF front
  <1>6. /\ front \o tail \in Seq(MessageType) /\ Len(front \o tail) = Len(front) + Len(tail)
        /\ \A i \in 1 .. Len(front) + Len(tail) :
             (front \o tail)[i] = IF i <= Len(front) THEN front[i] ELSE tail[i - Len(front)]
    BY <1>3, <1>5, ConcatProperties
  <1> DEFINE new == front \o tail
  <1>7. /\ new \in Seq(MessageType) /\ Len(new) = Len(msgs) + 1
        /\ \A i \in 1 .. Len(msgs) + 1 : new[i] = IF i <= 3 THEN front[i] ELSE tail[i - 3]
    BY <1>1, <1>3, <1>5, <1>6
  <1> HIDE DEF new
  <1>8. ASSUME NEW i \in 1 .. Len(msgs) + 1
        PROVE  new[i] = IF i <= 2 THEN msgs[i] ELSE IF i = 3 THEN m ELSE msgs[i - 1]
    <2>1. CASE i <= 3
      BY <1>1, <1>5, <1>7, <2>1
    <2>2. CASE i > 3
      <3>1. i - 3 \in 1 .. Len(msgs) - 2 /\ i - 3 + 2 = i - 1
        BY <1>1, <2>2
      <3>2. new[i] = tail[i - 3]
        BY <1>1, <1>7, <2>2
      <3>3. tail[i - 3] = msgs[i - 3 + 2]
        BY <1>3, <3>1
      <3> QED
        BY <1>1, <2>2, <3>1, <3>2, <3>3
    <2> QED
      BY <1>1, <2>1, <2>2
  <1> QED
    BY <1>4, <1>7, <1>8 DEF new

\* What the insertion moves is moved by one place.
Moved(i) == IF i <= 2 THEN i ELSE i + 1

LEMMA InsertKeepsWhole ==
  ASSUME NEW msgs, Whole(msgs), NEW m \in MessageType, m.kind \in Notices, m.n = 0,
         m.ids = <<>>
  PROVE  /\ Whole(InsertAt(msgs, 3, m))
         /\ Serials(InsertAt(msgs, 3, m)) = Serials(msgs)
         /\ \A i \in DOMAIN msgs : /\ Moved(i) \in DOMAIN InsertAt(msgs, 3, m)
                                   /\ InsertAt(msgs, 3, m)[Moved(i)] = msgs[i]
         /\ \A i \in DOMAIN InsertAt(msgs, 3, m) :
              i = 3 \/ \E j \in DOMAIN msgs : i = Moved(j)
  <1> DEFINE new == InsertAt(msgs, 3, m)
  <1>1. /\ msgs \in Seq(MessageType) /\ Len(msgs) \in Nat /\ Len(msgs) >= 2
        /\ DOMAIN msgs = 1 .. Len(msgs)
    BY DEF Whole, Shape
  <1>2. /\ new \in Seq(MessageType) /\ Len(new) = Len(msgs) + 1
        /\ DOMAIN new = 1 .. Len(msgs) + 1 /\ new[3] = m
        /\ \A i \in DOMAIN msgs : Moved(i) \in DOMAIN new /\ new[Moved(i)] = msgs[i]
    <2>1. /\ new \in Seq(MessageType) /\ Len(new) = Len(msgs) + 1
          /\ \A i \in 1 .. Len(msgs) + 1 :
               new[i] = IF i <= 2 THEN msgs[i] ELSE IF i = 3 THEN m ELSE msgs[i - 1]
      BY InsertedAt
    <2> HIDE DEF new
    <2>2. DOMAIN new = 1 .. Len(msgs) + 1 /\ new[3] = m
      BY <1>1, <2>1
    <2>3. \A i \in DOMAIN msgs : Moved(i) \in DOMAIN new /\ new[Moved(i)] = msgs[i]
      BY <1>1, <2>1, <2>2 DEF Moved
    <2> QED
      BY <2>1, <2>2, <2>3
  <1> HIDE DEF new
  <1>3. \A i \in DOMAIN new : i = 3 \/ \E j \in DOMAIN msgs : i = Moved(j)
    <2> SUFFICES ASSUME NEW i \in DOMAIN new, i # 3
                 PROVE  \E j \in DOMAIN msgs : i = Moved(j)
      OBVIOUS
    <2>1. CASE i <= 2
      BY <1>1, <1>2, <2>1 DEF Moved
    <2>2. CASE i > 3
      <3>1. i - 1 \in DOMAIN msgs /\ Moved(i - 1) = i
        BY <1>1, <1>2, <2>2 DEF Moved
      <3> QED
        BY <3>1
    <2> QED
      BY <1>2, <2>1, <2>2
  <1>4. \A i, j \in DOMAIN msgs : i < j <=> Moved(i) < Moved(j)
    BY <1>1 DEF Moved
  <1>5. Serials(new) = Serials(msgs)
    <2>1. \A i \in DOMAIN msgs : new[Moved(i)].n = msgs[i].n /\ Moved(i) \in DOMAIN new
      BY <1>2
    <2>2. \A i \in DOMAIN new : new[i].n = 0 \/ \E j \in DOMAIN msgs : new[i].n = msgs[j].n
      BY <1>2, <1>3
    <2> QED
      BY <2>1, <2>2 DEF Serials
  <1>6. Shape(new)
    <2>1. new[1] = msgs[1] /\ new[2] = msgs[2]
      BY <1>1, <1>2 DEF Moved
    <2>2. \A i \in DOMAIN new :
            /\ i >= 3 /\ new[i].n # 0 => new[i].n >= 3
            /\ i >= 3 => new[i].kind # "system"
            /\ new[i].n = 0 <=> new[i].kind \in Notices
            /\ new[i].kind = "tool" => Len(new[i].ids) = 1
            /\ new[i].kind \notin {"tool", "assistant"} => new[i].ids = <<>>
      <3>1. ASSUME NEW j \in DOMAIN msgs, NEW i, i = Moved(j)
            PROVE  /\ i >= 3 /\ new[i].n # 0 => new[i].n >= 3
                   /\ i >= 3 => new[i].kind # "system"
                   /\ new[i].n = 0 <=> new[i].kind \in Notices
                   /\ new[i].kind = "tool" => Len(new[i].ids) = 1
                   /\ new[i].kind \notin {"tool", "assistant"} => new[i].ids = <<>>
        <4>1. new[i] = msgs[j] /\ (i >= 3 => j >= 3)
          BY <1>1, <1>2, <3>1 DEF Moved
        <4> QED
          BY <4>1 DEF Whole, Shape
      <3> QED
        BY <1>2, <1>3, <3>1 DEF Notices
    <2>3. ASSUME NEW i \in DOMAIN new, NEW j \in DOMAIN new, i < j, new[j].n # 0
          PROVE  new[i].n < new[j].n
      <3>1. PICK b \in DOMAIN msgs : j = Moved(b)
        BY <1>2, <1>3, <2>3
      <3>2. CASE i = 3
        <4>1. new[i].n = 0 /\ new[j] \in MessageType
          BY <1>2, <3>2
        <4> QED
          BY <2>3, <4>1 DEF MessageType
      <3>3. CASE i # 3
        <4>1. PICK a \in DOMAIN msgs : i = Moved(a)
          BY <1>3, <3>3
        <4>2. a < b /\ new[i] = msgs[a] /\ new[j] = msgs[b]
          BY <1>2, <1>4, <2>3, <3>1, <4>1
        <4> QED
          BY <2>3, <4>2 DEF Whole, Shape
      <3> QED
        BY <3>2, <3>3
    <2> QED
      BY <1>1, <1>2, <2>1, <2>2, <2>3 DEF Whole, Shape
  <1>7. ASSUME NEW r \in DOMAIN new, IsRound(new[r])
        PROVE  /\ \A j \in DOMAIN new[r].ids : r + j <= Len(new) =>
                    new[r + j].kind = "tool" /\ new[r + j].ids = <<new[r].ids[j]>>
               /\ r + Len(new[r].ids) <= Len(new)
    <2>1. r # 3
      BY <1>2, <1>7 DEF IsRound
    <2>2. PICK i \in DOMAIN msgs : r = Moved(i)
      BY <1>3, <2>1
    <2>3. new[r] = msgs[i] /\ IsRound(msgs[i])
      BY <1>2, <1>7, <2>2
    <2>4. i >= 3 /\ r = i + 1
      BY <1>1, <2>2, <2>3 DEF Moved, Whole, Shape, IsRound
    <2>5. /\ Len(msgs[i].ids) \in Nat \ {0} /\ DOMAIN msgs[i].ids = 1 .. Len(msgs[i].ids)
          /\ i + Len(msgs[i].ids) <= Len(msgs)
          /\ \A j \in 1 .. Len(msgs[i].ids) :
               /\ i + j \in DOMAIN msgs
               /\ msgs[i + j].kind = "tool" /\ msgs[i + j].ids = <<msgs[i].ids[j]>>
      BY <2>3, RoundsAreWhole
    <2>6. r + Len(new[r].ids) <= Len(new)
      BY <1>1, <1>2, <2>3, <2>4, <2>5
    <2>7. ASSUME NEW j \in 1 .. Len(msgs[i].ids)
          PROVE  new[r + j] = msgs[i + j]
      <3>1. i + j \in DOMAIN msgs
        BY <2>5
      <3>2. Moved(i + j) = r + j
        BY <1>1, <2>4, <2>5, <3>1 DEF Moved
      <3> QED
        BY <1>2, <3>1, <3>2
    <2> QED
      BY <2>3, <2>5, <2>6, <2>7
  <1>8. ASSUME NEW i \in DOMAIN new, new[i].kind = "tool"
        PROVE  \E k \in 1 .. i - 1 : IsRound(new[k]) /\ i <= k + Len(new[k].ids)
    <2>1. i # 3
      BY <1>2, <1>8 DEF Notices
    <2>2. PICK j \in DOMAIN msgs : i = Moved(j)
      BY <1>3, <2>1
    <2>3. PICK k \in 1 .. j - 1 : IsRound(msgs[k]) /\ j <= k + Len(msgs[k].ids)
      BY <1>2, <1>8, <2>2 DEF Whole, Paired
    <2>4. k \in DOMAIN msgs /\ Len(msgs[k].ids) \in Nat
      BY <1>1, <2>3, RoundsAreWhole
    <2>5. k >= 3
      BY <1>1, <2>3, <2>4 DEF Whole, Shape, IsRound
    <2>6. new[k + 1] = msgs[k] /\ i = j + 1
      BY <1>1, <1>2, <2>2, <2>3, <2>4, <2>5 DEF Moved
    <2>7. k + 1 \in 1 .. i - 1 /\ i <= (k + 1) + Len(new[k + 1].ids)
      BY <1>1, <2>3, <2>4, <2>5, <2>6
    <2> QED
      BY <2>3, <2>6, <2>7
  <1>9. Paired(new, <<>>)
    BY <1>7, <1>8 DEF Paired
  <1> QED
    BY <1>2, <1>3, <1>5, <1>6, <1>9 DEF Whole, new

-----------------------------------------------------------------------------
(* What is owed to the model, and the notices of what it will not get. *)

LastRound(msgs, r) ==
  /\ r \in DOMAIN msgs /\ IsRound(msgs[r])
  /\ \A i \in DOMAIN msgs : IsRound(msgs[i]) => i <= r

\* The results of a round that are in the list so far.
Results(msgs, r) == (r + 1 .. r + Len(msgs[r].ids)) \cap DOMAIN msgs

\* What is owed are results of the last round, and they are in full.
Owes(msgs, due) ==
  due # {} => \E r \in DOMAIN msgs :
    /\ LastRound(msgs, r) /\ Distinct(msgs[r].ids)
    /\ due \subseteq {msgs[j].n : j \in Results(msgs, r)}
    /\ \A j \in Results(msgs, r) : msgs[j].full

Deliveries(msgs) == {i \in DOMAIN msgs : msgs[i].kind = "worker_tool_delivery"}

\* What is owed stays so when the last round is kept.
LEMMA ThinningKeepsOwed ==
  ASSUME NEW old, NEW new, NEW places \in SUBSET (DOMAIN old), NEW h,
         Whole(old), KeepsRounds(old, places), Thins(new, old, places, h),
         new \in Seq(MessageType), NEW due, Owes(old, due),
         due # {} => \A r : LastRound(old, r) => r \in places
  PROVE  Owes(new, due)
  <1> SUFFICES ASSUME due # {}
               PROVE  \E k \in DOMAIN new :
                        /\ LastRound(new, k) /\ Distinct(new[k].ids)
                        /\ due \subseteq {new[j].n : j \in Results(new, k)}
                        /\ \A j \in Results(new, k) : new[j].full
    BY DEF Owes
  <1>1. PICK r \in DOMAIN old :
          /\ LastRound(old, r) /\ Distinct(old[r].ids)
          /\ due \subseteq {old[j].n : j \in Results(old, r)}
          /\ \A j \in Results(old, r) : old[j].full
    BY DEF Owes
  <1>2. /\ DOMAIN old = 1 .. Len(old) /\ Len(old) \in Nat
        /\ DOMAIN new = 1 .. Len(new) /\ Len(new) \in Nat
        /\ \A i \in DOMAIN new : h[i] \in DOMAIN old /\ new[i] = old[h[i]]
        /\ \A i, j \in DOMAIN new : i < j => h[i] < h[j]
    BY DEF Whole, Shape, Thins
  <1>3. PICK k \in DOMAIN new : h[k] = r
    BY <1>1 DEF Thins
  <1>4. new[k] = old[r] /\ IsRound(new[k])
    BY <1>1, <1>2, <1>3 DEF LastRound
  <1>5. ASSUME NEW i \in DOMAIN new, IsRound(new[i]) PROVE i <= k
    <2>1. h[i] <= r
      BY <1>1, <1>2, <1>5 DEF LastRound
    <2>2. ~ (k < i)
      BY <1>2, <1>3, <2>1
    <2> QED
      BY <1>2, <2>2
  <1>6. /\ Len(new[k].ids) \in Nat
        /\ \A j \in 1 .. Len(new[k].ids) :
             k + j \in DOMAIN new /\ h[k + j] = r + j /\ new[k + j] = old[r + j]
    <2>1. Len(old[r].ids) \in Nat
      BY <1>1, RoundsAreWhole DEF LastRound
    <2>2. \A j \in 1 .. Len(new[k].ids) : k + j \in DOMAIN new /\ h[k + j] = h[k] + j
      BY <1>4, RoundsMoveWhole
    <2> QED
      BY <1>2, <1>3, <1>4, <2>1, <2>2
  <1>7. ASSUME NEW j \in Results(old, r)
        PROVE  j - r \in 1 .. Len(new[k].ids) /\ r + (j - r) = j
    BY <1>2, <1>4, <1>6 DEF Results
  <1>8. ASSUME NEW j \in Results(old, r)
        PROVE  k + (j - r) \in Results(new, k) /\ new[k + (j - r)] = old[j]
    <2> DEFINE d == j - r
    <2>1. d \in 1 .. Len(new[k].ids) /\ r + d = j
      BY <1>7
    <2> HIDE DEF d
    <2>2. k + d \in DOMAIN new /\ new[k + d] = old[j]
      BY <1>6, <2>1
    <2>3. k + d \in Results(new, k)
      BY <1>2, <1>6, <2>1, <2>2 DEF Results
    <2> QED
      BY <2>2, <2>3 DEF d
  <1>9. ASSUME NEW j \in Results(new, k)
        PROVE  new[j].full
    <2> DEFINE d == j - k
    <2>1. d \in 1 .. Len(new[k].ids) /\ k + d = j
      BY <1>2, <1>6 DEF Results
    <2> HIDE DEF d
    <2>2. new[j] = old[r + d] /\ r + d \in DOMAIN old
      BY <1>2, <1>6, <2>1
    <2>3. r + d \in Results(old, r)
      BY <1>2, <1>4, <1>6, <2>1, <2>2 DEF Results
    <2> QED
      BY <1>1, <2>2, <2>3
  <1>10. LastRound(new, k) /\ Distinct(new[k].ids)
    BY <1>1, <1>4, <1>5 DEF LastRound
  <1>11. due \subseteq {new[j].n : j \in Results(new, k)}
    BY <1>1, <1>8
  <1> QED
    BY <1>9, <1>10, <1>11

\* A notice in front of the rounds does not change what is owed.
LEMMA InsertKeepsOwed ==
  ASSUME NEW msgs, Whole(msgs), NEW m \in MessageType, m.kind \in Notices, m.n = 0,
         m.ids = <<>>, NEW due, Owes(msgs, due)
  PROVE  Owes(InsertAt(msgs, 3, m), due)
  <1> DEFINE new == InsertAt(msgs, 3, m)
  <1> SUFFICES ASSUME due # {}
               PROVE  \E k \in DOMAIN new :
                        /\ LastRound(new, k) /\ Distinct(new[k].ids)
                        /\ due \subseteq {new[j].n : j \in Results(new, k)}
                        /\ \A j \in Results(new, k) : new[j].full
    BY DEF Owes
  <1>1. PICK r \in DOMAIN msgs :
          /\ LastRound(msgs, r) /\ Distinct(msgs[r].ids)
          /\ due \subseteq {msgs[j].n : j \in Results(msgs, r)}
          /\ \A j \in Results(msgs, r) : msgs[j].full
    BY DEF Owes
  <1>2. /\ Whole(new) /\ new[3] = m
        /\ DOMAIN msgs = 1 .. Len(msgs) /\ Len(msgs) \in Nat
        /\ DOMAIN new = 1 .. Len(msgs) + 1
        /\ \A i \in DOMAIN msgs : Moved(i) \in DOMAIN new /\ new[Moved(i)] = msgs[i]
        /\ \A i \in DOMAIN new : i = 3 \/ \E j \in DOMAIN msgs : i = Moved(j)
    <2>1. /\ new \in Seq(MessageType) /\ Len(new) = Len(msgs) + 1
          /\ \A i \in 1 .. Len(msgs) + 1 :
               new[i] = IF i <= 2 THEN msgs[i] ELSE IF i = 3 THEN m ELSE msgs[i - 1]
      BY InsertedAt
    <2>2. /\ Whole(new)
          /\ \A i \in DOMAIN msgs : Moved(i) \in DOMAIN new /\ new[Moved(i)] = msgs[i]
          /\ \A i \in DOMAIN new : i = 3 \/ \E j \in DOMAIN msgs : i = Moved(j)
      BY InsertKeepsWhole
    <2> HIDE DEF new
    <2>3. msgs \in Seq(MessageType) /\ Len(msgs) >= 2
      BY DEF Whole, Shape
    <2> QED
      BY <2>1, <2>2, <2>3
  <1> HIDE DEF new
  <1>3. r >= 3 /\ Len(msgs[r].ids) \in Nat /\ IsRound(msgs[r])
    <2>1. IsRound(msgs[r]) /\ Len(msgs[r].ids) \in Nat
      BY <1>1, RoundsAreWhole DEF LastRound
    <2> QED
      BY <1>2, <2>1 DEF Whole, Shape, IsRound
  <1>4. r + 1 \in DOMAIN new /\ new[r + 1] = msgs[r]
    BY <1>2, <1>3 DEF Moved
  <1>5. ASSUME NEW i \in DOMAIN new, IsRound(new[i]) PROVE i <= r + 1
    <2>1. i # 3
      BY <1>2, <1>5 DEF IsRound
    <2>2. PICK j \in DOMAIN msgs : i = Moved(j)
      BY <1>2, <2>1
    <2>3. j <= r
      BY <1>1, <1>2, <1>5, <2>2 DEF LastRound
    <2> QED
      BY <1>2, <2>2, <2>3 DEF Moved
  <1>6. ASSUME NEW j \in Results(msgs, r)
        PROVE  j + 1 \in Results(new, r + 1) /\ new[j + 1] = msgs[j]
    BY <1>2, <1>3, <1>4, SMTT(30) DEF Results, Moved
  <1>7. ASSUME NEW j \in Results(new, r + 1)
        PROVE  j - 1 \in Results(msgs, r) /\ new[j] = msgs[j - 1]
    <2>1. j \in DOMAIN new /\ j >= r + 2 /\ j <= r + 1 + Len(msgs[r].ids)
      BY <1>2, <1>3, <1>4 DEF Results
    <2>2. j - 1 \in DOMAIN msgs /\ Moved(j - 1) = j
      BY <1>2, <1>3, <2>1 DEF Moved
    <2>3. j - 1 \in Results(msgs, r)
      <3> DEFINE L == Len(msgs[r].ids)
      <3>1. /\ j \in Nat /\ r \in Nat /\ L \in Nat /\ j >= r + 2 /\ j <= r + 1 + L
            /\ j - 1 \in DOMAIN msgs
        BY <1>2, <1>3, <2>1, <2>2
      <3> HIDE DEF L
      <3>2. j - 1 \in r + 1 .. r + L
        BY <3>1
      <3> QED
        BY <3>1, <3>2 DEF Results, L
    <2>4. new[Moved(j - 1)] = msgs[j - 1]
      BY <1>2, <2>2
    <2> QED
      BY <2>2, <2>3, <2>4
  <1>8. LastRound(new, r + 1) /\ Distinct(new[r + 1].ids)
    BY <1>1, <1>3, <1>4, <1>5 DEF LastRound
  <1>9. due \subseteq {new[j].n : j \in Results(new, r + 1)}
    BY <1>1, <1>6
  <1>10. \A j \in Results(new, r + 1) : new[j].full
    BY <1>1, <1>7
  <1> QED
    BY <1>4, <1>8, <1>9, <1>10

\* The notices of rounds that were not shown.
LEMMA ThinningKeepsDeliveries ==
  ASSUME NEW old, NEW new, NEW places \in SUBSET (DOMAIN old), NEW h,
         Thins(new, old, places, h), old \in Seq(MessageType), new \in Seq(MessageType),
         Deliveries(old) \subseteq places
  PROVE  Cardinality(Deliveries(new)) = Cardinality(Deliveries(old))
  <1> DEFINE g == [i \in Deliveries(new) |-> h[i]]
  <1>1. \A i \in DOMAIN new : h[i] \in DOMAIN old /\ new[i] = old[h[i]]
    BY DEF Thins
  <1>2. g \in [Deliveries(new) -> Deliveries(old)]
    BY <1>1 DEF Deliveries
  <1>3. \A i, j \in Deliveries(new) : g[i] = g[j] => i = j
    <2> SUFFICES ASSUME NEW i \in Deliveries(new), NEW j \in Deliveries(new), i # j
                 PROVE  h[i] # h[j]
      OBVIOUS
    <2>1. i \in Nat /\ j \in Nat /\ i \in DOMAIN new /\ j \in DOMAIN new
      BY DEF Deliveries
    <2>2. h[i] \in Nat /\ h[j] \in Nat
      BY <1>1, <2>1
    <2> QED
      BY <2>1, <2>2 DEF Thins
  <1>4. \A p \in Deliveries(old) : \E i \in Deliveries(new) : g[i] = p
    BY <1>1 DEF Deliveries, Thins
  <1>5. g \in Bijection(Deliveries(new), Deliveries(old))
    BY <1>2, <1>3, <1>4 DEF Bijection, Injection, Surjection, IsInjective
  <1>6. IsFiniteSet(Deliveries(new))
    <2>1. IsFiniteSet(DOMAIN new)
      BY FS_Interval
    <2> QED
      BY <2>1, FS_Subset DEF Deliveries
  <1> QED
    BY <1>5, <1>6, FS_Bijection DEF ExistsBijection

\* An inserted notice is counted when it announces a lost round.
LEMMA InsertCountsDeliveries ==
  ASSUME NEW msgs, Whole(msgs), NEW m \in MessageType, m.kind \in Notices, m.n = 0,
         m.ids = <<>>
  PROVE  Cardinality(Deliveries(InsertAt(msgs, 3, m)))
           = Cardinality(Deliveries(msgs)) + IF m.kind = "worker_tool_delivery" THEN 1 ELSE 0
  <1> DEFINE new == InsertAt(msgs, 3, m)
             rest == Deliveries(new) \ {3}
             g == [i \in Deliveries(msgs) |-> Moved(i)]
  <1>1. /\ new[3] = m /\ 3 \in DOMAIN new
        /\ \A i \in DOMAIN msgs : Moved(i) \in DOMAIN new /\ new[Moved(i)] = msgs[i]
        /\ \A i \in DOMAIN new : i = 3 \/ \E j \in DOMAIN msgs : i = Moved(j)
        /\ DOMAIN msgs \subseteq Nat /\ IsFiniteSet(DOMAIN msgs)
    <2>1. /\ new \in Seq(MessageType) /\ Len(new) = Len(msgs) + 1
          /\ \A i \in 1 .. Len(msgs) + 1 :
               new[i] = IF i <= 2 THEN msgs[i] ELSE IF i = 3 THEN m ELSE msgs[i - 1]
      BY InsertedAt
    <2>2. /\ \A i \in DOMAIN msgs : Moved(i) \in DOMAIN new /\ new[Moved(i)] = msgs[i]
          /\ \A i \in DOMAIN new : i = 3 \/ \E j \in DOMAIN msgs : i = Moved(j)
      BY InsertKeepsWhole
    <2> HIDE DEF new
    <2>3. msgs \in Seq(MessageType) /\ Len(msgs) \in Nat /\ Len(msgs) >= 2
      BY DEF Whole, Shape
    <2>4. new[3] = m /\ 3 \in DOMAIN new
      BY <2>1, <2>3
    <2>5. DOMAIN msgs = 1 .. Len(msgs) /\ 1 .. Len(msgs) \subseteq Nat
      BY <2>3
    <2>6. IsFiniteSet(1 .. Len(msgs))
      BY <2>3, FS_Interval
    <2>7. DOMAIN msgs \subseteq Nat /\ IsFiniteSet(DOMAIN msgs)
      BY <2>5, <2>6
    <2> QED
      BY <2>2, <2>4, <2>7
  <1> HIDE DEF new
  <1>2. IsFiniteSet(Deliveries(msgs))
    BY <1>1, FS_Subset DEF Deliveries
  <1>3. \A i, j \in Nat : Moved(i) = Moved(j) => i = j
    BY DEF Moved
  <1>4. \A i \in Nat : Moved(i) # 3
    BY DEF Moved
  <1>5. g \in [Deliveries(msgs) -> rest]
    BY <1>1, <1>4 DEF Deliveries
  <1>6. g \in Bijection(Deliveries(msgs), rest)
    <2>1. \A i, j \in Deliveries(msgs) : g[i] = g[j] => i = j
      BY <1>1, <1>3 DEF Deliveries
    <2>2. \A p \in rest : \E i \in Deliveries(msgs) : g[i] = p
      BY <1>1 DEF Deliveries
    <2> QED
      BY <1>5, <2>1, <2>2 DEF Bijection, Injection, Surjection, IsInjective
  <1>7. IsFiniteSet(rest) /\ Cardinality(rest) = Cardinality(Deliveries(msgs))
    BY <1>2, <1>6, FS_Bijection DEF ExistsBijection
  <1>8. Cardinality(rest \cup {3}) = Cardinality(rest) + 1
    BY <1>7, FS_AddElement
  <1>9. Cardinality(rest) \in Nat
    BY <1>7, FS_CardinalityType
  <1>10. CASE m.kind = "worker_tool_delivery"
    <2>1. Deliveries(new) = rest \cup {3}
      BY <1>1, <1>10 DEF Deliveries
    <2>2. Cardinality(Deliveries(new)) = Cardinality(Deliveries(msgs)) + 1
      BY <1>7, <1>8, <2>1
    <2> QED
      BY <1>10, <2>2 DEF new
  <1>11. CASE m.kind # "worker_tool_delivery"
    <2>1. Deliveries(new) = rest
      BY <1>1, <1>11 DEF Deliveries
    <2>2. Cardinality(Deliveries(new)) = Cardinality(Deliveries(msgs)) + 0
      <3>1. Cardinality(Deliveries(msgs)) \in Nat
        BY <1>2, FS_CardinalityType
      <3> QED
        BY <1>7, <2>1, <3>1
    <2> QED
      BY <1>11, <2>2 DEF new
  <1> QED
    BY <1>10, <1>11

-----------------------------------------------------------------------------
(* Units. *)

\* A unit is a prompt, an answer, or a round with all its results.
LEMMA UnitsAreWhole ==
  ASSUME NEW msgs, Whole(msgs), NEW i \in DOMAIN msgs, UnitEnd(msgs, i) # 0
  PROVE  /\ msgs[i].kind \in {"user", "assistant"} /\ Len(msgs[i].ids) \in Nat
         /\ UnitEnd(msgs, i) = i + Len(msgs[i].ids) /\ UnitEnd(msgs, i) \in DOMAIN msgs
         /\ \A j \in i + 1 .. UnitEnd(msgs, i) : msgs[j].kind = "tool"
  <1> DEFINE m == msgs[i]
             end == i + Len(m.ids)
             answered == /\ m.kind = "assistant" /\ Distinct(m.ids) /\ end <= Len(msgs)
                         /\ \A j \in i + 1 .. end : msgs[j].kind = "tool"
                         /\ {msgs[j].ids[1] : j \in i + 1 .. end} = Range(m.ids)
  <1>1. /\ DOMAIN msgs = 1 .. Len(msgs) /\ Len(msgs) \in Nat /\ m \in MessageType
        /\ m.kind = "user" => m.ids = <<>>
    BY DEF Whole, Shape
  <1>2. Len(m.ids) \in Nat
    BY <1>1 DEF MessageType
  <1>3. UnitEnd(msgs, i) = IF m.kind = "user" \/ answered THEN end ELSE 0
    BY DEF UnitEnd
  <1>4. (m.kind = "user" \/ answered) /\ UnitEnd(msgs, i) = end
    <2> HIDE DEF answered, end
    <2> QED
      BY <1>3
  <1>5. CASE m.kind = "user"
    <2>1. end = i /\ i + 1 .. end = {}
      BY <1>1, <1>5
    <2> QED
      BY <1>1, <1>2, <1>4, <1>5, <2>1
  <1>6. CASE answered
    <2>1. end \in DOMAIN msgs
      BY <1>1, <1>2, <1>6
    <2> QED
      BY <1>2, <1>4, <1>6, <2>1
  <1> QED
    BY <1>4, <1>5, <1>6

\* A round with distinct ids that has its results is a unit to the code.
LEMMA AnsweredRoundIsUnit ==
  ASSUME NEW msgs, Whole(msgs), NEW i \in DOMAIN msgs, IsRound(msgs[i]),
         Distinct(msgs[i].ids)
  PROVE  UnitEnd(msgs, i) = i + Len(msgs[i].ids)
  <1> DEFINE m == msgs[i]
             L == Len(m.ids)
  <1>1. /\ L \in Nat \ {0} /\ DOMAIN m.ids = 1 .. L /\ i + L <= Len(msgs)
        /\ \A j \in 1 .. L : /\ msgs[i + j].kind = "tool"
                             /\ msgs[i + j].ids = <<m.ids[j]>>
    BY RoundsAreWhole
  <1>2. i \in Nat
    BY DEF Whole, Shape
  <1>3. m.kind = "assistant" /\ Distinct(m.ids)
    BY DEF IsRound
  <1>4. UnitEnd(msgs, i)
          = IF \/ m.kind = "user"
               \/ /\ m.kind = "assistant" /\ Distinct(m.ids) /\ i + L <= Len(msgs)
                  /\ \A j \in i + 1 .. i + L : msgs[j].kind = "tool"
                  /\ {msgs[j].ids[1] : j \in i + 1 .. i + L} = Range(m.ids)
            THEN i + L ELSE 0
    BY DEF UnitEnd
  <1>5. Range(m.ids) = {m.ids[j] : j \in 1 .. L}
    BY <1>1 DEF Range
  <1> HIDE DEF L, m
  <1>6. ASSUME NEW j \in i + 1 .. i + L
        PROVE  j - i \in 1 .. L /\ msgs[j].kind = "tool" /\ msgs[j].ids[1] = m.ids[j - i]
    <2> DEFINE d == j - i
    <2>1. d \in 1 .. L /\ i + d = j
      BY <1>1, <1>2
    <2> HIDE DEF d
    <2>2. msgs[j].kind = "tool" /\ msgs[j].ids = <<m.ids[d]>>
      BY <1>1, <2>1
    <2> QED
      BY <2>1, <2>2 DEF d
  <1>7. ASSUME NEW d \in 1 .. L
        PROVE  i + d \in i + 1 .. i + L /\ msgs[i + d].ids[1] = m.ids[d]
    <2>1. i + d \in i + 1 .. i + L
      BY <1>1, <1>2
    <2>2. msgs[i + d].ids = <<m.ids[d]>>
      BY <1>1
    <2> QED
      BY <2>1, <2>2
  <1>8. {msgs[j].ids[1] : j \in i + 1 .. i + L} = Range(m.ids)
    BY <1>5, <1>6, <1>7
  <1> QED
    BY <1>1, <1>3, <1>4, <1>6, <1>8 DEF L, m

\* There is a last round when there is one, and it is the one the code finds.
LEMMA LastRoundExists ==
  ASSUME NEW msgs, Shape(msgs), NEW i \in DOMAIN msgs, IsRound(msgs[i])
  PROVE  \E r \in DOMAIN msgs : LastRound(msgs, r)
  <1> DEFINE N == Len(msgs)
             behind == {N - j : j \in {k \in DOMAIN msgs : IsRound(msgs[k])}}
  <1>1. N \in Nat /\ DOMAIN msgs = 1 .. N
    BY DEF Shape
  <1>2. behind \subseteq Nat /\ behind # {}
    BY <1>1
  <1> HIDE DEF N
  <1>3. PICK b \in behind : \A c \in behind : b <= c
    BY <1>2, LeastNumber
  <1>4. PICK r \in DOMAIN msgs : IsRound(msgs[r]) /\ b = N - r
    OBVIOUS
  <1>5. ASSUME NEW k \in DOMAIN msgs, IsRound(msgs[k]) PROVE k <= r
    <2>1. N - r <= N - k
      BY <1>3, <1>4, <1>5
    <2> QED
      BY <1>1, <2>1
  <1> QED
    BY <1>4, <1>5 DEF LastRound

LEMMA LastRoundIsMax ==
  ASSUME NEW msgs, Shape(msgs), NEW r, LastRound(msgs, r)
  PROVE  /\ {i \in DOMAIN msgs : IsRound(msgs[i])} # {}
         /\ Max({i \in DOMAIN msgs : IsRound(msgs[i])}) = r
  <1> DEFINE rounds == {i \in DOMAIN msgs : IsRound(msgs[i])}
  <1>1. rounds \subseteq Nat /\ r \in rounds /\ \A i \in rounds : r >= i
    BY DEF LastRound, Shape
  <1>2. \A x \in rounds : (\A y \in rounds : x >= y) => x = r
    BY <1>1
  <1> HIDE DEF rounds
  <1>3. Max(rounds) = r
    BY <1>1, <1>2 DEF Max
  <1> QED
    BY <1>1, <1>3 DEF rounds

\* What the code spares is the last round with its results.
LEMMA PendingIsLastRound ==
  ASSUME NEW msgs, Shape(msgs), NEW pending, pending = TRUE, NEW r, LastRound(msgs, r)
  PROVE  PendingRound(msgs, pending) = r .. UnitEnd(msgs, r)
  BY LastRoundIsMax DEF PendingRound

LEMMA NothingPending ==
  ASSUME NEW msgs, Shape(msgs), NEW pending, PendingRound(msgs, pending) # {}
  PROVE  pending /\ \E r \in DOMAIN msgs : LastRound(msgs, r)
  <1>1. pending /\ {i \in DOMAIN msgs : IsRound(msgs[i])} # {}
    BY DEF PendingRound
  <1>2. PICK i \in DOMAIN msgs : IsRound(msgs[i])
    BY <1>1
  <1> QED
    BY <1>1, <1>2, LastRoundExists

-----------------------------------------------------------------------------
(* Omission. *)

\* The places of the units that end at or before cut.
Gone(msgs, cut) ==
  UNION {i .. UnitEnd(msgs, i) :
           i \in {j \in UnitStarts(msgs) : UnitEnd(msgs, j) <= cut}}

\* What a compaction omits are whole rounds, prompts and answers behind the task.
LEMMA GoneIsWholeUnits ==
  ASSUME NEW msgs, Whole(msgs), NEW cut
  PROVE  /\ Gone(msgs, cut) \subseteq DOMAIN msgs
         /\ 1 \notin Gone(msgs, cut) /\ 2 \notin Gone(msgs, cut)
         /\ \A p \in Gone(msgs, cut) : msgs[p].kind \in {"user", "assistant", "tool"}
         /\ \A i \in DOMAIN msgs : IsRound(msgs[i]) =>
              \A j \in 1 .. Len(msgs[i].ids) :
                i \in Gone(msgs, cut) <=> i + j \in Gone(msgs, cut)
  <1> DEFINE Unit(i) == i .. UnitEnd(msgs, i)
             units == {j \in UnitStarts(msgs) : UnitEnd(msgs, j) <= cut}
  <1>1. DOMAIN msgs = 1 .. Len(msgs) /\ Len(msgs) \in Nat
    BY DEF Whole, Shape
  <1>2. ASSUME NEW i \in units
        PROVE  /\ i \in DOMAIN msgs /\ i >= 3 /\ msgs[i].kind \in {"user", "assistant"}
               /\ Len(msgs[i].ids) \in Nat
               /\ UnitEnd(msgs, i) = i + Len(msgs[i].ids) /\ UnitEnd(msgs, i) \in DOMAIN msgs
               /\ \A j \in i + 1 .. UnitEnd(msgs, i) : msgs[j].kind = "tool"
    <2>1. i \in DOMAIN msgs /\ i >= 3 /\ UnitEnd(msgs, i) # 0
      BY <1>1 DEF UnitStarts
    <2> QED
      BY <2>1, UnitsAreWhole
  <1>3. Gone(msgs, cut) = UNION {Unit(i) : i \in units}
    BY DEF Gone
  <1> HIDE DEF units
  <1>4. ASSUME NEW p \in Gone(msgs, cut)
        PROVE  /\ p \in DOMAIN msgs /\ p >= 3
               /\ msgs[p].kind \in {"user", "assistant", "tool"}
    <2>1. PICK i \in units : p \in i .. UnitEnd(msgs, i)
      BY <1>3
    <2>2. p \in DOMAIN msgs /\ p >= 3
      BY <1>1, <1>2, <2>1
    <2>3. p = i \/ p \in i + 1 .. UnitEnd(msgs, i)
      BY <1>1, <1>2, <2>1
    <2> QED
      BY <1>2, <2>2, <2>3
  <1>5. ASSUME NEW r \in DOMAIN msgs, IsRound(msgs[r]), NEW j \in 1 .. Len(msgs[r].ids)
        PROVE  r \in Gone(msgs, cut) <=> r + j \in Gone(msgs, cut)
    <2> DEFINE L == Len(msgs[r].ids)
    <2>1. /\ L \in Nat \ {0} /\ r + L <= Len(msgs)
          /\ \A k \in 1 .. L : r + k \in DOMAIN msgs /\ msgs[r + k].kind = "tool"
      BY <1>5, RoundsAreWhole
    <2>2. msgs[r].kind = "assistant" /\ j \in 1 .. L
      BY <1>5 DEF IsRound
    <2>3. ASSUME r \in Gone(msgs, cut) PROVE r + j \in Gone(msgs, cut)
      <3>1. PICK i \in units : r \in i .. UnitEnd(msgs, i)
        BY <1>3, <2>3
      <3>2. i = r
        <4>1. r = i \/ r \in i + 1 .. UnitEnd(msgs, i)
          BY <1>1, <1>2, <3>1
        <4> QED
          BY <1>2, <2>2, <4>1
      <3>3. UnitEnd(msgs, r) = r + L
        BY <1>2, <3>2
      <3> HIDE DEF L
      <3>4. r + j \in Unit(r)
        BY <1>1, <2>1, <2>2, <3>3
      <3> QED
        BY <1>3, <3>1, <3>2, <3>4
    <2>4. ASSUME r + j \in Gone(msgs, cut) PROVE r \in Gone(msgs, cut)
      <3> HIDE DEF L
      <3>1. PICK i \in units : r + j \in i .. UnitEnd(msgs, i)
        BY <1>3, <2>4
      <3>2. i <= r
        <4> SUFFICES ASSUME ~ (i <= r) PROVE FALSE
          OBVIOUS
        <4> DEFINE d == i - r
        <4>1. d \in 1 .. L /\ r + d = i
          BY <1>1, <1>2, <2>1, <2>2, <3>1
        <4> HIDE DEF d
        <4>2. msgs[r + d].kind = "tool"
          BY <2>1, <4>1
        <4> QED
          BY <1>2, <4>1, <4>2
      <3>3. r \in Unit(i)
        BY <1>1, <1>2, <2>1, <2>2, <3>1, <3>2
      <3> QED
        BY <1>3, <3>3
    <2> QED
      BY <2>3, <2>4
  <1> QED
    BY <1>4, <1>5

\* What is left of a list when a notice may be put into it.
Left(msgs, cut) == Kept(msgs, DOMAIN msgs \ Gone(msgs, cut))
Unseen(msgs, cut, pending) == PendingRound(msgs, pending) \cap Gone(msgs, cut)

LEMMA OmitMeans ==
  ASSUME NEW msgs, NEW cut, NEW pending
  PROVE  Omit(msgs, cut, pending)
           = [messages |-> IF Unseen(msgs, cut, pending) = {} THEN Left(msgs, cut)
                           ELSE InsertAt(Left(msgs, cut), 3, Delivery),
              omitted |-> {msgs[i].n : i \in Gone(msgs, cut)},
              undelivered |-> {msgs[i].n : i \in {j \in Unseen(msgs, cut, pending) :
                                                    ~ IsRound(msgs[j])}}]
  BY DEF Omit, Left, Unseen, Gone

\* A round that is omitted before the model was shown it goes with all that is
\* owed to the model.
LEMMA UnseenIsTheLastRound ==
  ASSUME NEW msgs, Whole(msgs), NEW cut, NEW pending, Unseen(msgs, cut, pending) # {},
         NEW due, Owes(msgs, due)
  PROVE  /\ Omit(msgs, cut, pending).undelivered # {}
         /\ due \subseteq Omit(msgs, cut, pending).undelivered
  <1> DEFINE unseen == Unseen(msgs, cut, pending)
             und == {msgs[i].n : i \in {j \in unseen : ~ IsRound(msgs[j])}}
  <1>1. Omit(msgs, cut, pending).undelivered = und
    BY OmitMeans
  <1>2. DOMAIN msgs = 1 .. Len(msgs) /\ Len(msgs) \in Nat /\ Shape(msgs)
    BY DEF Whole, Shape
  <1>3. pending /\ \E r \in DOMAIN msgs : LastRound(msgs, r)
    BY <1>2, NothingPending DEF Unseen
  <1>4. PICK r \in DOMAIN msgs : LastRound(msgs, r)
    BY <1>3
  <1>5. PendingRound(msgs, pending) = r .. UnitEnd(msgs, r)
    BY <1>2, <1>3, <1>4, PendingIsLastRound
  <1>6. UnitEnd(msgs, r) # 0
    BY <1>2, <1>5 DEF Unseen
  <1> DEFINE L == Len(msgs[r].ids)
  <1>7. /\ L \in Nat \ {0} /\ r + L <= Len(msgs) /\ UnitEnd(msgs, r) = r + L
        /\ \A j \in 1 .. L : r + j \in DOMAIN msgs /\ ~ IsRound(msgs[r + j])
    <2>1. UnitEnd(msgs, r) = r + L
      BY <1>6, UnitsAreWhole
    <2>2. IsRound(msgs[r])
      BY <1>4 DEF LastRound
    <2> QED
      BY <2>1, <2>2, RoundsAreWhole
  <1>8. \A j \in 1 .. L : r \in Gone(msgs, cut) <=> r + j \in Gone(msgs, cut)
    <2>1. IsRound(msgs[r])
      BY <1>4 DEF LastRound
    <2> QED
      BY <2>1, GoneIsWholeUnits
  <1>9. unseen = (r .. r + L) \cap Gone(msgs, cut)
    BY <1>5, <1>7 DEF Unseen
  <1> HIDE DEF unseen
  <1>10. PICK p \in unseen : TRUE
    BY DEF unseen
  <1>11. r \in Gone(msgs, cut)
    <2> DEFINE d == p - r
    <2>1. p = r \/ (d \in 1 .. L /\ r + d = p)
      <3> HIDE DEF L
      <3> QED
        BY <1>2, <1>7, <1>9
    <2> HIDE DEF d
    <2> QED
      BY <1>8, <1>9, <1>10, <2>1
  <1>12. ASSUME NEW j \in 1 .. L
         PROVE  r + j \in unseen /\ ~ IsRound(msgs[r + j]) /\ msgs[r + j].n \in und
    <2>1. r + j \in r .. r + L
      <3> HIDE DEF L
      <3> QED
        BY <1>2, <1>7
    <2>2. r + j \in Gone(msgs, cut)
      BY <1>8, <1>11
    <2> QED
      BY <1>7, <1>9, <2>1, <2>2
  <1>13. und # {}
    <2>1. 1 \in 1 .. L
      <3> HIDE DEF L
      <3> QED
        BY <1>7
    <2> QED
      BY <1>12, <2>1
  <1>14. due \subseteq und
    <2> SUFFICES ASSUME due # {} PROVE due \subseteq und
      OBVIOUS
    <2>1. PICK k \in DOMAIN msgs : /\ LastRound(msgs, k)
                                   /\ due \subseteq {msgs[j].n : j \in Results(msgs, k)}
      BY DEF Owes
    <2>2. k = r
      BY <1>2, <1>4, <2>1 DEF LastRound
    <2> SUFFICES ASSUME NEW j \in Results(msgs, r) PROVE msgs[j].n \in und
      BY <2>1, <2>2
    <2> DEFINE d == j - r
    <2>3. d \in 1 .. L /\ r + d = j
      <3>1. j \in r + 1 .. r + L
        BY DEF Results
      <3> HIDE DEF L
      <3> QED
        BY <1>2, <1>7, <3>1
    <2> HIDE DEF d
    <2> QED
      BY <1>12, <2>3
  <1> QED
    BY <1>1, <1>13, <1>14

\* What an operation may do to the list while results are owed: it loses none
\* of the numbers it does not give away, breaks no round, keeps what is owed or
\* announces that it is gone.
Keeps(old, new, omitted, gone, due) ==
  /\ Whole(new)
  /\ Serials(old) = Serials(new) \cup omitted /\ Serials(new) \cap omitted = {}
  /\ Cardinality(Deliveries(new))
       = Cardinality(Deliveries(old)) + IF gone = {} THEN 0 ELSE 1
  /\ Owes(new, due \ gone)
  /\ gone # {} => due \ gone = {}

LEMMA DeliveryType == Delivery \in MessageType /\ Delivery.kind = "worker_tool_delivery"
                      /\ Delivery.n = 0 /\ Delivery.ids = <<>>
  <1>1. <<>> \in Seq(CallIds)
    OBVIOUS
  <1> QED
    BY <1>1 DEF Delivery, Message, MessageType, Kinds

\* One omission, wherever it is cut.
LEMMA OmitKeeps ==
  ASSUME NEW msgs, Whole(msgs), NEW cut, NEW pending,
         NEW due, Owes(msgs, due), due # {} => pending = TRUE
  PROVE  Keeps(msgs, Omit(msgs, cut, pending).messages, Omit(msgs, cut, pending).omitted,
               Omit(msgs, cut, pending).undelivered, due)
  <1> DEFINE places == DOMAIN msgs \ Gone(msgs, cut)
             rest == Left(msgs, cut)
             c == Omit(msgs, cut, pending)
             omitted == {msgs[i].n : i \in Gone(msgs, cut)}
             unseen == Unseen(msgs, cut, pending)
  <1>1. /\ DOMAIN msgs = 1 .. Len(msgs) /\ Len(msgs) \in Nat /\ Shape(msgs)
        /\ msgs \in Seq(MessageType) /\ Len(msgs) >= 2
    BY DEF Whole, Shape
  <1>2. /\ c.messages = IF unseen = {} THEN rest ELSE InsertAt(rest, 3, Delivery)
        /\ c.omitted = omitted
        /\ c.undelivered = {msgs[i].n : i \in {j \in unseen : ~ IsRound(msgs[j])}}
    BY OmitMeans
  <1>3. rest \in Seq(MessageType) /\ \E h : Thins(rest, msgs, places, h)
    BY <1>1, KeptThins DEF Left
  <1>4. PICK h : Thins(rest, msgs, places, h)
    BY <1>3
  <1>5. /\ KeepsRounds(msgs, places) /\ 1 \in places /\ 2 \in places
        /\ DOMAIN msgs \ places = Gone(msgs, cut)
        /\ \A p \in Gone(msgs, cut) : p \in DOMAIN msgs /\ msgs[p].kind \notin Notices
    <2>1. /\ Gone(msgs, cut) \subseteq DOMAIN msgs
          /\ 1 \notin Gone(msgs, cut) /\ 2 \notin Gone(msgs, cut)
          /\ \A p \in Gone(msgs, cut) : msgs[p].kind \in {"user", "assistant", "tool"}
          /\ \A i \in DOMAIN msgs : IsRound(msgs[i]) =>
               \A j \in 1 .. Len(msgs[i].ids) :
                 i \in Gone(msgs, cut) <=> i + j \in Gone(msgs, cut)
      BY GoneIsWholeUnits
    <2>2. 1 \in places /\ 2 \in places /\ DOMAIN msgs \ places = Gone(msgs, cut)
      BY <1>1, <2>1
    <2>3. \A i \in DOMAIN msgs : IsRound(msgs[i]) =>
            \A j \in 1 .. Len(msgs[i].ids) : i + j \in DOMAIN msgs
      BY RoundsAreWhole
    <2>4. KeepsRounds(msgs, places)
      BY <2>1, <2>3 DEF KeepsRounds
    <2> QED
      BY <2>1, <2>2, <2>4 DEF Notices
  <1> HIDE DEF places, rest, unseen, c
  <1>6. Whole(rest)
    BY <1>3, <1>4, <1>5, ThinningKeepsWhole DEF places
  <1>7. Serials(msgs) = Serials(rest) \cup omitted /\ Serials(rest) \cap omitted = {}
    <2>1. \A p \in DOMAIN msgs \ places : msgs[p].n # 0
      BY <1>1, <1>5 DEF Shape
    <2>2. /\ Serials(msgs) = Serials(rest) \cup {msgs[p].n : p \in DOMAIN msgs \ places}
          /\ Serials(rest) \cap {msgs[p].n : p \in DOMAIN msgs \ places} = {}
      BY <1>4, <2>1, ThinningSplitsSerials DEF places
    <2> QED
      BY <1>5, <2>2
  <1>8. Cardinality(Deliveries(rest)) = Cardinality(Deliveries(msgs))
    <2>1. Deliveries(msgs) \subseteq places
      BY <1>5 DEF Deliveries, Notices, places
    <2> QED
      BY <1>1, <1>3, <1>4, <2>1, ThinningKeepsDeliveries DEF places
  <1>9. CASE unseen = {}
    <2>1. c.messages = rest /\ c.undelivered = {}
      BY <1>2, <1>9
    <2>2. ASSUME due # {}, NEW r, LastRound(msgs, r) PROVE r \in places
      <3>1. PICK k \in DOMAIN msgs : LastRound(msgs, k) /\ Distinct(msgs[k].ids)
        BY <2>2 DEF Owes
      <3>2. k = r /\ r \in DOMAIN msgs /\ IsRound(msgs[r]) /\ Distinct(msgs[r].ids)
        BY <1>1, <2>2, <3>1 DEF LastRound
      <3>3. UnitEnd(msgs, r) = r + Len(msgs[r].ids) /\ Len(msgs[r].ids) \in Nat
        BY <3>2, AnsweredRoundIsUnit, RoundsAreWhole
      <3>4. r \in PendingRound(msgs, pending)
        <4>1. PendingRound(msgs, pending) = r .. UnitEnd(msgs, r)
          BY <1>1, <2>2, PendingIsLastRound
        <4> QED
          BY <1>1, <3>2, <3>3, <4>1
      <3> QED
        BY <1>9, <3>2, <3>4 DEF unseen, Unseen, places
    <2>3. Owes(rest, due)
      BY <1>3, <1>4, <1>5, <2>2, ThinningKeepsOwed DEF places
    <2>4. due \ c.undelivered = due
      BY <2>1
    <2>5. Cardinality(Deliveries(rest)) \in Nat
      <3>1. rest \in Seq(MessageType)
        BY <1>3
      <3>2. IsFiniteSet(1 .. Len(rest)) /\ DOMAIN rest = 1 .. Len(rest)
        BY <3>1, FS_Interval
      <3>3. IsFiniteSet(Deliveries(rest))
        BY <3>2, FS_Subset DEF Deliveries
      <3> QED
        BY <3>3, FS_CardinalityType
    <2>6. Cardinality(Deliveries(rest)) = Cardinality(Deliveries(msgs)) + 0
      BY <1>8, <2>5
    <2> QED
      BY <1>2, <1>6, <1>7, <2>1, <2>3, <2>4, <2>6 DEF Keeps, c
  <1>10. CASE unseen # {}
    <2>1. c.messages = InsertAt(rest, 3, Delivery)
      BY <1>2, <1>10
    <2>2. c.undelivered # {} /\ due \ c.undelivered = {}
      BY <1>10, UnseenIsTheLastRound DEF unseen, c
    <2>3. /\ Delivery \in MessageType /\ Delivery.kind = "worker_tool_delivery"
          /\ Delivery.kind \in Notices /\ Delivery.n = 0 /\ Delivery.ids = <<>>
      BY DeliveryType DEF Notices
    <2>4. Whole(c.messages) /\ Serials(c.messages) = Serials(rest)
      BY <1>6, <2>1, <2>3, InsertKeepsWhole
    <2>5. Cardinality(Deliveries(c.messages)) = Cardinality(Deliveries(msgs)) + 1
      <3>1. Cardinality(Deliveries(InsertAt(rest, 3, Delivery)))
              = Cardinality(Deliveries(rest))
                + IF Delivery.kind = "worker_tool_delivery" THEN 1 ELSE 0
        BY <1>6, <2>3, InsertCountsDeliveries
      <3> QED
        BY <1>8, <2>1, <2>3, <3>1
    <2>6. Owes(c.messages, due \ c.undelivered)
      BY <2>2 DEF Owes
    <2> QED
      BY <1>2, <1>7, <2>2, <2>4, <2>5, <2>6 DEF Keeps, c
  <1> QED
    BY <1>9, <1>10

-----------------------------------------------------------------------------
(* The work state, the size of a request, pruning and compaction. *)

LEMMA CountedDeliveries ==
  ASSUME NEW msgs \in Seq(MessageType)
  PROVE  Cardinality(Deliveries(msgs)) \in Nat
  <1>1. IsFiniteSet(1 .. Len(msgs)) /\ DOMAIN msgs = 1 .. Len(msgs)
    BY FS_Interval
  <1>2. IsFiniteSet(Deliveries(msgs))
    BY <1>1, FS_Subset DEF Deliveries
  <1> QED
    BY <1>2, FS_CardinalityType

\* The work state of a compaction takes the place of the older ones.
LEMMA WorkStateKeeps ==
  ASSUME NEW msgs, Whole(msgs), NEW size \in Nat, NEW due, Owes(msgs, due)
  PROVE  Keeps(msgs, WithWorkState(msgs, size), {}, {}, due)
  <1> DEFINE places == {i \in DOMAIN msgs :
                          i <= 2 \/ msgs[i].kind # "worker_context_state"}
             bare == Kept(msgs, places)
             new == WithWorkState(msgs, size)
  <1>1. /\ DOMAIN msgs = 1 .. Len(msgs) /\ Len(msgs) \in Nat
        /\ msgs \in Seq(MessageType) /\ Len(msgs) >= 2
    BY DEF Whole, Shape
  <1>2. new = IF size = 0 THEN bare ELSE InsertAt(bare, 3, WorkState(size))
    BY DEF WithWorkState
  <1>3. places \in SUBSET (DOMAIN msgs) /\ 1 \in places /\ 2 \in places
    BY <1>1
  <1>4. bare \in Seq(MessageType) /\ \E h : Thins(bare, msgs, places, h)
    <2> HIDE DEF places
    <2> QED
      BY <1>1, <1>3, KeptThins
  <1>5. PICK h : Thins(bare, msgs, places, h)
    BY <1>4
  <1>6. \A i \in DOMAIN msgs : msgs[i].kind # "worker_context_state" => i \in places
    OBVIOUS
  <1>7. \A p \in DOMAIN msgs \ places : msgs[p].n = 0
    BY DEF Whole, Shape, Notices
  <1> HIDE DEF places, bare, new
  <1>8. KeepsRounds(msgs, places)
    <2> SUFFICES ASSUME NEW i \in DOMAIN msgs, IsRound(msgs[i]),
                        NEW j \in 1 .. Len(msgs[i].ids)
                 PROVE  i \in places /\ i + j \in places
      BY DEF KeepsRounds
    <2>1. i + j \in DOMAIN msgs /\ msgs[i + j].kind = "tool"
      BY RoundsAreWhole
    <2> QED
      BY <1>6, <2>1 DEF IsRound
  <1>9. Whole(bare)
    BY <1>3, <1>4, <1>5, <1>8, ThinningKeepsWhole
  <1>10. Serials(bare) = Serials(msgs)
    <2>1. \A i \in DOMAIN bare : h[i] \in DOMAIN msgs /\ bare[i] = msgs[h[i]]
      BY <1>3, <1>5 DEF Thins
    <2>2. \A p \in DOMAIN msgs : msgs[p].n # 0 => \E i \in DOMAIN bare : bare[i] = msgs[p]
      BY <1>5, <1>7 DEF Thins
    <2> QED
      BY <2>1, <2>2 DEF Serials
  <1>11. Cardinality(Deliveries(bare)) = Cardinality(Deliveries(msgs))
    <2>1. Deliveries(msgs) \subseteq places
      BY <1>6 DEF Deliveries
    <2> QED
      BY <1>1, <1>3, <1>4, <1>5, <2>1, ThinningKeepsDeliveries
  <1>12. Owes(bare, due)
    <2>1. \A r : LastRound(msgs, r) => r \in places
      BY <1>6 DEF LastRound, IsRound
    <2> QED
      BY <1>3, <1>4, <1>5, <1>8, <2>1, ThinningKeepsOwed
  <1>13. Cardinality(Deliveries(msgs)) \in Nat
    BY <1>1, CountedDeliveries
  <1>14. ASSUME NEW list, Whole(list), Serials(list) = Serials(msgs), Owes(list, due),
                Cardinality(Deliveries(list)) = Cardinality(Deliveries(msgs))
         PROVE  Keeps(msgs, list, {}, {}, due)
    <2>1. due \ {} = due
      OBVIOUS
    <2>2. Cardinality(Deliveries(list)) = Cardinality(Deliveries(msgs)) + 0
      BY <1>13, <1>14
    <2> QED
      BY <1>14, <2>1, <2>2 DEF Keeps
  <1>15. CASE size = 0
    BY <1>2, <1>9, <1>10, <1>11, <1>12, <1>14, <1>15 DEF new
  <1>16. CASE size # 0
    <2> DEFINE m == WorkState(size)
    <2>1. /\ m \in MessageType /\ m.kind \in Notices /\ m.n = 0 /\ m.ids = <<>>
          /\ m.kind # "worker_tool_delivery"
      <3>1. <<>> \in Seq(CallIds) /\ 1 + size \in Nat
        OBVIOUS
      <3> QED
        BY <3>1 DEF WorkState, Message, MessageType, Kinds, Notices
    <2> HIDE DEF m
    <2>2. new = InsertAt(bare, 3, m)
      BY <1>2, <1>16 DEF m
    <2>3. Whole(new) /\ Serials(new) = Serials(bare) /\ Owes(new, due)
      BY <1>9, <1>12, <2>1, <2>2, InsertKeepsWhole, InsertKeepsOwed
    <2>4. Cardinality(Deliveries(new)) = Cardinality(Deliveries(bare)) + 0
      <3>1. Cardinality(Deliveries(new))
              = Cardinality(Deliveries(bare))
                + IF m.kind = "worker_tool_delivery" THEN 1 ELSE 0
        BY <1>9, <2>1, <2>2, InsertCountsDeliveries
      <3> QED
        BY <2>1, <3>1
    <2> QED
      BY <1>10, <1>11, <1>13, <1>14, <2>3, <2>4 DEF new
  <1> QED
    BY <1>15, <1>16

\* The size of a request is a number.
LEMMA SizeIsCounted ==
  ASSUME NEW msgs \in Seq(MessageType)
  PROVE  Size(msgs) \in Nat
  <1> DEFINE N == Len(msgs)
             Sums(f, k) == /\ f \in [0 .. k -> Nat] /\ f[0] = 0
                           /\ \A i \in 1 .. k : f[i] = f[i - 1] + msgs[i].size
             bad == {k \in 0 .. N : ~ \E f : Sums(f, k)}
             sum[i \in 0 .. N] == IF i = 0 THEN 0 ELSE sum[i - 1] + msgs[i].size
  <1>1. N \in Nat /\ \A i \in 1 .. N : msgs[i].size \in Nat
    <2>1. N \in Nat /\ \A i \in 1 .. N : msgs[i] \in MessageType
      OBVIOUS
    <2> QED
      BY <2>1 DEF MessageType
  <1>2. Size(msgs) = sum[N]
    BY DEF Size
  <1> HIDE DEF N
  <1>3. bad = {}
    <2> SUFFICES ASSUME bad # {} PROVE FALSE
      OBVIOUS
    <2>1. bad \subseteq Nat
      BY <1>1
    <2>2. PICK k \in bad : \A j \in bad : k <= j
      BY <2>1, LeastNumber
    <2>3. k # 0
      <3>1. Sums([i \in 0 .. 0 |-> 0], 0)
        OBVIOUS
      <3> QED
        BY <2>2, <3>1
    <2>4. k \in 1 .. N /\ k - 1 \in 0 .. N /\ k - 1 \notin bad
      <3>1. k \in 0 .. N
        OBVIOUS
      <3> HIDE DEF bad
      <3> QED
        BY <1>1, <2>1, <2>2, <2>3, <3>1
    <2>5. PICK f : Sums(f, k - 1)
      <3> HIDE DEF Sums
      <3> QED
        BY <2>4
    <2> DEFINE g == [i \in 0 .. k |-> IF i = k THEN f[k - 1] + msgs[k].size ELSE f[i]]
    <2>6. f[k - 1] \in Nat /\ msgs[k].size \in Nat
      BY <1>1, <2>4, <2>5
    <2>7. g \in [0 .. k -> Nat] /\ g[0] = 0
      BY <1>1, <2>4, <2>5, <2>6
    <2>8. ASSUME NEW i \in 1 .. k PROVE g[i] = g[i - 1] + msgs[i].size
      <3>1. CASE i = k
        BY <1>1, <2>4, <2>5, <3>1
      <3>2. CASE i # k
        BY <1>1, <2>4, <2>5, <3>2
      <3> QED
        BY <3>1, <3>2
    <2>9. Sums(g, k)
      BY <2>7, <2>8
    <2> QED
      BY <2>2, <2>9
  <1>4. PICK f : Sums(f, N)
    <2>1. N \in 0 .. N /\ N \notin bad
      <3> HIDE DEF bad
      <3> QED
        BY <1>1, <1>3
    <2> HIDE DEF Sums
    <2> QED
      BY <2>1
  <1>5. f = [i \in 0 .. N |-> IF i = 0 THEN 0 ELSE f[i - 1] + msgs[i].size]
    <2>1. \A i \in 0 .. N : f[i] = IF i = 0 THEN 0 ELSE f[i - 1] + msgs[i].size
      BY <1>1, <1>4
    <2> QED
      BY <1>4, <2>1
  <1>6. sum = [i \in 0 .. N |-> IF i = 0 THEN 0 ELSE sum[i - 1] + msgs[i].size]
    BY <1>5, Zenon
  <1> HIDE DEF sum
  <1>7. {i \in 0 .. N : sum[i] \notin Nat} = {}
    <2> DEFINE odd == {i \in 0 .. N : sum[i] \notin Nat}
    <2> SUFFICES ASSUME odd # {} PROVE FALSE
      OBVIOUS
    <2>1. odd \subseteq Nat
      BY <1>1
    <2>2. PICK k \in odd : \A j \in odd : k <= j
      BY <2>1, LeastNumber
    <2>3. sum[0] = 0
      BY <1>1, <1>6
    <2>4. k \in 1 .. N /\ k - 1 \in 0 .. N /\ k - 1 \notin odd
      BY <1>1, <2>2, <2>3
    <2>5. sum[k - 1] \in Nat /\ msgs[k].size \in Nat
      BY <1>1, <2>4
    <2>6. sum[k] = sum[k - 1] + msgs[k].size
      BY <1>1, <1>6, <2>4
    <2> QED
      BY <2>2, <2>5, <2>6
  <1> QED
    BY <1>1, <1>2, <1>7

\* A list whose results were shortened is the same to the pairing.
LEMMA ShortenedIsWhole ==
  ASSUME NEW msgs, Whole(msgs), NEW new \in Seq(MessageType), DOMAIN new = DOMAIN msgs,
         \A i \in DOMAIN msgs : /\ new[i].kind = msgs[i].kind /\ new[i].n = msgs[i].n
                                /\ new[i].ids = msgs[i].ids
  PROVE  /\ Whole(new) /\ Serials(new) = Serials(msgs)
         /\ Deliveries(new) = Deliveries(msgs)
         /\ \A r : LastRound(msgs, r) =>
              LastRound(new, r) /\ Results(new, r) = Results(msgs, r)
  <1>1. /\ Len(new) = Len(msgs) /\ DOMAIN msgs = 1 .. Len(msgs) /\ Len(msgs) \in Nat
        /\ Len(msgs) >= 2 /\ 1 \in DOMAIN msgs /\ 2 \in DOMAIN msgs
    BY DEF Whole, Shape
  <1>2. Shape(new)
    BY <1>1 DEF Whole, Shape
  <1>3. \A i \in DOMAIN msgs : IsRound(new[i]) <=> IsRound(msgs[i])
    BY DEF IsRound
  <1>4. ASSUME NEW i \in DOMAIN new, IsRound(new[i])
        PROVE  /\ \A j \in DOMAIN new[i].ids : i + j <= Len(new) =>
                    new[i + j].kind = "tool" /\ new[i + j].ids = <<new[i].ids[j]>>
               /\ i + Len(new[i].ids) <= Len(new)
    <2>1. IsRound(msgs[i]) /\ new[i].ids = msgs[i].ids
      BY <1>3, <1>4
    <2>2. /\ DOMAIN msgs[i].ids = 1 .. Len(msgs[i].ids) /\ i + Len(msgs[i].ids) <= Len(msgs)
          /\ \A j \in 1 .. Len(msgs[i].ids) :
               /\ i + j \in DOMAIN msgs
               /\ msgs[i + j].kind = "tool" /\ msgs[i + j].ids = <<msgs[i].ids[j]>>
      BY <2>1, RoundsAreWhole
    <2> QED
      BY <1>1, <2>1, <2>2
  <1>5. ASSUME NEW i \in DOMAIN new, new[i].kind = "tool"
        PROVE  \E k \in 1 .. i - 1 : IsRound(new[k]) /\ i <= k + Len(new[k].ids)
    <2>1. PICK k \in 1 .. i - 1 : IsRound(msgs[k]) /\ i <= k + Len(msgs[k].ids)
      BY <1>5 DEF Whole, Paired
    <2>2. k \in DOMAIN msgs
      BY <1>1, <2>1
    <2> QED
      BY <1>3, <2>1, <2>2
  <1>6. Paired(new, <<>>)
    BY <1>4, <1>5 DEF Paired
  <1>7. Serials(new) = Serials(msgs) /\ Deliveries(new) = Deliveries(msgs)
    BY DEF Serials, Deliveries
  <1>8. \A r : LastRound(msgs, r) => LastRound(new, r) /\ Results(new, r) = Results(msgs, r)
    BY <1>3 DEF LastRound, Results
  <1> QED
    BY <1>2, <1>6, <1>7, <1>8 DEF Whole

\* Pruning shortens no result that is owed.
LEMMA PruneKeeps ==
  ASSUME NEW msgs, Whole(msgs), NEW pending, NEW due, Owes(msgs, due),
         due # {} => pending = TRUE
  PROVE  Keeps(msgs, Prune(msgs, pending), {}, {}, due)
  <1> DEFINE new == Prune(msgs, pending)
             Newer(i) == {j \in i .. Len(msgs) : msgs[j].kind = "tool"}
             Long(i) == /\ msgs[i].kind = "tool" /\ Cardinality(Newer(i)) > KeepRecent
                        /\ MaxChars > 0 /\ msgs[i].size > MaxChars /\ msgs[i].full
                        /\ i \notin PendingRound(msgs, pending)
  <1>1. /\ msgs \in Seq(MessageType) /\ DOMAIN msgs = 1 .. Len(msgs) /\ Len(msgs) \in Nat
        /\ Shape(msgs)
    BY DEF Whole, Shape
  <1>2. new = [i \in DOMAIN msgs |->
                 IF Long(i) THEN [msgs[i] EXCEPT !.size = PrunedSize, !.full = FALSE]
                 ELSE msgs[i]]
    BY DEF Prune
  <1> HIDE DEF Long, new
  <1>3. ASSUME NEW i \in DOMAIN msgs
        PROVE  /\ new[i] \in MessageType /\ new[i].kind = msgs[i].kind
               /\ new[i].n = msgs[i].n /\ new[i].ids = msgs[i].ids
               /\ i \in PendingRound(msgs, pending) => new[i] = msgs[i]
    <2>1. msgs[i] \in MessageType
      BY <1>1
    <2>2. CASE Long(i)
      <3>1. new[i] = [msgs[i] EXCEPT !.size = PrunedSize, !.full = FALSE]
        BY <1>2, <2>2
      <3>2. i \notin PendingRound(msgs, pending)
        BY <2>2 DEF Long
      <3> QED
        BY <2>1, <3>1, <3>2, ContextAssumption DEF MessageType
    <2>3. CASE ~ Long(i)
      BY <1>2, <2>1, <2>3
    <2> QED
      BY <2>2, <2>3
  <1>4. DOMAIN new = DOMAIN msgs /\ new \in Seq(MessageType)
    <2>1. new \in [1 .. Len(msgs) -> MessageType]
      BY <1>1, <1>2, <1>3
    <2> QED
      BY <1>1, <2>1
  <1>5. /\ Whole(new) /\ Serials(new) = Serials(msgs)
        /\ Deliveries(new) = Deliveries(msgs)
        /\ \A r : LastRound(msgs, r) =>
             LastRound(new, r) /\ Results(new, r) = Results(msgs, r)
    <2>1. \A i \in DOMAIN msgs : /\ new[i].kind = msgs[i].kind /\ new[i].n = msgs[i].n
                                 /\ new[i].ids = msgs[i].ids
      BY <1>3
    <2> QED
      BY <1>4, <2>1, ShortenedIsWhole
  <1>6. Owes(new, due)
    <2> SUFFICES ASSUME due # {}
                 PROVE  \E r \in DOMAIN new :
                          /\ LastRound(new, r) /\ Distinct(new[r].ids)
                          /\ due \subseteq {new[j].n : j \in Results(new, r)}
                          /\ \A j \in Results(new, r) : new[j].full
      BY DEF Owes
    <2>1. PICK r \in DOMAIN msgs :
            /\ LastRound(msgs, r) /\ Distinct(msgs[r].ids)
            /\ due \subseteq {msgs[j].n : j \in Results(msgs, r)}
            /\ \A j \in Results(msgs, r) : msgs[j].full
      BY DEF Owes
    <2>2. IsRound(msgs[r])
      BY <2>1 DEF LastRound
    <2>3. UnitEnd(msgs, r) = r + Len(msgs[r].ids) /\ Len(msgs[r].ids) \in Nat
      BY <2>1, <2>2, AnsweredRoundIsUnit, RoundsAreWhole
    <2>4. PendingRound(msgs, pending) = r .. UnitEnd(msgs, r)
      BY <1>1, <2>1, PendingIsLastRound
    <2>5. ASSUME NEW j \in Results(msgs, r) PROVE j \in DOMAIN msgs /\ new[j] = msgs[j]
      <3>1. j \in DOMAIN msgs /\ j \in r .. r + Len(msgs[r].ids)
        BY <1>1, <2>3 DEF Results
      <3> QED
        BY <1>3, <2>3, <2>4, <3>1
    <2>6. LastRound(new, r) /\ Results(new, r) = Results(msgs, r) /\ r \in DOMAIN new
      BY <1>4, <1>5, <2>1
    <2>7. new[r].ids = msgs[r].ids
      BY <1>3
    <2>8. due \subseteq {new[j].n : j \in Results(new, r)}
      BY <2>1, <2>5, <2>6
    <2>9. \A j \in Results(new, r) : new[j].full
      BY <2>1, <2>5, <2>6
    <2> QED
      BY <2>1, <2>6, <2>7, <2>8, <2>9
  <1>7. Cardinality(Deliveries(new)) = Cardinality(Deliveries(msgs)) + 0
    <2>1. Cardinality(Deliveries(msgs)) \in Nat
      BY <1>1, CountedDeliveries
    <2> QED
      BY <1>5, <2>1
  <1>8. due \ {} = due
    OBVIOUS
  <1> QED
    BY <1>5, <1>6, <1>7, <1>8 DEF Keeps, new

LEMMA UnchangedKeeps ==
  ASSUME NEW msgs, Whole(msgs), NEW due, Owes(msgs, due)
  PROVE  Keeps(msgs, msgs, {}, {}, due)
  <1>1. Cardinality(Deliveries(msgs)) \in Nat
    BY CountedDeliveries DEF Whole, Shape
  <1>2. due \ {} = due
    OBVIOUS
  <1>3. Cardinality(Deliveries(msgs)) = Cardinality(Deliveries(msgs)) + 0
    BY <1>1
  <1> QED
    BY <1>2, <1>3 DEF Keeps

\* A step that omits nothing before one that may.
LEMMA KeepsInTurn ==
  ASSUME NEW a, NEW b, NEW c, NEW omitted, NEW gone, NEW due,
         a \in Seq(MessageType), Keeps(a, b, {}, {}, due),
         Keeps(b, c, omitted, gone, due)
  PROVE  Keeps(a, c, omitted, gone, due)
  <1>1. Cardinality(Deliveries(a)) \in Nat
    BY CountedDeliveries
  <1>2. Cardinality(Deliveries(b)) = Cardinality(Deliveries(a)) + 0
    BY DEF Keeps
  <1>3. Cardinality(Deliveries(b)) = Cardinality(Deliveries(a))
    BY <1>1, <1>2
  <1>4. Serials(b) = Serials(a)
    BY DEF Keeps
  <1> QED
    BY <1>3, <1>4 DEF Keeps

\* A compaction, given up or not.
LEMMA CompactKeeps ==
  ASSUME NEW msgs, Whole(msgs), NEW pending, NEW size \in Nat, NEW target \in Nat,
         NEW forced \in BOOLEAN, NEW due, Owes(msgs, due), due # {} => pending = TRUE,
         NEW c, c = Compact(msgs, pending, size, target, forced)
  PROVE  /\ Keeps(msgs, c.messages, c.omitted, c.undelivered, due)
         /\ Size(c.messages) \in Nat /\ Size(c.messages) <= Size(msgs)
  <1> DEFINE list == WithWorkState(msgs, size)
             end == Shorten(list, pending, target, forced)
             useless == \/ end.omitted = {}
                        \/ Size(end.messages) >= Size(msgs)
                        \/ forced /\ Size(end.messages) >= target
  <1>1. Size(msgs) \in Nat /\ msgs \in Seq(MessageType)
    BY SizeIsCounted DEF Whole, Shape
  <1>2. c = IF IsIdle(msgs, target, forced) \/ useless THEN Unchanged(msgs, target)
            ELSE [messages |-> end.messages, omitted |-> end.omitted,
                  undelivered |-> end.undelivered, reduced |-> TRUE]
    BY DEF Compact
  <1>3. Keeps(msgs, end.messages, end.omitted, end.undelivered, due)
    <2>1. Keeps(msgs, list, {}, {}, due)
      BY WorkStateKeeps
    <2>2. Whole(list) /\ Owes(list, due)
      <3>1. due \ {} = due
        OBVIOUS
      <3> QED
        BY <2>1, <3>1 DEF Keeps
    <2> HIDE DEF list
    <2> DEFINE cut == Min({k \in {2} \cup {UnitEnd(list, i) : i \in UnitStarts(list)} :
                             MayStop(list, k, pending, target, forced)})
    <2>3. end = Omit(list, cut, pending)
      BY DEF Shorten
    <2> HIDE DEF end, cut
    <2>4. Keeps(list, end.messages, end.omitted, end.undelivered, due)
      BY <2>2, <2>3, OmitKeeps
    <2> QED
      BY <1>1, <2>1, <2>4, KeepsInTurn
  <1>4. Size(end.messages) \in Nat
    <2> HIDE DEF end
    <2> QED
      BY <1>3, SizeIsCounted DEF Keeps, Whole, Shape
  <1> HIDE DEF end
  <1>5. CASE IsIdle(msgs, target, forced) \/ useless
    <2> HIDE DEF useless
    <2>1. c = Unchanged(msgs, target)
      BY <1>2, <1>5
    <2>2. c.messages = msgs /\ c.omitted = {} /\ c.undelivered = {}
      BY <2>1 DEF Unchanged
    <2> QED
      BY <1>1, <2>2, UnchangedKeeps
  <1>6. CASE ~ (IsIdle(msgs, target, forced) \/ useless)
    <2>1. ~ (Size(end.messages) >= Size(msgs))
      BY <1>6
    <2> HIDE DEF useless
    <2>2. /\ c.messages = end.messages /\ c.omitted = end.omitted
          /\ c.undelivered = end.undelivered
      BY <1>2, <1>6
    <2> QED
      BY <1>1, <1>3, <1>4, <2>1, <2>2
  <1> QED
    BY <1>5, <1>6

-----------------------------------------------------------------------------
(* Appending. *)

\* k messages more, numbered from after on.
Grown(new, msgs, k, after) ==
  /\ new \in Seq(MessageType) /\ Len(new) = Len(msgs) + k
  /\ \A i \in DOMAIN msgs : new[i] = msgs[i]
  /\ \A j \in 1 .. k : LET m == new[Len(msgs) + j] IN
       /\ m.n = after + j /\ m.kind \in {"user", "assistant", "tool"}
       /\ m.kind = "tool" => Len(m.ids) = 1
       /\ m.kind = "user" => m.ids = <<>>

\* None of them is a call or a result.
Talk(new, msgs, k) ==
  \A j \in 1 .. k : /\ new[Len(msgs) + j].kind \in {"user", "assistant"}
                    /\ new[Len(msgs) + j].ids = <<>>

LEMMA GrownPlaces ==
  ASSUME NEW msgs \in Seq(MessageType), NEW k \in Nat, NEW after, NEW new,
         Grown(new, msgs, k, after)
  PROVE  /\ DOMAIN msgs = 1 .. Len(msgs) /\ Len(msgs) \in Nat
         /\ DOMAIN new = 1 .. Len(msgs) + k
         /\ \A i \in DOMAIN msgs : i \in DOMAIN new
         /\ \A j \in 1 .. k : Len(msgs) + j \in DOMAIN new /\ Len(msgs) + j \notin DOMAIN msgs
         /\ \A i \in DOMAIN new : i \in DOMAIN msgs \/ \E j \in 1 .. k : i = Len(msgs) + j
  <1> DEFINE N == Len(msgs)
  <1>1. N \in Nat /\ DOMAIN msgs = 1 .. N
    OBVIOUS
  <1>2. DOMAIN new = 1 .. N + k
    BY DEF Grown
  <1> HIDE DEF N
  <1>3. ASSUME NEW i \in DOMAIN new PROVE i \in DOMAIN msgs \/ \E j \in 1 .. k : i = N + j
    <2>1. CASE i <= N
      BY <1>1, <1>2, <2>1
    <2>2. CASE i > N
      <3>1. i - N \in 1 .. k /\ i = N + (i - N)
        BY <1>1, <1>2, <2>2
      <3> QED
        BY <3>1
    <2> QED
      BY <1>1, <1>2, <2>1, <2>2
  <1>4. /\ \A i \in DOMAIN msgs : i \in DOMAIN new
        /\ \A j \in 1 .. k : N + j \in DOMAIN new /\ N + j \notin DOMAIN msgs
    BY <1>1, <1>2
  <1> QED
    BY <1>1, <1>2, <1>3, <1>4 DEF N

\* Appending numbers the messages on.
LEMMA GrownShape ==
  ASSUME NEW msgs, Shape(msgs), NEW k \in Nat, NEW after \in Nat, after >= 2,
         \A i \in DOMAIN msgs : msgs[i].n <= after, NEW new, Grown(new, msgs, k, after)
  PROVE  /\ Shape(new) /\ Deliveries(new) = Deliveries(msgs)
         /\ Serials(new) = Serials(msgs) \cup (after + 1 .. after + k)
         /\ \A i \in DOMAIN new : new[i].n <= after + k
  <1> DEFINE N == Len(msgs)
  <1>1. /\ msgs \in Seq(MessageType) /\ N >= 2 /\ N \in Nat /\ DOMAIN msgs = 1 .. N
        /\ DOMAIN new = 1 .. N + k
        /\ \A i \in DOMAIN msgs : i \in DOMAIN new /\ new[i] = msgs[i]
        /\ \A j \in 1 .. k : N + j \in DOMAIN new
        /\ \A i \in DOMAIN new : i \in DOMAIN msgs \/ \E j \in 1 .. k : i = N + j
    <2>1. msgs \in Seq(MessageType) /\ N >= 2
      BY DEF Shape
    <2> QED
      BY <2>1, GrownPlaces, SMTT(30) DEF Grown
  <1>2. \A j \in 1 .. k : /\ new[N + j].n = after + j
                          /\ new[N + j].kind \in {"user", "assistant", "tool"}
                          /\ new[N + j].kind = "tool" => Len(new[N + j].ids) = 1
                          /\ new[N + j].kind = "user" => new[N + j].ids = <<>>
    BY DEF Grown
  <1>3. \A i \in DOMAIN msgs : msgs[i].n \in Nat
    <2>1. \A i \in DOMAIN msgs : msgs[i] \in MessageType
      BY <1>1
    <2> QED
      BY <2>1 DEF MessageType
  <1> HIDE DEF N
  <1>4. ASSUME NEW i \in DOMAIN new
        PROVE  /\ i >= 3 /\ new[i].n # 0 => new[i].n >= 3
               /\ i >= 3 => new[i].kind # "system"
               /\ new[i].n = 0 <=> new[i].kind \in Notices
               /\ new[i].kind = "tool" => Len(new[i].ids) = 1
               /\ new[i].kind \notin {"tool", "assistant"} => new[i].ids = <<>>
               /\ new[i].n <= after + k
    <2>1. CASE i \in DOMAIN msgs
      BY <1>1, <1>3, <2>1 DEF Shape
    <2>2. CASE \E j \in 1 .. k : i = N + j
      BY <1>2, <2>2 DEF Notices
    <2> QED
      BY <1>1, <2>1, <2>2
  <1>5. ASSUME NEW i \in DOMAIN new, NEW j \in DOMAIN new, i < j, new[j].n # 0
        PROVE  new[i].n < new[j].n
    <2>1. CASE j \in DOMAIN msgs
      <3>1. i \in DOMAIN msgs
        BY <1>1, <1>5, <2>1
      <3> QED
        BY <1>1, <1>5, <2>1, <3>1 DEF Shape
    <2>2. CASE j \notin DOMAIN msgs
      <3>1. PICK b \in 1 .. k : j = N + b
        BY <1>1, <2>2
      <3>2. CASE i \in DOMAIN msgs
        <4>1. new[i].n \in Nat /\ new[i].n <= after
          BY <1>1, <1>3, <3>2
        <4>2. new[j].n = after + b
          BY <1>2, <3>1
        <4> QED
          BY <4>1, <4>2
      <3>3. CASE i \notin DOMAIN msgs
        <4>1. PICK a \in 1 .. k : i = N + a
          BY <1>1, <3>3
        <4>2. a < b
          BY <1>1, <1>5, <3>1, <4>1
        <4> QED
          BY <1>2, <3>1, <4>1, <4>2
      <3> QED
        BY <3>2, <3>3
    <2> QED
      BY <2>1, <2>2
  <1>6. Shape(new)
    <2>1. new \in Seq(MessageType)
      BY DEF Grown
    <2>2. Len(new) >= 2 /\ new[1] = msgs[1] /\ new[2] = msgs[2]
      BY <1>1, <2>1
    <2> QED
      BY <1>4, <1>5, <2>1, <2>2 DEF Shape
  <1>7. Deliveries(new) = Deliveries(msgs)
    <2>1. ASSUME NEW i \in DOMAIN new, new[i].kind = "worker_tool_delivery"
          PROVE  i \in DOMAIN msgs
      BY <1>1, <1>2, <2>1
    <2> QED
      BY <1>1, <2>1 DEF Deliveries
  <1>8. Serials(new) = Serials(msgs) \cup (after + 1 .. after + k)
    <2>1. ASSUME NEW i \in DOMAIN new, new[i].n # 0
          PROVE  new[i].n \in Serials(msgs) \cup (after + 1 .. after + k)
      <3>1. CASE i \in DOMAIN msgs
        BY <1>1, <2>1, <3>1 DEF Serials
      <3>2. CASE i \notin DOMAIN msgs
        <4>1. PICK j \in 1 .. k : i = N + j
          BY <1>1, <3>2
        <4>2. new[i].n = after + j /\ after + j \in after + 1 .. after + k
          BY <1>2, <4>1
        <4> QED
          BY <4>2
      <3> QED
        BY <3>1, <3>2
    <2>2. ASSUME NEW s \in Serials(msgs) PROVE s \in Serials(new)
      BY <1>1 DEF Serials
    <2>3. ASSUME NEW s \in after + 1 .. after + k PROVE s \in Serials(new)
      <3>1. s - after \in 1 .. k /\ after + (s - after) = s /\ s # 0
        OBVIOUS
      <3>2. new[N + (s - after)].n = s /\ N + (s - after) \in DOMAIN new
        BY <1>1, <1>2, <3>1
      <3> QED
        BY <3>1, <3>2 DEF Serials
    <2> QED
      BY <2>1, <2>2, <2>3 DEF Serials
  <1> QED
    BY <1>4, <1>6, <1>7, <1>8

\* Prompts and answers without calls leave the rounds as they were.
LEMMA TalkKeepsRounds ==
  ASSUME NEW msgs, Whole(msgs), NEW k \in Nat, NEW after \in Nat, after >= 2,
         \A i \in DOMAIN msgs : msgs[i].n <= after, NEW new, Grown(new, msgs, k, after),
         Talk(new, msgs, k), NEW due, Owes(msgs, due)
  PROVE  Whole(new) /\ Owes(new, due)
  <1> DEFINE N == Len(msgs)
  <1>1. Shape(new) /\ Shape(msgs)
    BY GrownShape DEF Whole
  <1>2. /\ msgs \in Seq(MessageType) /\ N \in Nat /\ DOMAIN msgs = 1 .. N
        /\ DOMAIN new = 1 .. N + k /\ Len(new) = N + k
        /\ \A i \in DOMAIN msgs : i \in DOMAIN new /\ new[i] = msgs[i]
        /\ \A i \in DOMAIN new : i \in DOMAIN msgs \/ \E j \in 1 .. k : i = N + j
    <2>1. msgs \in Seq(MessageType)
      BY <1>1 DEF Shape
    <2>2. Len(new) = N + k /\ \A i \in DOMAIN msgs : new[i] = msgs[i]
      BY DEF Grown
    <2>3. /\ N \in Nat /\ DOMAIN msgs = 1 .. N /\ DOMAIN new = 1 .. N + k
          /\ \A i \in DOMAIN msgs : i \in DOMAIN new
          /\ \A i \in DOMAIN new : i \in DOMAIN msgs \/ \E j \in 1 .. k : i = N + j
      BY <2>1, GrownPlaces, ZenonT(30)
    <2> QED
      BY <2>1, <2>2, <2>3
  <1>3. \A i \in DOMAIN new : i \notin DOMAIN msgs =>
          new[i].kind \in {"user", "assistant"} /\ new[i].ids = <<>>
    BY <1>2 DEF Talk
  <1> HIDE DEF N
  <1>4. \A i \in DOMAIN new : IsRound(new[i]) \/ new[i].kind = "tool" => i \in DOMAIN msgs
    BY <1>3 DEF IsRound
  <1>5. ASSUME NEW i \in DOMAIN new, IsRound(new[i])
        PROVE  /\ \A j \in DOMAIN new[i].ids : i + j <= Len(new) =>
                    new[i + j].kind = "tool" /\ new[i + j].ids = <<new[i].ids[j]>>
               /\ i + Len(new[i].ids) <= Len(new)
    <2>1. i \in DOMAIN msgs /\ new[i] = msgs[i] /\ IsRound(msgs[i])
      BY <1>2, <1>4, <1>5
    <2>2. /\ DOMAIN msgs[i].ids = 1 .. Len(msgs[i].ids) /\ i + Len(msgs[i].ids) <= N
          /\ Len(msgs[i].ids) \in Nat
          /\ \A j \in 1 .. Len(msgs[i].ids) :
               /\ i + j \in DOMAIN msgs
               /\ msgs[i + j].kind = "tool" /\ msgs[i + j].ids = <<msgs[i].ids[j]>>
      BY <2>1, RoundsAreWhole DEF N
    <2> QED
      BY <1>2, <2>1, <2>2
  <1>6. ASSUME NEW i \in DOMAIN new, new[i].kind = "tool"
        PROVE  \E j \in 1 .. i - 1 : IsRound(new[j]) /\ i <= j + Len(new[j].ids)
    <2>1. i \in DOMAIN msgs /\ new[i] = msgs[i]
      BY <1>2, <1>4, <1>6
    <2>2. PICK j \in 1 .. i - 1 : IsRound(msgs[j]) /\ i <= j + Len(msgs[j].ids)
      BY <1>6, <2>1 DEF Whole, Paired
    <2>3. new[j] = msgs[j]
      BY <1>2, <2>1, <2>2
    <2> QED
      BY <2>2, <2>3
  <1>7. Paired(new, <<>>)
    BY <1>5, <1>6 DEF Paired
  <1>8. Owes(new, due)
    <2> SUFFICES ASSUME due # {}
                 PROVE  \E r \in DOMAIN new :
                          /\ LastRound(new, r) /\ Distinct(new[r].ids)
                          /\ due \subseteq {new[j].n : j \in Results(new, r)}
                          /\ \A j \in Results(new, r) : new[j].full
      BY DEF Owes
    <2>1. PICK r \in DOMAIN msgs :
            /\ LastRound(msgs, r) /\ Distinct(msgs[r].ids)
            /\ due \subseteq {msgs[j].n : j \in Results(msgs, r)}
            /\ \A j \in Results(msgs, r) : msgs[j].full
      BY DEF Owes
    <2>2. IsRound(msgs[r]) /\ r \in DOMAIN new /\ new[r] = msgs[r]
      BY <1>2, <2>1 DEF LastRound
    <2>3. LastRound(new, r)
      BY <1>2, <1>4, <2>1, <2>2 DEF LastRound
    <2>4. r + Len(msgs[r].ids) <= N /\ Len(msgs[r].ids) \in Nat
      BY <2>2, RoundsAreWhole DEF N
    <2>5. Results(new, r) = Results(msgs, r)
      BY <1>2, <2>2, <2>4 DEF Results
    <2>6. \A j \in Results(msgs, r) : new[j] = msgs[j]
      BY <1>2 DEF Results
    <2>7. /\ due \subseteq {new[j].n : j \in Results(new, r)}
          /\ \A j \in Results(new, r) : new[j].full
      BY <2>1, <2>5, <2>6
    <2> QED
      BY <2>1, <2>2, <2>3, <2>7
  <1> QED
    BY <1>1, <1>7, <1>8 DEF Whole

LEMMA PromptsGrow ==
  ASSUME NEW msgs \in Seq(MessageType), NEW k \in Nat, NEW after \in Nat
  PROVE  /\ Grown(msgs \o Prompts(k, after), msgs, k, after)
         /\ Talk(msgs \o Prompts(k, after), msgs, k)
  <1> DEFINE more == Prompts(k, after)
             new == msgs \o more
             N == Len(msgs)
  <1>1. \A j \in 1 .. k :
          /\ Message("user", after + j, <<>>, 1) \in MessageType
          /\ Message("user", after + j, <<>>, 1).n = after + j
          /\ Message("user", after + j, <<>>, 1).kind = "user"
          /\ Message("user", after + j, <<>>, 1).ids = <<>>
    <2>1. <<>> \in Seq(CallIds)
      OBVIOUS
    <2> QED
      BY <2>1 DEF Message, MessageType, Kinds
  <1>2. /\ more \in Seq(MessageType) /\ Len(more) = k
        /\ \A j \in 1 .. k : more[j] = Message("user", after + j, <<>>, 1)
    <2> DEFINE F(j) == Message("user", after + j, <<>>, 1)
    <2>1. more = [j \in 1 .. k |-> F(j)]
      BY DEF Prompts
    <2>2. \A j \in 1 .. k : F(j) \in MessageType
      BY <1>1
    <2> HIDE DEF F, more
    <2>3. more \in Seq(MessageType) /\ Len(more) = k
      BY <2>1, <2>2
    <2>4. \A j \in 1 .. k : more[j] = F(j)
      BY <2>1
    <2> QED
      BY <2>3, <2>4 DEF F
  <1> HIDE DEF more
  <1>3. /\ new \in Seq(MessageType) /\ Len(new) = N + Len(more)
        /\ \A i \in 1 .. N + Len(more) :
             new[i] = IF i <= N THEN msgs[i] ELSE more[i - N]
    BY <1>2, ConcatProperties
  <1>4. N \in Nat /\ DOMAIN msgs = 1 .. N
    OBVIOUS
  <1> HIDE DEF new, N
  <1>5. \A i \in DOMAIN msgs : new[i] = msgs[i]
    BY <1>2, <1>3, <1>4
  <1>6. ASSUME NEW j \in 1 .. k PROVE new[N + j] = Message("user", after + j, <<>>, 1)
    <2> DEFINE p == N + j
    <2>1. p \in 1 .. N + Len(more) /\ ~ (p <= N) /\ p - N = j
      BY <1>2, <1>4
    <2> HIDE DEF p
    <2>2. new[p] = more[p - N]
      BY <1>3, <2>1
    <2> QED
      BY <1>2, <2>1, <2>2 DEF p
  <1>7. Grown(new, msgs, k, after) /\ Talk(new, msgs, k)
    BY <1>1, <1>2, <1>3, <1>5, <1>6 DEF Grown, Talk, N
  <1> QED
    BY <1>7 DEF new, more

LEMMA AppendGrows ==
  ASSUME NEW msgs \in Seq(MessageType), NEW after \in Nat, NEW m \in MessageType,
         m.n = after + 1, m.kind \in {"user", "assistant", "tool"},
         m.kind = "tool" => Len(m.ids) = 1, m.kind = "user" => m.ids = <<>>
  PROVE  /\ Grown(Append(msgs, m), msgs, 1, after) /\ Append(msgs, m)[Len(msgs) + 1] = m
         /\ m.kind # "tool" /\ m.ids = <<>> => Talk(Append(msgs, m), msgs, 1)
  <1> DEFINE new == Append(msgs, m)
             N == Len(msgs)
  <1>1. /\ new \in Seq(MessageType) /\ Len(new) = N + 1 /\ new[N + 1] = m
        /\ \A i \in DOMAIN msgs : new[i] = msgs[i]
    OBVIOUS
  <1> HIDE DEF new, N
  <1>2. \A j \in 1 .. 1 : j = 1
    OBVIOUS
  <1>3. Grown(new, msgs, 1, after) /\ (m.kind # "tool" /\ m.ids = <<>> => Talk(new, msgs, 1))
    BY <1>1, <1>2 DEF Grown, Talk, N
  <1> QED
    BY <1>1, <1>3 DEF new, N

-----------------------------------------------------------------------------
(* Rounds. *)

\* An answer with calls opens a round of which no result is there.
LEMMA CallsOpenRound ==
  ASSUME NEW msgs, Whole(msgs), NEW m \in MessageType, m.kind = "assistant", m.ids # <<>>
  PROVE  /\ Paired(Append(msgs, m), m.ids)
         /\ \A r : LastRound(Append(msgs, m), r) => Results(Append(msgs, m), r) = {}
  <1> DEFINE new == Append(msgs, m)
             N == Len(msgs)
             L == Len(m.ids)
  <1>1. /\ msgs \in Seq(MessageType) /\ N \in Nat /\ DOMAIN msgs = 1 .. N
        /\ new \in Seq(MessageType) /\ Len(new) = N + 1 /\ DOMAIN new = 1 .. N + 1
        /\ new[N + 1] = m /\ \A i \in DOMAIN msgs : new[i] = msgs[i]
    BY DEF Whole, Shape
  <1>2. m.ids \in Seq(CallIds) /\ L \in Nat \ {0} /\ DOMAIN m.ids = 1 .. L
    <2>1. m.ids \in Seq(CallIds)
      BY DEF MessageType
    <2> QED
      BY <2>1
  <1>3. IsRound(m)
    BY DEF IsRound
  <1>4. \A i \in DOMAIN msgs : IsRound(msgs[i]) =>
          /\ DOMAIN msgs[i].ids = 1 .. Len(msgs[i].ids)
          /\ Len(msgs[i].ids) \in Nat /\ i + Len(msgs[i].ids) <= N
          /\ \A j \in 1 .. Len(msgs[i].ids) :
               /\ i + j \in DOMAIN msgs
               /\ msgs[i + j].kind = "tool" /\ msgs[i + j].ids = <<msgs[i].ids[j]>>
    BY RoundsAreWhole
  <1> HIDE DEF new, N, L
  <1>5. ASSUME NEW i \in DOMAIN new, IsRound(new[i])
        PROVE  /\ \A j \in DOMAIN new[i].ids : i + j <= Len(new) =>
                    new[i + j].kind = "tool" /\ new[i + j].ids = <<new[i].ids[j]>>
               /\ \/ i + Len(new[i].ids) <= Len(new)
                  \/ /\ i + Len(new[i].ids) = Len(new) + L
                     /\ \A j \in DOMAIN m.ids : m.ids[j] = new[i].ids[Len(new) - i + j]
    <2>1. CASE i = N + 1
      <3>1. new[i].ids = m.ids /\ Len(new[i].ids) = L
        BY <1>1, <2>1 DEF L
      <3>2. \A j \in 1 .. L : ~ (i + j <= Len(new)) /\ Len(new) - i + j = j
        BY <1>1, <1>2, <2>1
      <3>3. i + L = Len(new) + L
        BY <1>1, <1>2, <2>1
      <3> QED
        BY <1>2, <3>1, <3>2, <3>3
    <2>2. CASE i # N + 1
      <3>1. i \in DOMAIN msgs /\ new[i] = msgs[i] /\ IsRound(msgs[i])
        BY <1>1, <1>5, <2>2
      <3>2. /\ DOMAIN new[i].ids = 1 .. Len(new[i].ids)
            /\ Len(new[i].ids) \in Nat /\ i + Len(new[i].ids) <= N
            /\ \A j \in 1 .. Len(new[i].ids) :
                 /\ i + j \in DOMAIN msgs
                 /\ msgs[i + j].kind = "tool" /\ msgs[i + j].ids = <<new[i].ids[j]>>
        BY <1>4, <3>1
      <3>3. i + Len(new[i].ids) <= Len(new)
        BY <1>1, <3>1, <3>2
      <3> QED
        BY <1>1, <3>2, <3>3
    <2> QED
      BY <2>1, <2>2
  <1>6. ASSUME NEW i \in DOMAIN new, new[i].kind = "tool"
        PROVE  \E k \in 1 .. i - 1 : IsRound(new[k]) /\ i <= k + Len(new[k].ids)
    <2>1. i \in DOMAIN msgs /\ new[i] = msgs[i]
      BY <1>1, <1>6
    <2>2. PICK k \in 1 .. i - 1 : IsRound(msgs[k]) /\ i <= k + Len(msgs[k].ids)
      BY <1>6, <2>1 DEF Whole, Paired
    <2>3. new[k] = msgs[k]
      BY <1>1, <2>1, <2>2
    <2> QED
      BY <2>2, <2>3
  <1>7. N + 1 \in DOMAIN new /\ IsRound(new[N + 1])
        /\ N + 1 + Len(new[N + 1].ids) = Len(new) + Len(m.ids)
    BY <1>1, <1>2, <1>3 DEF L
  <1>8. Paired(new, m.ids)
    BY <1>5, <1>6, <1>7 DEF Paired, L
  <1>9. ASSUME NEW r, LastRound(new, r) PROVE Results(new, r) = {}
    <2>1. r = N + 1
      BY <1>1, <1>7, <1>9 DEF LastRound
    <2>2. Len(new[r].ids) = L
      BY <1>1, <2>1 DEF L
    <2>3. \A j \in N + 1 + 1 .. N + 1 + L : j \notin 1 .. N + 1
      BY <1>1, <1>2
    <2>4. Results(new, r) = (N + 1 + 1 .. N + 1 + L) \cap 1 .. N + 1
      BY <1>1, <2>1, <2>2 DEF Results
    <2> QED
      BY <2>3, <2>4
  <1> QED
    BY <1>8, <1>9 DEF new

\* The round that waits for results is the last one.
LEMMA OpenRoundIsLast ==
  ASSUME NEW msgs, Shape(msgs), NEW left \in Seq(CallIds), left # <<>>, Paired(msgs, left)
  PROVE  \E q \in DOMAIN msgs :
           /\ LastRound(msgs, q) /\ Len(msgs[q].ids) \in Nat
           /\ DOMAIN msgs[q].ids = 1 .. Len(msgs[q].ids)
           /\ q + Len(msgs[q].ids) = Len(msgs) + Len(left)
  <1> DEFINE N == Len(msgs)
             K == Len(left)
  <1>1. N \in Nat /\ DOMAIN msgs = 1 .. N /\ K \in Nat \ {0}
    BY DEF Shape
  <1>2. PICK q \in DOMAIN msgs : IsRound(msgs[q]) /\ q + Len(msgs[q].ids) = N + K
    BY DEF Paired
  <1> DEFINE L == Len(msgs[q].ids)
  <1>3. L \in Nat /\ DOMAIN msgs[q].ids = 1 .. L
    <2>1. msgs[q] \in MessageType
      BY DEF Shape
    <2>2. msgs[q].ids \in Seq(CallIds)
      BY <2>1 DEF MessageType
    <2> QED
      BY <2>2
  <1>4. \A j \in 1 .. L : q + j <= N => msgs[q + j].kind = "tool"
    BY <1>2, <1>3 DEF Paired
  <1> HIDE DEF N, K, L
  <1>5. ASSUME NEW i \in DOMAIN msgs, IsRound(msgs[i]) PROVE i <= q
    <2> SUFFICES ASSUME ~ (i <= q) PROVE FALSE
      OBVIOUS
    <2> DEFINE d == i - q
    <2>1. d \in 1 .. L /\ q + d = i /\ q + d <= N
      BY <1>1, <1>2, <1>3 DEF L
    <2> HIDE DEF d
    <2>2. msgs[i].kind = "tool"
      BY <1>4, <2>1
    <2> QED
      BY <1>5, <2>2 DEF IsRound
  <1>6. LastRound(msgs, q)
    BY <1>2, <1>5 DEF LastRound
  <1> QED
    BY <1>2, <1>3, <1>6 DEF N, K, L

\* The result of the next call leaves a round with the calls behind it.
LEMMA ResultContinuesRound ==
  ASSUME NEW msgs, Shape(msgs), NEW left \in Seq(CallIds), left # <<>>, Paired(msgs, left),
         NEW m \in MessageType, m.kind = "tool", m.ids = <<Head(left)>>
  PROVE  Paired(Append(msgs, m), Tail(left))
  <1> DEFINE new == Append(msgs, m)
             N == Len(msgs)
             K == Len(left)
             rest == Tail(left)
  <1>1. /\ msgs \in Seq(MessageType) /\ N \in Nat /\ DOMAIN msgs = 1 .. N
        /\ new \in Seq(MessageType) /\ Len(new) = N + 1 /\ DOMAIN new = 1 .. N + 1
        /\ new[N + 1] = m /\ \A i \in DOMAIN msgs : new[i] = msgs[i]
    BY DEF Shape
  <1>2. /\ K \in Nat \ {0} /\ DOMAIN left = 1 .. K /\ Head(left) = left[1]
        /\ rest \in Seq(CallIds) /\ Len(rest) = K - 1 /\ DOMAIN rest = 1 .. K - 1
        /\ \A j \in 1 .. K - 1 : rest[j] = left[j + 1]
    OBVIOUS
  <1>3. PICK q \in DOMAIN msgs : IsRound(msgs[q]) /\ q + Len(msgs[q].ids) = N + K
    BY DEF Paired
  <1>4. \A i \in DOMAIN msgs : IsRound(msgs[i]) =>
          /\ Len(msgs[i].ids) \in Nat /\ DOMAIN msgs[i].ids = 1 .. Len(msgs[i].ids)
          /\ \A j \in 1 .. Len(msgs[i].ids) : i + j <= N =>
               msgs[i + j].kind = "tool" /\ msgs[i + j].ids = <<msgs[i].ids[j]>>
          /\ \/ i + Len(msgs[i].ids) <= N
             \/ /\ i + Len(msgs[i].ids) = N + K
                /\ \A j \in 1 .. K : left[j] = msgs[i].ids[N - i + j]
    <2> SUFFICES ASSUME NEW i \in DOMAIN msgs, IsRound(msgs[i])
                 PROVE  /\ Len(msgs[i].ids) \in Nat
                        /\ DOMAIN msgs[i].ids = 1 .. Len(msgs[i].ids)
      BY <1>2 DEF Paired
    <2>1. msgs[i] \in MessageType
      BY DEF Shape
    <2>2. msgs[i].ids \in Seq(CallIds)
      BY <2>1 DEF MessageType
    <2> QED
      BY <2>2
  <1> HIDE DEF new, N, K, rest
  <1>5. ASSUME NEW i \in DOMAIN new, IsRound(new[i])
        PROVE  /\ \A j \in DOMAIN new[i].ids : i + j <= Len(new) =>
                    new[i + j].kind = "tool" /\ new[i + j].ids = <<new[i].ids[j]>>
               /\ \/ i + Len(new[i].ids) <= Len(new)
                  \/ /\ i + Len(new[i].ids) = Len(new) + Len(rest)
                     /\ \A j \in DOMAIN rest : rest[j] = new[i].ids[Len(new) - i + j]
    <2> DEFINE ids == new[i].ids
               L == Len(ids)
    <2>1. i \in DOMAIN msgs /\ new[i] = msgs[i] /\ IsRound(msgs[i])
      BY <1>1, <1>5, SMTT(30) DEF IsRound
    <2>2. /\ L \in Nat /\ DOMAIN ids = 1 .. L
          /\ \A j \in 1 .. L : i + j <= N =>
               msgs[i + j].kind = "tool" /\ msgs[i + j].ids = <<ids[j]>>
          /\ \/ i + L <= N
             \/ i + L = N + K /\ \A j \in 1 .. K : left[j] = ids[N - i + j]
      BY <1>4, <2>1
    <2> HIDE DEF L, ids
    <2>3. ASSUME NEW j \in 1 .. L, i + j <= N + 1
          PROVE  new[i + j].kind = "tool" /\ new[i + j].ids = <<ids[j]>>
      <3>1. CASE i + j <= N
        <4>1. i + j \in DOMAIN msgs
          BY <1>1, <2>1, <2>2, <3>1
        <4> QED
          BY <1>1, <2>2, <3>1, <4>1
      <3>2. CASE ~ (i + j <= N)
        <4>1. i + j = N + 1 /\ ~ (i + L <= N)
          <5>1. /\ i \in Nat /\ j \in Nat /\ L \in Nat /\ N \in Nat /\ j <= L
                /\ i + j <= N + 1 /\ ~ (i + j <= N)
            BY <1>1, <2>1, <2>2, <2>3, <3>2
          <5> QED
            BY <5>1
        <4>2. \A k \in 1 .. K : left[k] = ids[N - i + k]
          BY <2>2, <4>1
        <4>3. left[1] = ids[N - i + 1]
          BY <1>2, <4>2
        <4>4. N - i + 1 = j
          BY <1>1, <2>1, <4>1
        <4> QED
          BY <1>1, <1>2, <4>1, <4>3, <4>4
      <3> QED
        BY <3>1, <3>2
    <2>4. CASE i + L <= N
      <3>1. i + L <= N + 1
        BY <1>1, <2>1, <2>2, <2>4
      <3> QED
        BY <1>1, <2>2, <2>3, <3>1 DEF L, ids
    <2>5. CASE i + L = N + K /\ \A j \in 1 .. K : left[j] = ids[N - i + j]
      <3>1. i + L = N + 1 + Len(rest)
        BY <1>1, <1>2, <2>1, <2>2, <2>5
      <3>2. ASSUME NEW j \in 1 .. K - 1 PROVE rest[j] = ids[N + 1 - i + j]
        <4>1. j + 1 \in 1 .. K /\ N - i + (j + 1) = N + 1 - i + j
          <5>1. i \in Nat /\ N \in Nat /\ K \in Nat /\ j \in 1 .. K - 1
            BY <1>1, <1>2, <2>1
          <5> QED
            BY <5>1
        <4>2. left[j + 1] = ids[N - i + (j + 1)]
          BY <2>5, <4>1
        <4> QED
          BY <1>2, <4>1, <4>2
      <3>3. i + L = Len(new) + Len(rest)
        BY <1>1, <3>1
      <3>4. \A j \in DOMAIN rest : rest[j] = ids[Len(new) - i + j]
        BY <1>1, <1>2, <3>2
      <3>5. \A j \in DOMAIN ids : i + j <= Len(new) =>
              new[i + j].kind = "tool" /\ new[i + j].ids = <<ids[j]>>
        BY <1>1, <2>2, <2>3
      <3> QED
        BY <3>3, <3>4, <3>5 DEF L, ids
    <2> QED
      BY <2>2, <2>4, <2>5
  <1>6. ASSUME NEW i \in DOMAIN new, new[i].kind = "tool"
        PROVE  \E k \in 1 .. i - 1 : IsRound(new[k]) /\ i <= k + Len(new[k].ids)
    <2>1. CASE i = N + 1
      <3>1. q \in 1 .. i - 1 /\ new[q] = msgs[q]
        BY <1>1, <2>1
      <3>2. i <= q + Len(new[q].ids)
        BY <1>1, <1>2, <1>3, <2>1, <3>1
      <3> QED
        BY <1>3, <3>1, <3>2
    <2>2. CASE i # N + 1
      <3>1. i \in DOMAIN msgs /\ new[i] = msgs[i]
        BY <1>1, <2>2
      <3>2. PICK k \in 1 .. i - 1 : IsRound(msgs[k]) /\ i <= k + Len(msgs[k].ids)
        BY <1>6, <3>1 DEF Paired
      <3>3. k \in DOMAIN msgs
        <4>1. i \in Nat /\ i <= N
          BY <1>1, <3>1
        <4> QED
          BY <1>1, <3>2, <4>1
      <3>4. new[k] = msgs[k]
        BY <1>1, <3>3
      <3> QED
        BY <3>2, <3>4
    <2> QED
      BY <2>1, <2>2
  <1>7. /\ q \in DOMAIN new /\ IsRound(new[q])
        /\ q + Len(new[q].ids) = Len(new) + Len(rest)
    <2>1. q \in DOMAIN new /\ new[q] = msgs[q]
      BY <1>1
    <2>2. N + K = N + 1 + (K - 1)
      BY <1>1, <1>2
    <2> QED
      BY <1>1, <1>2, <1>3, <2>1, <2>2
  <1> QED
    BY <1>5, <1>6, <1>7 DEF Paired, new, rest

\* While the calls are executed every result of their round is there in full.
Shown(msgs) ==
  \A r : LastRound(msgs, r) => \A j \in Results(msgs, r) : msgs[j].full

\* It is owed to the model, in full as the others of its round.
LEMMA ResultIsOwed ==
  ASSUME NEW msgs, Shape(msgs), NEW left \in Seq(CallIds), left # <<>>, Paired(msgs, left),
         NEW m \in MessageType, m.kind = "tool", m.full = TRUE, Shown(msgs),
         NEW due, Owes(msgs, due), NEW more \in SUBSET {m.n},
         more # {} =>
           Distinct(msgs[Max({i \in DOMAIN msgs : IsRound(msgs[i])})].ids)
  PROVE  Shown(Append(msgs, m)) /\ Owes(Append(msgs, m), due \cup more)
  <1> DEFINE new == Append(msgs, m)
             N == Len(msgs)
  <1>1. /\ msgs \in Seq(MessageType) /\ N \in Nat /\ DOMAIN msgs = 1 .. N
        /\ new \in Seq(MessageType) /\ Len(new) = N + 1 /\ DOMAIN new = 1 .. N + 1
        /\ new[N + 1] = m /\ \A i \in DOMAIN msgs : new[i] = msgs[i]
    BY DEF Shape
  <1>2. Len(left) \in Nat \ {0}
    OBVIOUS
  <1>3. PICK q \in DOMAIN msgs :
          /\ LastRound(msgs, q) /\ Len(msgs[q].ids) \in Nat
          /\ q + Len(msgs[q].ids) = N + Len(left)
    BY OpenRoundIsLast
  <1>4. Max({i \in DOMAIN msgs : IsRound(msgs[i])}) = q
    BY <1>3, LastRoundIsMax
  <1> HIDE DEF new, N
  <1>5. LastRound(new, q) /\ q \in DOMAIN new /\ new[q] = msgs[q]
    <2>1. \A i \in DOMAIN new : IsRound(new[i]) => i \in DOMAIN msgs
      BY <1>1 DEF IsRound
    <2> QED
      BY <1>1, <1>3, <2>1 DEF LastRound
  <1>6. Results(new, q) = Results(msgs, q) \cup {N + 1}
    BY <1>1, <1>2, <1>3, <1>5 DEF Results
  <1>7. \A j \in Results(msgs, q) : new[j] = msgs[j]
    BY <1>1 DEF Results
  <1>8. \A j \in Results(new, q) : new[j].full
    BY <1>1, <1>3, <1>6, <1>7 DEF Shown
  <1>9. Shown(new)
    <2>1. \A r : LastRound(new, r) => r = q
      BY <1>1, <1>3, <1>5 DEF LastRound
    <2> QED
      BY <1>8, <2>1 DEF Shown
  <1>10. due # {} => Distinct(msgs[q].ids) /\ due \subseteq {msgs[j].n : j \in Results(msgs, q)}
    <2> SUFFICES ASSUME due # {}
                 PROVE  /\ Distinct(msgs[q].ids)
                        /\ due \subseteq {msgs[j].n : j \in Results(msgs, q)}
      OBVIOUS
    <2>1. PICK r \in DOMAIN msgs :
            /\ LastRound(msgs, r) /\ Distinct(msgs[r].ids)
            /\ due \subseteq {msgs[j].n : j \in Results(msgs, r)}
      BY DEF Owes
    <2>2. r = q
      BY <1>1, <1>3, <2>1 DEF LastRound
    <2> QED
      BY <2>1, <2>2
  <1>11. due \cup more \subseteq {new[j].n : j \in Results(new, q)}
    <2>1. due \subseteq {new[j].n : j \in Results(new, q)}
      BY <1>6, <1>7, <1>10
    <2>2. m.n \in {new[j].n : j \in Results(new, q)}
      BY <1>1, <1>6
    <2> QED
      BY <2>1, <2>2
  <1>12. due \cup more # {} => Distinct(new[q].ids)
    BY <1>4, <1>5, <1>10
  <1>13. Owes(new, due \cup more)
    BY <1>5, <1>8, <1>11, <1>12 DEF Owes
  <1> QED
    BY <1>9, <1>13 DEF new

-----------------------------------------------------------------------------
(* Turns. *)

\* What was ever appended is in the list or in the trajectory.
Filed(msgs, filed, after) ==
  Serials(msgs) \cup filed = 1 .. after /\ Serials(msgs) \cap filed = {}

\* A list between two turns, with what is owed and announced.
Sound(msgs, filed, after, due, count) ==
  /\ Whole(msgs) /\ Filed(msgs, filed, after) /\ Owes(msgs, due)
  /\ Cardinality(Deliveries(msgs)) = count

LEMMA FiledNumbers ==
  ASSUME NEW msgs, Shape(msgs), NEW filed, NEW after \in Nat, Filed(msgs, filed, after)
  PROVE  /\ \A i \in DOMAIN msgs : msgs[i].n \in 0 .. after
         /\ filed \subseteq 3 .. after
  <1>1. ASSUME NEW i \in DOMAIN msgs PROVE msgs[i].n \in 0 .. after
    <2>1. msgs[i].n \in Serials(msgs) \/ msgs[i].n = 0
      BY DEF Serials
    <2> QED
      BY <2>1 DEF Filed
  <1>2. 1 \in Serials(msgs) /\ 2 \in Serials(msgs)
    <2>1. 1 \in DOMAIN msgs /\ 2 \in DOMAIN msgs
      BY DEF Shape
    <2> QED
      BY <2>1 DEF Shape, Serials
  <1>3. ASSUME NEW s \in filed PROVE s \in 3 .. after
    <2>1. s \in 1 .. after /\ s # 1 /\ s # 2
      BY <1>2 DEF Filed
    <2> QED
      BY <2>1
  <1> QED
    BY <1>1, <1>3

LEMMA OwedNumbers ==
  ASSUME NEW msgs, Shape(msgs), NEW left, Paired(msgs, left),
         NEW filed, NEW after \in Nat, Filed(msgs, filed, after), NEW due, Owes(msgs, due)
  PROVE  due \subseteq 3 .. after
  <1> SUFFICES ASSUME NEW n \in due PROVE n \in 3 .. after
    OBVIOUS
  <1>1. PICK r \in DOMAIN msgs :
          LastRound(msgs, r) /\ due \subseteq {msgs[j].n : j \in Results(msgs, r)}
    BY DEF Owes
  <1>2. PICK j \in Results(msgs, r) : n = msgs[j].n
    BY <1>1
  <1>3. /\ DOMAIN msgs = 1 .. Len(msgs) /\ Len(msgs) \in Nat
        /\ msgs[r] \in MessageType /\ IsRound(msgs[r])
    BY <1>1 DEF Shape, LastRound
  <1>4. r >= 3
    BY <1>3 DEF Shape, IsRound
  <1> DEFINE L == Len(msgs[r].ids)
             d == j - r
  <1>5. L \in Nat /\ DOMAIN msgs[r].ids = 1 .. L
    <2>1. msgs[r].ids \in Seq(CallIds)
      BY <1>3 DEF MessageType
    <2> QED
      BY <2>1
  <1>6. j \in DOMAIN msgs /\ j \in r + 1 .. r + L
    BY DEF Results
  <1>7. \A k \in 1 .. L : r + k <= Len(msgs) => msgs[r + k].kind = "tool"
    BY <1>3, <1>5 DEF Paired
  <1> HIDE DEF L
  <1>8. d \in 1 .. L /\ r + d = j /\ r + d <= Len(msgs) /\ j >= 3
    BY <1>3, <1>4, <1>5, <1>6
  <1> HIDE DEF d
  <1>9. msgs[j].kind = "tool"
    BY <1>7, <1>8
  <1>10. msgs[j].n # 0 /\ msgs[j].n >= 3
    BY <1>6, <1>8, <1>9 DEF Shape, Notices
  <1>11. msgs[j].n \in 0 .. after
    BY <1>6, FiledNumbers
  <1> QED
    BY <1>2, <1>10, <1>11

\* What is said between two rounds is numbered on.
LEMMA TalkIsSound ==
  ASSUME NEW msgs, NEW filed, NEW after \in Nat, after >= 2, NEW due, NEW count,
         Sound(msgs, filed, after, due, count), NEW k \in Nat, NEW new,
         Grown(new, msgs, k, after), Talk(new, msgs, k)
  PROVE  Sound(new, filed, after + k, due, count)
  <1>1. \A i \in DOMAIN msgs : msgs[i].n <= after
    BY FiledNumbers DEF Sound, Whole
  <1>2. Whole(new) /\ Owes(new, due)
    BY <1>1, TalkKeepsRounds DEF Sound
  <1>3. /\ Deliveries(new) = Deliveries(msgs)
        /\ Serials(new) = Serials(msgs) \cup (after + 1 .. after + k)
    BY <1>1, GrownShape DEF Sound, Whole
  <1>4. filed \subseteq 3 .. after
    BY FiledNumbers DEF Sound, Whole
  <1>5. 1 .. after + k = (1 .. after) \cup (after + 1 .. after + k)
    OBVIOUS
  <1>6. (after + 1 .. after + k) \cap filed = {}
    BY <1>4
  <1>7. Filed(new, filed, after + k)
    BY <1>3, <1>5, <1>6 DEF Sound, Filed
  <1> QED
    BY <1>2, <1>3, <1>7 DEF Sound

LEMMA GrownIsFiled ==
  ASSUME NEW msgs, Shape(msgs), NEW filed, NEW after \in Nat, after >= 2,
         Filed(msgs, filed, after), NEW k \in Nat, NEW new, Grown(new, msgs, k, after)
  PROVE  /\ Shape(new) /\ Deliveries(new) = Deliveries(msgs)
         /\ Filed(new, filed, after + k)
  <1>1. \A i \in DOMAIN msgs : msgs[i].n <= after
    BY FiledNumbers
  <1>3. /\ Deliveries(new) = Deliveries(msgs) /\ Shape(new)
        /\ Serials(new) = Serials(msgs) \cup (after + 1 .. after + k)
    BY <1>1, GrownShape
  <1>4. filed \subseteq 3 .. after
    BY FiledNumbers
  <1>5. 1 .. after + k = (1 .. after) \cup (after + 1 .. after + k)
    OBVIOUS
  <1>6. (after + 1 .. after + k) \cap filed = {}
    BY <1>4
  <1>7. Filed(new, filed, after + k)
    BY <1>3, <1>5, <1>6 DEF Filed
  <1> QED
    BY <1>3, <1>7

\* The result of a compaction takes effect.
LEMMA AdoptIsSound ==
  ASSUME NEW msgs, NEW after \in Nat, NEW due, Sound(msgs, recorded, after, due, undelivered),
         undelivered \in Nat, NEW c, Keeps(msgs, c.messages, c.omitted, c.undelivered, due),
         Adopt(c, due)
  PROVE  /\ Sound(messages', recorded', after, owed', undelivered')
         /\ undelivered' \in Nat /\ owed' \subseteq due
         /\ c.undelivered # {} => owed' = {}
  <1>1. /\ messages' = c.messages /\ recorded' = recorded \cup c.omitted
        /\ owed' = due \ c.undelivered
        /\ undelivered' = undelivered + IF c.undelivered = {} THEN 0 ELSE 1
    BY DEF Adopt
  <1>2. Filed(messages', recorded', after)
    BY <1>1 DEF Sound, Filed, Keeps
  <1>3. Cardinality(Deliveries(messages')) = undelivered'
    BY <1>1 DEF Sound, Keeps
  <1>4. undelivered' \in Nat
    <2>1. CASE c.undelivered = {}
      BY <1>1, <2>1
    <2>2. CASE c.undelivered # {}
      BY <1>1, <2>2
    <2> QED
      BY <2>1, <2>2
  <1> QED
    BY <1>1, <1>2, <1>3, <1>4 DEF Sound, Keeps

LEMMA CompactIfNeededIsSound ==
  ASSUME NEW msgs, NEW after \in Nat, NEW due, Sound(msgs, recorded, after, due, undelivered),
         undelivered \in Nat, NEW pending, due # {} => pending = TRUE, NEW size \in Nat,
         CompactIfNeeded(msgs, pending, size, due)
  PROVE  /\ Sound(messages', recorded', after, owed', undelivered')
         /\ undelivered' \in Nat /\ owed' \subseteq due
         /\ Size(messages') \in Nat /\ Size(messages') <= Size(msgs)
  <1> DEFINE c == Compact(msgs, pending, size, Threshold, FALSE)
  <1>1. Adopt(c, due)
    BY DEF CompactIfNeeded
  <1>2. /\ Keeps(msgs, c.messages, c.omitted, c.undelivered, due)
        /\ Size(c.messages) \in Nat /\ Size(c.messages) <= Size(msgs)
    BY ContextAssumption, CompactKeeps DEF Sound
  <1>3. messages' = c.messages
    BY <1>1 DEF Adopt
  <1> HIDE DEF c
  <1> QED
    BY <1>1, <1>2, <1>3, AdoptIsSound

LEMMA PruneIsSound ==
  ASSUME NEW msgs, NEW filed, NEW after, NEW due, NEW count,
         Sound(msgs, filed, after, due, count), NEW pending, due # {} => pending = TRUE
  PROVE  Sound(Prune(msgs, pending), filed, after, due, count)
  <1> DEFINE new == Prune(msgs, pending)
  <1>1. Keeps(msgs, new, {}, {}, due)
    BY PruneKeeps DEF Sound
  <1>2. due \ {} = due /\ Cardinality(Deliveries(msgs)) \in Nat
    BY CountedDeliveries DEF Sound, Whole, Shape
  <1> HIDE DEF new
  <1>3. Cardinality(Deliveries(new)) = Cardinality(Deliveries(msgs)) + 0
    BY <1>1 DEF Keeps
  <1>4. Serials(new) = Serials(msgs) /\ Whole(new) /\ Owes(new, due)
    BY <1>1, <1>2 DEF Keeps
  <1> QED
    BY <1>2, <1>3, <1>4 DEF Sound, Filed, new

LEMMA SettleIsSound ==
  ASSUME NEW msgs, NEW after \in Nat, NEW due, Sound(msgs, recorded, after, due, undelivered),
         undelivered \in Nat, NEW pending, due # {} => pending = TRUE, NEW size \in Nat,
         Settle(msgs, pending, size, due)
  PROVE  /\ Sound(messages', recorded', after, owed', undelivered')
         /\ undelivered' \in Nat /\ owed' \subseteq due
  <1>1. Sound(Prune(msgs, pending), recorded, after, due, undelivered)
    BY PruneIsSound
  <1>2. CompactIfNeeded(Prune(msgs, pending), pending, size, due)
    BY DEF Settle
  <1> QED
    BY <1>1, <1>2, CompactIfNeededIsSound

\* What is counted is within the range of the counters.
LEMMA AccountTypes ==
  ASSUME UsageTypeOK, NEW call \in Calls, Account(call)
  PROVE  UsageTypeOK'
  <1> DEFINE counts == Observed(call)
             known == {k \in Keys : counts[k] # {}}
             Total(k) == IF k \in DOMAIN token_usage THEN token_usage[k] ELSE 0
             Value(k) == CHOOSE v \in counts[k] : TRUE
             over == {k \in known : Total(k) + Value(k) > MaxCount}
  <1>1. call.cost \in [Keys -> Nat]
    BY CallsAssumption
  <1>2. Exact(counts, call.cost)
    BY ObservedIsExact
  <1>3. \A k \in known : Value(k) = call.cost[k]
    BY <1>2 DEF Exact
  <1>4. /\ token_usage' =
             [k \in DOMAIN token_usage \cup known |->
                IF k \in known \ over THEN Total(k) + Value(k) ELSE Total(k)]
        /\ usage_unknown' = usage_unknown \cup (Keys \ known) \cup over
        /\ spent' = [k \in Keys |-> spent[k] + call.cost[k]]
        /\ lost' = lost
    BY DEF Account
  <1>5. known \subseteq Keys /\ over \subseteq known
    OBVIOUS
  <1>6. \A k \in Keys : Total(k) \in 0 .. MaxCount
    BY MaxCountAssumption DEF UsageTypeOK
  <1> HIDE DEF counts
  <1>7. ASSUME NEW k \in DOMAIN token_usage' PROVE token_usage'[k] \in 0 .. MaxCount
    <2>1. k \in Keys
      BY <1>4, <1>5 DEF UsageTypeOK
    <2>2. CASE k \in known \ over
      <3>1. ~ (Total(k) + Value(k) > MaxCount) /\ Value(k) \in Nat
        BY <1>1, <1>3, <2>1, <2>2
      <3>2. token_usage'[k] = Total(k) + Value(k)
        BY <1>4, <2>2
      <3>3. Total(k) \in 0 .. MaxCount
        BY <1>6, <2>1
      <3> HIDE DEF Total, Value
      <3> QED
        BY <3>1, <3>2, <3>3, MaxCountAssumption
    <2>3. CASE k \notin known \ over
      <3>1. token_usage'[k] = Total(k)
        BY <1>4, <2>3
      <3> HIDE DEF Total
      <3> QED
        BY <1>6, <2>1, <3>1
    <2> QED
      BY <2>2, <2>3
  <1>8. spent' \in [Keys -> Nat] /\ lost' \in [Keys -> Nat]
    BY <1>1, <1>4 DEF UsageTypeOK
  <1> HIDE DEF known, over
  <1>9. DOMAIN token_usage' \subseteq Keys /\ usage_unknown' \subseteq Keys
    BY <1>4, <1>5 DEF UsageTypeOK
  <1> QED
    BY <1>7, <1>8, <1>9 DEF UsageTypeOK

LEMMA MissTypes == ASSUME UsageTypeOK, Miss PROVE UsageTypeOK'
  <1>1. CASE UNCHANGED usageVars
    BY <1>1 DEF usageVars, UsageTypeOK
  <1>2. CASE ~ UNCHANGED usageVars
    <2>1. PICK call \in Calls :
            /\ spent' = [k \in Keys |-> spent[k] + call.cost[k]]
            /\ lost' = [k \in Keys |-> lost[k] + call.cost[k]]
            /\ token_usage' = token_usage /\ usage_unknown' = usage_unknown
      BY <1>2 DEF Miss
    <2>2. call.cost \in [Keys -> Nat]
      BY CallsAssumption
    <2>3. spent' \in [Keys -> Nat] /\ lost' \in [Keys -> Nat]
      BY <2>1, <2>2 DEF UsageTypeOK
    <2> QED
      BY <2>1, <2>3 DEF UsageTypeOK
  <1> QED
    BY <1>1, <1>2

-----------------------------------------------------------------------------
(* The invariant of the conversation. *)

Conversing ==
  /\ pc \in {"request", "reply", "tools", "final"}
  /\ pending_tool_round \in BOOLEAN /\ work \in WorkSizes \cup {0}
  /\ calls \in Seq(CallIds) /\ (pc \in {"request", "reply"} => calls = <<>>)
  /\ appended \in 2 .. MaxMessages
  /\ pc = "tools" => appended + Len(calls) + MaxPrompts <= MaxMessages
  /\ undelivered \in Nat /\ rejected \in Nat

Listed ==
  /\ Shape(messages) /\ Paired(messages, calls) /\ Filed(messages, recorded, appended)
  /\ Owes(messages, owed) /\ Cardinality(Deliveries(messages)) = undelivered
  /\ pc = "tools" => Shown(messages)
  /\ pc \in {"request", "reply"} /\ owed # {} => pending_tool_round = TRUE

Retrying ==
  /\ pc = "tools" => rejected = 0
  /\ pc \in {"request", "reply"} /\ rejected # 0 => Size(messages) < rejected

Context == Conversing /\ Listed /\ Retrying

LEMMA SoundWhenTalking ==
  ASSUME Context, calls = <<>>
  PROVE  /\ Sound(messages, recorded, appended, owed, undelivered)
         /\ appended \in Nat /\ appended >= 2 /\ undelivered \in Nat /\ work \in Nat
         /\ messages \in Seq(MessageType)
  <1>1. Sound(messages, recorded, appended, owed, undelivered)
    BY DEF Context, Listed, Sound, Whole
  <1>2. appended \in 2 .. MaxMessages /\ undelivered \in Nat /\ work \in WorkSizes \cup {0}
    BY DEF Context, Conversing
  <1>3. messages \in Seq(MessageType)
    BY DEF Context, Listed, Shape
  <1> QED
    BY <1>1, <1>2, <1>3, ContextAssumption

\* What is left to show of a turn that ends with a sound list.
LEMMA ListedAfterTurn ==
  ASSUME Sound(messages', recorded', appended', owed', undelivered'), calls' = <<>>,
         pc' # "tools", pc' \in {"request", "reply"} /\ owed' # {} => pending_tool_round' = TRUE
  PROVE  Listed'
  BY DEF Listed, Sound, Whole

LEMMA ContextInit == Init => Context
  <1> SUFFICES ASSUME Init PROVE Context
    OBVIOUS
  <1> DEFINE a == Message("system", 1, <<>>, 1)
             b == Message("user", 2, <<>>, 1)
  <1>1. /\ a \in MessageType /\ a.kind = "system" /\ a.n = 1 /\ a.ids = <<>>
        /\ b \in MessageType /\ b.kind = "user" /\ b.n = 2 /\ b.ids = <<>>
    <2>1. <<>> \in Seq(CallIds)
      OBVIOUS
    <2> QED
      BY <2>1 DEF Message, MessageType, Kinds
  <1>2. messages = <<a, b>>
    BY DEF Init
  <1> HIDE DEF a, b
  <1>3. /\ messages \in Seq(MessageType) /\ Len(messages) = 2 /\ DOMAIN messages = 1 .. 2
        /\ messages[1] = a /\ messages[2] = b
    BY <1>1, <1>2
  <1>4. \A i \in DOMAIN messages : i = 1 \/ i = 2
    BY <1>3
  <1>5. Shape(messages)
    BY <1>1, <1>3, <1>4 DEF Shape, Notices
  <1>6. Paired(messages, <<>>)
    BY <1>1, <1>3, <1>4 DEF Paired, IsRound
  <1>7. Filed(messages, {}, 2)
    <2>1. Serials(messages) = {1, 2}
      BY <1>1, <1>3, <1>4 DEF Serials
    <2> QED
      BY <2>1 DEF Filed
  <1>8. Cardinality(Deliveries(messages)) = 0
    <2>1. Deliveries(messages) = {}
      BY <1>1, <1>3, <1>4 DEF Deliveries
    <2> QED
      BY <2>1, FS_EmptySet
  <1>9. Listed
    BY <1>5, <1>6, <1>7, <1>8 DEF Listed, Init, Owes
  <1>10. Conversing
    <2>1. <<>> \in Seq(CallIds)
      OBVIOUS
    <2>2. 2 \in 2 .. MaxMessages /\ 0 \in Nat
      BY ContextAssumption
    <2>3. pc = "request" /\ pending_tool_round = FALSE /\ work = 0 /\ calls = <<>>
          /\ appended = 2 /\ undelivered = 0 /\ rejected = 0
      BY DEF Init
    <2> QED
      BY <2>1, <2>2, <2>3 DEF Conversing
  <1> QED
    BY <1>9, <1>10 DEF Context, Retrying, Init

LEMMA SendRequestKeeps ==
  ASSUME Context, SendRequest PROVE Context'
  <1>1. /\ pc = "request" /\ pc' = "reply" /\ calls = <<>> /\ calls' = <<>>
        /\ CompactIfNeeded(messages, pending_tool_round, work, owed)
        /\ UNCHANGED <<pending_tool_round, work, calls, appended, rejected>>
    BY DEF SendRequest, Context, Conversing
  <1>2. /\ Sound(messages', recorded', appended, owed', undelivered')
        /\ undelivered' \in Nat /\ owed' \subseteq owed
        /\ Size(messages') \in Nat /\ Size(messages') <= Size(messages)
    <2>1. /\ Sound(messages, recorded, appended, owed, undelivered)
          /\ appended \in Nat /\ undelivered \in Nat /\ work \in Nat
      BY <1>1, SoundWhenTalking
    <2>2. owed # {} => pending_tool_round = TRUE
      BY <1>1 DEF Context, Listed
    <2> QED
      BY <1>1, <2>1, <2>2, CompactIfNeededIsSound
  <1>3. Listed'
    <2>1. owed' # {} => pending_tool_round' = TRUE
      BY <1>1, <1>2 DEF Context, Listed
    <2> QED
      BY <1>1, <1>2, <2>1, ListedAfterTurn
  <1>4. Conversing'
    BY <1>1, <1>2 DEF Context, Conversing
  <1>5. Retrying'
    <2>1. Size(messages) \in Nat
      BY SizeIsCounted DEF Context, Listed, Shape
    <2> QED
      BY <1>1, <1>2, <2>1 DEF Context, Conversing, Retrying
  <1> QED
    BY <1>3, <1>4, <1>5 DEF Context

LEMMA BridgeGoneKeeps ==
  ASSUME Context, BridgeGone PROVE Context'
  BY DEF Context, Conversing, Listed, Retrying, BridgeGone

LEMMA OverflowKeeps ==
  ASSUME Context, Overflow PROVE Context'
  <1> DEFINE pruned == Prune(messages, pending_tool_round)
             c == Compact(pruned, pending_tool_round, work, Size(messages), TRUE)
  <1>1. /\ pc = "reply" /\ calls = <<>> /\ calls' = <<>> /\ Adopt(c, owed)
        /\ pending_tool_round' = (pending_tool_round /\ c.undelivered = {})
        /\ pc' = IF c.reduced /\ Size(c.messages) < Size(messages)
                 THEN "request" ELSE "final"
        /\ rejected' = Size(messages) /\ UNCHANGED <<work, calls, appended>>
    BY DEF Overflow, Context, Conversing
  <1>2. /\ Sound(messages, recorded, appended, owed, undelivered)
        /\ appended \in Nat /\ undelivered \in Nat /\ work \in Nat
        /\ owed # {} => pending_tool_round = TRUE
    <2>1. owed # {} => pending_tool_round = TRUE
      BY <1>1 DEF Context, Listed
    <2> QED
      BY <1>1, <2>1, SoundWhenTalking
  <1>3. Size(messages) \in Nat
    BY SizeIsCounted DEF Context, Listed, Shape
  <1>4. Sound(pruned, recorded, appended, owed, undelivered)
    BY <1>2, PruneIsSound
  <1> HIDE DEF pruned
  <1>5. Keeps(pruned, c.messages, c.omitted, c.undelivered, owed)
    BY <1>2, <1>3, <1>4, CompactKeeps DEF Sound
  <1> HIDE DEF c
  <1>6. /\ Sound(messages', recorded', appended, owed', undelivered')
        /\ undelivered' \in Nat /\ owed' \subseteq owed
        /\ c.undelivered # {} => owed' = {}
    BY <1>1, <1>2, <1>4, <1>5, AdoptIsSound
  <1>7. pc' \in {"request", "final"} /\ messages' = c.messages
        /\ (pc' = "request" => Size(c.messages) < Size(messages))
    BY <1>1 DEF Adopt
  <1>8. Listed'
    <2>1. owed' # {} => pending_tool_round' = TRUE
      BY <1>1, <1>2, <1>6
    <2> QED
      BY <1>1, <1>6, <1>7, <2>1, ListedAfterTurn
  <1>9. Conversing'
    <2>1. pending_tool_round' \in BOOLEAN
      BY <1>1
    <2> QED
      BY <1>1, <1>3, <1>6, <1>7, <2>1 DEF Context, Conversing
  <1>10. Retrying'
    BY <1>1, <1>7 DEF Retrying
  <1> QED
    BY <1>8, <1>9, <1>10 DEF Context

LEMMA ProviderErrorKeeps ==
  ASSUME Context, ProviderError PROVE Context'
  <1>1. /\ pc = "reply" /\ calls = <<>> /\ calls' = <<>> /\ rejected' = 0
        /\ UNCHANGED <<pending_tool_round, work, calls>>
    BY DEF ProviderError, Context, Conversing
  <1>2. PICK k \in 1 .. 2, terminal \in BOOLEAN :
          /\ HasRoom(k) /\ appended' = appended + k
          /\ IF terminal
             THEN /\ pc' = "final" /\ messages' = messages \o Prompts(k, appended)
                  /\ UNCHANGED <<recorded, owed, undelivered>>
             ELSE /\ pc' = "request"
                  /\ Settle(messages \o Prompts(k, appended), pending_tool_round, work, owed)
    BY DEF ProviderError
  <1> DEFINE prompted == messages \o Prompts(k, appended)
  <1>3. /\ Sound(messages, recorded, appended, owed, undelivered)
        /\ appended \in Nat /\ appended >= 2 /\ undelivered \in Nat /\ work \in Nat
        /\ owed # {} => pending_tool_round = TRUE
        /\ messages \in Seq(MessageType) /\ k \in Nat
    <2>1. owed # {} => pending_tool_round = TRUE
      BY <1>1 DEF Context, Listed
    <2> QED
      BY <1>1, <2>1, SoundWhenTalking
  <1>4. Sound(prompted, recorded, appended', owed, undelivered) /\ appended' \in Nat
    <2>1. Grown(prompted, messages, k, appended) /\ Talk(prompted, messages, k)
      BY <1>3, PromptsGrow
    <2> HIDE DEF prompted
    <2>2. Sound(prompted, recorded, appended + k, owed, undelivered)
      BY <1>3, <2>1, TalkIsSound
    <2> QED
      BY <1>2, <1>3, <2>2
  <1> HIDE DEF prompted
  <1>5. /\ Sound(messages', recorded', appended', owed', undelivered')
        /\ undelivered' \in Nat /\ owed' \subseteq owed /\ pc' \in {"request", "final"}
    <2>1. CASE terminal
      BY <1>2, <1>3, <1>4, <2>1 DEF prompted
    <2>2. CASE ~ terminal
      <3>1. pc' = "request" /\ Settle(prompted, pending_tool_round, work, owed)
        BY <1>2, <2>2 DEF prompted
      <3> QED
        BY <1>3, <1>4, <3>1, SettleIsSound
    <2> QED
      BY <2>1, <2>2
  <1>6. Listed'
    <2>1. owed' # {} => pending_tool_round' = TRUE
      BY <1>1, <1>3, <1>5
    <2> QED
      BY <1>1, <1>5, <2>1, ListedAfterTurn
  <1>7. Conversing'
    <2>1. appended' \in 2 .. MaxMessages
      BY <1>2, <1>3, ContextAssumption DEF HasRoom
    <2> QED
      BY <1>1, <1>5, <2>1 DEF Context, Conversing
  <1> QED
    BY <1>1, <1>5, <1>6, <1>7 DEF Context, Retrying

LEMMA TextReplyKeeps ==
  ASSUME Context, TextReply PROVE Context'
  <1>1. /\ pc = "reply" /\ calls = <<>> /\ calls' = <<>> /\ rejected' = 0
        /\ pc' = "request" /\ pending_tool_round' = FALSE /\ UNCHANGED work
    BY DEF TextReply, Context, Conversing
  <1>2. PICK k \in 0 .. MaxPrompts :
          /\ HasRoom(k + 1) /\ appended' = appended + k + 1
          /\ Settle(Append(messages, Message("assistant", appended + 1, <<>>, 1))
                      \o Prompts(k, appended + 1), FALSE, work, {})
    BY DEF TextReply
  <1> DEFINE answer == Message("assistant", appended + 1, <<>>, 1)
             answered == Append(messages, answer)
             said == answered \o Prompts(k, appended + 1)
  <1>3. /\ Sound(messages, recorded, appended, {}, undelivered)
        /\ appended \in Nat /\ appended >= 2 /\ undelivered \in Nat /\ work \in Nat
        /\ messages \in Seq(MessageType) /\ k \in Nat
    <2>1. /\ Sound(messages, recorded, appended, owed, undelivered)
          /\ appended \in Nat /\ appended >= 2 /\ undelivered \in Nat /\ work \in Nat
          /\ messages \in Seq(MessageType)
      BY <1>1, SoundWhenTalking
    <2>2. k \in Nat
      BY ContextAssumption
    <2> QED
      BY <2>1, <2>2 DEF Sound, Owes
  <1>4. /\ answer \in MessageType /\ answer.n = appended + 1 /\ answer.kind = "assistant"
        /\ answer.ids = <<>>
    <2>1. <<>> \in Seq(CallIds) /\ appended + 1 \in Nat
      BY <1>3
    <2> QED
      BY <2>1 DEF Message, MessageType, Kinds
  <1> HIDE DEF answer
  <1>5. Sound(answered, recorded, appended + 1, {}, undelivered)
    <2>1. Grown(answered, messages, 1, appended) /\ Talk(answered, messages, 1)
      BY <1>3, <1>4, AppendGrows
    <2> HIDE DEF answered
    <2> QED
      BY <1>3, <2>1, TalkIsSound
  <1>6. Sound(said, recorded, appended', {}, undelivered) /\ appended' \in Nat
    <2>1. answered \in Seq(MessageType)
      BY <1>3, <1>4
    <2> HIDE DEF answered
    <2>2. Grown(said, answered, k, appended + 1) /\ Talk(said, answered, k)
      BY <1>3, <2>1, PromptsGrow
    <2>3. appended + 1 \in Nat /\ appended + 1 >= 2 /\ appended' = (appended + 1) + k
      BY <1>2, <1>3
    <2> HIDE DEF said
    <2>4. Sound(said, recorded, (appended + 1) + k, {}, undelivered)
      BY <1>3, <1>5, <2>2, <2>3, TalkIsSound
    <2> QED
      BY <1>3, <2>3, <2>4
  <1>7. Settle(said, FALSE, work, {})
    BY <1>2 DEF answer
  <1> HIDE DEF said
  <1>8. /\ Sound(messages', recorded', appended', owed', undelivered')
        /\ undelivered' \in Nat /\ owed' = {}
    <2> DEFINE none == {}
               no == FALSE
    <2>1. /\ Sound(said, recorded, appended', none, undelivered)
          /\ Settle(said, no, work, none) /\ (none # {} => no = TRUE)
      BY <1>6, <1>7
    <2>2. none = {}
      OBVIOUS
    <2> HIDE DEF none, no
    <2>3. /\ Sound(messages', recorded', appended', owed', undelivered')
          /\ undelivered' \in Nat /\ owed' \subseteq none
      BY <1>3, <1>6, <2>1, SettleIsSound
    <2> QED
      BY <2>2, <2>3
  <1>9. Listed'
    BY <1>1, <1>8, ListedAfterTurn
  <1>10. Conversing'
    <2>1. appended' \in 2 .. MaxMessages
      BY <1>2, <1>3, ContextAssumption DEF HasRoom
    <2> QED
      BY <1>1, <1>8, <2>1 DEF Context, Conversing
  <1> QED
    BY <1>1, <1>9, <1>10 DEF Context, Retrying

LEMMA ToolReplyKeeps ==
  ASSUME Context, ToolReply PROVE Context'
  <1>1. /\ pc = "reply" /\ calls = <<>> /\ rejected' = 0 /\ owed' = {}
        /\ pc' = "tools" /\ pending_tool_round' = FALSE /\ appended' = appended + 1
        /\ UNCHANGED <<work, recorded, undelivered>>
    BY DEF ToolReply, Context, Conversing
  <1>2. PICK ids \in Rounds :
          /\ HasRoom(1 + Len(ids) + MaxPrompts) /\ calls' = ids
          /\ messages' = Append(messages, Message("assistant", appended + 1, ids, 1))
    BY DEF ToolReply
  <1> DEFINE m == Message("assistant", appended + 1, ids, 1)
  <1>3. /\ Whole(messages) /\ Shape(messages) /\ Filed(messages, recorded, appended)
        /\ Cardinality(Deliveries(messages)) = undelivered
        /\ appended \in Nat /\ appended >= 2 /\ messages \in Seq(MessageType)
    BY <1>1 DEF Context, Conversing, Listed, Shape, Whole
  <1>4. ids \in Seq(CallIds) /\ ids # <<>> /\ Len(ids) \in Nat
    BY ContextAssumption
  <1>5. m \in MessageType /\ m.n = appended + 1 /\ m.kind = "assistant" /\ m.ids = ids
    BY <1>3, <1>4 DEF Message, MessageType, Kinds
  <1> HIDE DEF m
  <1>6. messages' = Append(messages, m)
    BY <1>2 DEF m
  <1>7. /\ Shape(messages') /\ Deliveries(messages') = Deliveries(messages)
        /\ Filed(messages', recorded, appended + 1)
    <2>1. Grown(messages', messages, 1, appended)
      BY <1>3, <1>5, <1>6, AppendGrows
    <2> QED
      BY <1>3, <2>1, GrownIsFiled
  <1>8. Paired(messages', ids) /\ Shown(messages')
    BY <1>3, <1>4, <1>5, <1>6, CallsOpenRound DEF Shown
  <1>9. Listed'
    BY <1>1, <1>2, <1>3, <1>7, <1>8 DEF Listed, Owes
  <1>10. Conversing'
    <2>1. appended' \in 2 .. MaxMessages /\ appended' + Len(calls') + MaxPrompts <= MaxMessages
      BY <1>1, <1>2, <1>3, <1>4, ContextAssumption DEF HasRoom
    <2> QED
      BY <1>1, <1>2, <1>4, <2>1 DEF Context, Conversing
  <1> QED
    BY <1>1, <1>9, <1>10 DEF Context, Retrying

LEMMA ToolResultKeeps ==
  ASSUME Context, ToolResult PROVE Context'
  <1> DEFINE ids == messages[Max({i \in DOMAIN messages : IsRound(messages[i])})].ids
             more == IF Distinct(ids) THEN {appended + 1} ELSE {}
  <1>1. /\ pc = "tools" /\ calls # <<>> /\ appended' = appended + 1 /\ calls' = Tail(calls)
        /\ owed' = owed \cup more /\ rejected = 0
        /\ UNCHANGED <<pending_tool_round, work, recorded, undelivered, rejected>>
    <2>1. owed' = IF Distinct(ids) THEN owed \cup {appended + 1} ELSE owed
      BY DEF ToolResult
    <2>2. owed' = owed \cup more
      BY <2>1
    <2> HIDE DEF more, ids
    <2> QED
      BY <2>2 DEF ToolResult, Context, Retrying
  <1>2. PICK size \in ResultSizes :
          /\ messages' = Append(messages, Message("tool", appended + 1, <<Head(calls)>>, size))
          /\ pc' \in {"tools", "final"}
    BY DEF ToolResult
  <1> DEFINE m == Message("tool", appended + 1, <<Head(calls)>>, size)
  <1>3. /\ Shape(messages) /\ Filed(messages, recorded, appended) /\ Paired(messages, calls)
        /\ Cardinality(Deliveries(messages)) = undelivered /\ Owes(messages, owed)
        /\ Shown(messages) /\ appended \in Nat /\ appended >= 2
        /\ messages \in Seq(MessageType) /\ calls \in Seq(CallIds)
        /\ appended + Len(calls) + MaxPrompts <= MaxMessages
    BY <1>1 DEF Context, Conversing, Listed, Shape
  <1>4. /\ m \in MessageType /\ m.n = appended + 1 /\ m.kind = "tool"
        /\ m.ids = <<Head(calls)>> /\ m.full = TRUE /\ Len(m.ids) = 1
    <2>1. <<Head(calls)>> \in Seq(CallIds) /\ appended + 1 \in Nat /\ size \in Nat
      BY <1>1, <1>3, ContextAssumption
    <2> QED
      BY <2>1 DEF Message, MessageType, Kinds
  <1> HIDE DEF m
  <1>5. messages' = Append(messages, m)
    BY <1>2 DEF m
  <1>6. /\ Shape(messages') /\ Deliveries(messages') = Deliveries(messages)
        /\ Filed(messages', recorded, appended + 1)
    <2>1. Grown(messages', messages, 1, appended)
      BY <1>3, <1>4, <1>5, AppendGrows
    <2> QED
      BY <1>3, <2>1, GrownIsFiled
  <1>7. Paired(messages', calls')
    BY <1>1, <1>3, <1>4, <1>5, ResultContinuesRound
  <1>8. Shown(messages') /\ Owes(messages', owed')
    <2>1. more \in SUBSET {m.n} /\ (more # {} => Distinct(ids))
      BY <1>4
    <2> HIDE DEF more
    <2> QED
      BY <1>1, <1>3, <1>4, <1>5, <2>1, ResultIsOwed
  <1> HIDE DEF more, ids
  <1>9. Listed'
    BY <1>1, <1>2, <1>3, <1>6, <1>7, <1>8 DEF Listed
  <1>10. Conversing'
    <2>1. /\ Tail(calls) \in Seq(CallIds) /\ Len(Tail(calls)) = Len(calls) - 1
          /\ Len(calls) \in Nat \ {0}
      BY <1>1, <1>3
    <2>2. /\ appended' \in 2 .. MaxMessages
          /\ appended' + Len(calls') + MaxPrompts <= MaxMessages
      BY <1>1, <1>3, <2>1, ContextAssumption
    <2> QED
      BY <1>1, <1>2, <2>1, <2>2 DEF Context, Conversing
  <1> QED
    BY <1>1, <1>2, <1>9, <1>10 DEF Context, Retrying

LEMMA EndRoundKeeps ==
  ASSUME Context, EndRound PROVE Context'
  <1>1. /\ pc = "tools" /\ calls = <<>> /\ calls' = <<>> /\ rejected = 0 /\ rejected' = 0
        /\ pending_tool_round' = TRUE
    BY DEF EndRound, Context, Retrying
  <1>2. PICK k \in 0 .. MaxPrompts, size \in WorkSizes :
          /\ appended' = appended + k /\ work' = size
          /\ \/ pc' = "final" /\ messages' = messages \o Prompts(k, appended)
                /\ UNCHANGED <<recorded, owed, undelivered>>
             \/ pc' = "request"
                /\ Settle(messages \o Prompts(k, appended), TRUE, size, owed)
    BY DEF EndRound
  <1> DEFINE prompted == messages \o Prompts(k, appended)
  <1>3. /\ Sound(messages, recorded, appended, owed, undelivered)
        /\ appended \in Nat /\ appended >= 2 /\ undelivered \in Nat /\ size \in Nat
        /\ messages \in Seq(MessageType) /\ k \in Nat
        /\ appended + MaxPrompts <= MaxMessages
    <2>1. Len(calls) = 0 /\ appended + Len(calls) + MaxPrompts <= MaxMessages
      BY <1>1 DEF Context, Conversing
    <2>2. appended + MaxPrompts <= MaxMessages
      BY <2>1, ContextAssumption DEF Context, Conversing
    <2>3. size \in Nat /\ k \in Nat
      BY ContextAssumption
    <2> QED
      BY <1>1, <2>2, <2>3, SoundWhenTalking
  <1>4. Sound(prompted, recorded, appended', owed, undelivered) /\ appended' \in Nat
    <2>1. Grown(prompted, messages, k, appended) /\ Talk(prompted, messages, k)
      BY <1>3, PromptsGrow
    <2> HIDE DEF prompted
    <2>2. Sound(prompted, recorded, appended + k, owed, undelivered)
      BY <1>3, <2>1, TalkIsSound
    <2> QED
      BY <1>2, <1>3, <2>2
  <1>5. /\ Sound(messages', recorded', appended', owed', undelivered')
        /\ undelivered' \in Nat /\ pc' \in {"request", "final"}
    <2>1. CASE /\ pc' = "final" /\ messages' = prompted
               /\ UNCHANGED <<recorded, owed, undelivered>>
      BY <1>3, <1>4, <2>1
    <2>2. CASE pc' = "request" /\ Settle(prompted, TRUE, size, owed)
      <3> HIDE DEF prompted
      <3> QED
        BY <1>3, <1>4, <2>2, SettleIsSound
    <2> QED
      BY <1>2, <2>1, <2>2
  <1> HIDE DEF prompted
  <1>6. Listed'
    BY <1>1, <1>5, ListedAfterTurn
  <1>7. Conversing'
    <2>1. appended' \in 2 .. MaxMessages /\ work' \in WorkSizes
      BY <1>2, <1>3, ContextAssumption
    <2>2. <<>> \in Seq(CallIds)
      OBVIOUS
    <2> QED
      BY <1>1, <1>5, <2>1, <2>2 DEF Context, Conversing
  <1> QED
    BY <1>1, <1>5, <1>6, <1>7 DEF Context, Retrying

LEMMA ContextNext == Context /\ [Next]_vars => Context'
  <1> SUFFICES ASSUME Context, [Next]_vars PROVE Context'
    OBVIOUS
  <1>1. CASE UNCHANGED vars
    BY <1>1 DEF Context, Conversing, Listed, Retrying, vars, contextVars
  <1> QED
    BY <1>1, SendRequestKeeps, BridgeGoneKeeps, OverflowKeeps, ProviderErrorKeeps,
       TextReplyKeeps, ToolReplyKeeps, ToolResultKeeps, EndRoundKeeps DEF Next

LEMMA ContextHolds == Spec => []Context
  BY ContextInit, ContextNext, PTL DEF Spec

LEMMA UsageTypesHold == Spec => []UsageTypeOK
  <1>1. Init => UsageTypeOK
    BY MaxCountAssumption DEF Init, UsageInit, UsageTypeOK
  <1>2. UsageTypeOK /\ [Next]_vars => UsageTypeOK'
    <2> SUFFICES ASSUME UsageTypeOK, [Next]_vars PROVE UsageTypeOK'
      OBVIOUS
    <2>1. CASE TextReply
      BY <2>1, AccountTypes DEF TextReply
    <2>2. CASE ToolReply
      BY <2>2, AccountTypes DEF ToolReply
    <2>3. CASE UNCHANGED usageVars
      BY <2>3 DEF usageVars, UsageTypeOK
    <2>4. CASE Miss
      BY <2>4, MissTypes
    <2> QED
      BY <2>1, <2>2, <2>3, <2>4 DEF Next, vars, SendRequest, BridgeGone, Overflow,
         ProviderError, ToolResult, EndRound
  <1> QED
    BY <1>1, <1>2, PTL DEF Spec

-----------------------------------------------------------------------------
\* The types of the conversation, and of the totals: run_worker numbers what it
\* appends within its bound, and every counter stays within its range.
THEOREM ConversationIsTyped == Spec => []Inv
  <1>1. Context /\ UsageTypeOK /\ UsageFits => Inv
    <2> SUFFICES ASSUME Context, UsageTypeOK, UsageFits PROVE Inv
      OBVIOUS
    <2>1. /\ Shape(messages) /\ Paired(messages, calls) /\ Owes(messages, owed)
          /\ Filed(messages, recorded, appended) /\ appended \in Nat
      BY DEF Context, Conversing, Listed
    <2>2. /\ \A i \in DOMAIN messages : messages[i].n \in 0 .. appended
          /\ recorded \subseteq 3 .. appended /\ owed \subseteq 3 .. appended
      BY <2>1, FiledNumbers, OwedNumbers
    <2>3. ASSUME NEW i \in DOMAIN messages
          PROVE  /\ messages[i].kind \in Kinds /\ messages[i].size \in Nat
                 /\ messages[i].full \in BOOLEAN
                 /\ messages[i].ids # <<>> => messages[i].kind \in {"assistant", "tool"}
      <3>1. messages[i] \in MessageType
        BY <2>1 DEF Shape
      <3> QED
        BY <2>1, <3>1 DEF Shape, MessageType
    <2> QED
      BY <2>2, <2>3 DEF Context, Conversing, Inv, TypeOK
  <1> QED
    BY <1>1, ContextHolds, UsageTypesHold, TotalsFit, PTL

\* Every request llm_request sends has the prompt and the task in front and every
\* tool call with its results behind it, in order, however the list was pruned,
\* compacted by compact_context and retried.
THEOREM RequestsAreComplete == Spec => []RequestsAreWellFormed
  <1>1. Context => RequestsAreWellFormed
    <2> SUFFICES ASSUME Context, pc = "reply"
                 PROVE  /\ messages[1].n = 1 /\ messages[2].n = 2
                        /\ \A i \in DOMAIN messages :
                             /\ IsRound(messages[i]) => IsAnswered(messages, i)
                             /\ messages[i].kind = "tool" =>
                                  \E k \in 1 .. i - 1 : /\ IsRound(messages[k])
                                                        /\ i <= k + Len(messages[k].ids)
      BY DEF RequestsAreWellFormed
    <2>1. Whole(messages)
      BY DEF Context, Conversing, Listed, Whole
    <2>2. ASSUME NEW i \in DOMAIN messages, IsRound(messages[i])
          PROVE  IsAnswered(messages, i)
      BY <2>1, <2>2, RoundsAreWhole DEF IsAnswered
    <2> QED
      BY <2>1, <2>2 DEF Whole, Shape, Paired
  <1> QED
    BY <1>1, ContextHolds, PTL

\* Whatever was appended to state.messages is in the list or was written to the
\* trajectory as omitted history, not both, and in its order.
THEOREM NothingIsForgotten == Spec => []HistoryIsExact
  <1>1. Context => HistoryIsExact
    BY DEF Context, Listed, Shape, Filed, HistoryIsExact
  <1> QED
    BY <1>1, ContextHolds, PTL

\* A result the model was not shown yet is in the next request in full, also
\* after errors, and each round for which that was impossible has its
\* tool_result_delivery_incomplete notice in the list.
THEOREM ResultsAreDelivered == Spec => []RoundsAreShownOrAnnounced
  <1>1. Context => RoundsAreShownOrAnnounced
    <2> SUFFICES ASSUME Context, NEW n \in owed
                 PROVE  \E i \in DOMAIN messages : messages[i].n = n /\ messages[i].full
      BY DEF RoundsAreShownOrAnnounced, Context, Listed, Deliveries
    <2>1. PICK r \in DOMAIN messages :
            /\ owed \subseteq {messages[j].n : j \in Results(messages, r)}
            /\ \A j \in Results(messages, r) : messages[j].full
      BY DEF Context, Listed, Owes
    <2>2. PICK j \in Results(messages, r) : messages[j].n = n
      BY <2>1
    <2> QED
      BY <2>1, <2>2 DEF Results
  <1> QED
    BY <1>1, ContextHolds, PTL

\* A request that was rejected as too long is sent again only shorter.
THEOREM OverflowsEnd == Spec => []RetriesShrink
  <1>1. Context => RetriesShrink
    BY DEF Context, Retrying, RetriesShrink
  <1> QED
    BY <1>1, ContextHolds, PTL
=============================================================================

-------------------------- MODULE MCWorkerContext --------------------------
EXTENDS WorkerContext

Cost == [input |-> 2, cache |-> 1, output |-> 1]

\* By way of the bridge complete reports, of which two overflow the input, and
\* one whose inputs contradict each other; and a report without the cache hits
\* that an older bridge passed on.
MCCalls ==
  {[raw |-> Anthropic(Cost, 1), cost |-> Cost, bridge |-> TRUE],
   [raw |-> LiteLLM(Cost), cost |-> Cost, bridge |-> TRUE],
   [raw |-> [OpenAI(Cost) EXCEPT !.input_tokens = 4], cost |-> Cost,
    bridge |-> TRUE],
   [raw |-> Without(OpenAI(Cost), {CacheRead}), cost |-> Cost,
    bridge |-> FALSE]}

MCRounds == {<<"a">>, <<"a", "b">>, <<"a", "a">>}
=============================================================================

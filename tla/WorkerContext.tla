--------------------------- MODULE WorkerContext ---------------------------
(***************************************************************************)
(* The conversation of one worker: run_worker of                           *)
(* crates/hl-worker-core/src/main.rs sends the whole message list to the   *)
(* model on every turn, executes the tool calls of the answer, shortens    *)
(* old tool results, and omits complete old units of the history when a    *)
(* request grows past a threshold or the provider rejects it as too long.  *)
(***************************************************************************)
EXTENDS WorkerUsage, SequencesExt

CONSTANTS
  Threshold,     \* thresholds.compaction_char_threshold
  KeepMessages,  \* 14: a list that is no longer is not compacted unforced
  KeepTail,      \* 12: messages an unforced compaction leaves after a unit
  KeepRecent,    \* thresholds.ephemeral_tool_output_keep_recent
  MaxChars,      \* thresholds.ephemeral_tool_output_max_chars
  PrunedSize,    \* size of the placeholder of a pruned result
  ResultSizes,   \* sizes of tool results as they are first shown
  WorkSizes,     \* sizes of the work state, 0 when it has no field
  Rounds,        \* the id sequences of the tool calls of one answer
  MaxPrompts,    \* bound on the prompts one handler appends
  MaxMessages    \* bound on the messages that are ever appended

CallIds == UNION {Range(ids) : ids \in Rounds}

ASSUME ContextAssumption ==
  /\ Threshold \in Nat /\ PrunedSize \in Nat
  /\ ResultSizes \subseteq Nat /\ WorkSizes \subseteq Nat
  /\ Rounds \subseteq Seq(CallIds) \ {<<>>}
  /\ MaxPrompts \in Nat /\ MaxMessages \in Nat /\ MaxMessages >= 2

VARIABLES
  pc,          \* the step of run_worker
  messages,    \* state.messages
  pending_tool_round,
  work,        \* size of the work state a compaction would insert
  calls,       \* ids of the tool calls of this answer not yet executed
  appended,    \* history: number of messages appended
  recorded,    \* history: messages the trajectory keeps as omitted_history
  owed,        \* history: tool results the model has not been shown
  undelivered, \* history: number of tool_result_delivery_incomplete events
  rejected     \* size of the request the provider just rejected, or 0

contextVars == <<pc, messages, pending_tool_round, work, calls, appended,
                 recorded, owed, undelivered, rejected>>
vars == <<contextVars, usageVars>>

-----------------------------------------------------------------------------
(* Messages.  n is the place of a message in the order of appending, 0 for *)
(* what a compaction inserts; full tells a result from its placeholder.    *)

Message(kind, n, ids, size) ==
  [kind |-> kind, n |-> n, ids |-> ids, size |-> size, full |-> TRUE]

WorkState(size) == Message("worker_context_state", 0, <<>>, 1 + size)
Delivery == Message("worker_tool_delivery", 0, <<>>, 1)

\* request_size_bytes, without the constant share of the tool schemas.
Size(msgs) ==
  LET sum[i \in 0 .. Len(msgs)] ==
        IF i = 0 THEN 0 ELSE sum[i - 1] + msgs[i].size
  IN  sum[Len(msgs)]
Serials(msgs) == {msgs[i].n : i \in DOMAIN msgs} \ {0}
Distinct(ids) == Cardinality(Range(ids)) = Len(ids)
IsRound(m) == m.kind = "assistant" /\ m.ids # <<>>

\* Mutant: a call is a unit without its results.
UnitEndOfCall(msgs, i) ==
  IF msgs[i].kind \in {"user", "assistant"} THEN i ELSE 0

\* completed_message_unit_end: the last message of the unit that starts at i,
\* or 0: an answer goes with the results of all its calls, in any order, and a
\* round with a repeated id is never complete.
UnitEnd(msgs, i) ==
  LET m == msgs[i]
      end == i + Len(m.ids)
  IN  IF \/ m.kind = "user"
         \/ /\ m.kind = "assistant" /\ Distinct(m.ids) /\ end <= Len(msgs)
            /\ \A j \in i + 1 .. end : msgs[j].kind = "tool"
            /\ {msgs[j].ids[1] : j \in i + 1 .. end} = Range(m.ids)
      THEN end ELSE 0

\* pending_tool_round_range, as the set of the positions of the unit.
PendingRound(msgs, pending) ==
  LET rounds == {i \in DOMAIN msgs : IsRound(msgs[i])}
      last == Max(rounds)
  IN  IF ~ pending \/ rounds = {} THEN {} ELSE last .. UnitEnd(msgs, last)

\* Mutant: results are shortened before the model was shown them.
PruneEager(msgs, pending) ==
  LET Newer(i) == {j \in i .. Len(msgs) : msgs[j].kind = "tool"}
  IN  [i \in DOMAIN msgs |->
         IF /\ msgs[i].kind = "tool" /\ Cardinality(Newer(i)) > KeepRecent
            /\ MaxChars > 0 /\ msgs[i].size > MaxChars /\ msgs[i].full
         THEN [msgs[i] EXCEPT !.size = PrunedSize, !.full = FALSE]
         ELSE msgs[i]]

\* prune_ephemeral_tool_outputs: long results but the newest KeepRecent and
\* those of the pending round are replaced by a placeholder.
Prune(msgs, pending) ==
  LET Newer(i) == {j \in i .. Len(msgs) : msgs[j].kind = "tool"}
      spared == PendingRound(msgs, pending)
  IN  [i \in DOMAIN msgs |->
         IF /\ msgs[i].kind = "tool" /\ Cardinality(Newer(i)) > KeepRecent
            /\ MaxChars > 0 /\ msgs[i].size > MaxChars /\ msgs[i].full
            /\ i \notin spared
         THEN [msgs[i] EXCEPT !.size = PrunedSize, !.full = FALSE]
         ELSE msgs[i]]

-----------------------------------------------------------------------------
(* Compaction. *)

\* The messages at some places of a list, in their order.
Kept(msgs, places) ==
  LET Place(k) == CHOOSE i \in places : Cardinality(places \cap 1 .. i) = k
  IN  [k \in 1 .. Cardinality(places) |-> msgs[Place(k)]]

\* The list without old work states and with the current one, after the two
\* messages that are always kept.
WithWorkState(msgs, size) ==
  LET bare == Kept(msgs, {i \in DOMAIN msgs :
                            i <= 2 \/ msgs[i].kind # "worker_context_state"})
  IN  IF size = 0 THEN bare ELSE InsertAt(bare, 3, WorkState(size))

\* The units that may be omitted, by their first messages, and the omission of
\* all that end at or before cut: a notice is left of the round that the model
\* has not seen.
UnitStarts(msgs) == {i \in 3 .. Len(msgs) : UnitEnd(msgs, i) # 0}

Omit(msgs, cut, pending) ==
  LET gone == UNION {i .. UnitEnd(msgs, i) :
                       i \in {j \in UnitStarts(msgs) : UnitEnd(msgs, j) <= cut}}
      unseen == PendingRound(msgs, pending) \cap gone
      rest == Kept(msgs, DOMAIN msgs \ gone)
  IN  [messages |-> IF unseen = {} THEN rest ELSE InsertAt(rest, 3, Delivery),
       omitted |-> {msgs[i].n : i \in gone},
       undelivered |-> {msgs[i].n : i \in {j \in unseen : ~ IsRound(msgs[j])}}]

\* When the loop of compact_context stops after cut: the list is short enough,
\* there is no other unit, or, unforced, the next one is among the newest
\* messages or is the round the model has not seen.
MayStop(msgs, cut, pending, target, forced) ==
  LET left == {i \in UnitStarts(msgs) : i > cut}
      next == Min(left)
      end == UnitEnd(msgs, next)
  IN  \/ Size(Omit(msgs, cut, pending).messages) < target
      \/ left = {}
      \/ /\ ~ forced
         /\ Len(msgs) - end < KeepTail \/ next \in PendingRound(msgs, pending)

\* The list the loop ends with: units go from the oldest on until it may stop.
Shorten(msgs, pending, target, forced) ==
  LET cuts == {2} \cup {UnitEnd(msgs, i) : i \in UnitStarts(msgs)}
      cut == Min({c \in cuts : MayStop(msgs, c, pending, target, forced)})
  IN  Omit(msgs, cut, pending)

Unchanged(msgs, target) ==
  [messages |-> msgs, omitted |-> {}, undelivered |-> {},
   reduced |-> Size(msgs) < target]

\* What makes compact_context return before it changes anything.
IsIdle(msgs, target, forced) ==
  Size(msgs) < target \/ (~ forced /\ Len(msgs) <= KeepMessages)

\* Mutant: the units of a compaction that was given up stay out.
CompactHalfway(msgs, pending, size, target, forced) ==
  LET end == Shorten(WithWorkState(msgs, size), pending, target, forced)
      useless == \/ end.omitted = {}
                 \/ Size(end.messages) >= Size(msgs)
                 \/ forced /\ Size(end.messages) >= target
  IN  IF IsIdle(msgs, target, forced) THEN Unchanged(msgs, target)
      ELSE [messages |-> end.messages,
            omitted |-> IF useless THEN {} ELSE end.omitted,
            undelivered |-> end.undelivered, reduced |-> ~ useless]

\* compact_context: the list it leaves, the messages it puts into the
\* trajectory and what it returns; one that does not help changes nothing.
Compact(msgs, pending, size, target, forced) ==
  LET end == Shorten(WithWorkState(msgs, size), pending, target, forced)
      useless == \/ end.omitted = {}
                 \/ Size(end.messages) >= Size(msgs)
                 \/ forced /\ Size(end.messages) >= target
  IN  IF IsIdle(msgs, target, forced) \/ useless THEN Unchanged(msgs, target)
      ELSE [messages |-> end.messages, omitted |-> end.omitted,
            undelivered |-> end.undelivered, reduced |-> TRUE]

\* The result of a compaction takes effect; due are the results not yet shown.
Adopt(c, due) ==
  /\ messages' = c.messages
  /\ recorded' = recorded \cup c.omitted
  /\ owed' = due \ c.undelivered
  /\ undelivered' = undelivered + IF c.undelivered = {} THEN 0 ELSE 1

\* compact_if_needed.
CompactIfNeeded(msgs, pending, size, due) ==
  Adopt(Compact(msgs, pending, size, Threshold, FALSE), due)

\* The end of a turn: prune_ephemeral_tool_outputs and compact_if_needed.
Settle(msgs, pending, size, due) ==
  CompactIfNeeded(Prune(msgs, pending), pending, size, due)

Prompts(k, after) == [j \in 1 .. k |-> Message("user", after + j, <<>>, 1)]
HasRoom(k) == appended + k <= MaxMessages

-----------------------------------------------------------------------------
\* initialize_worker_messages: the system prompt and the task.
Init ==
  /\ pc = "request"
  /\ messages = <<Message("system", 1, <<>>, 1), Message("user", 2, <<>>, 1)>>
  /\ pending_tool_round = FALSE /\ work = 0 /\ calls = <<>> /\ appended = 2
  /\ recorded = {} /\ owed = {} /\ undelivered = 0 /\ rejected = 0
  /\ UsageInit

\* The top of the loop: compact_if_needed and llm_request.
SendRequest ==
  /\ pc = "request"
  /\ pc' = "reply"
  /\ CompactIfNeeded(messages, pending_tool_round, work, owed)
  /\ UNCHANGED <<pending_tool_round, work, calls, appended, rejected,
                 usageVars>>

\* The bridge is gone, or what it wrote cannot be read: read_typed_response
\* fails.
BridgeGone ==
  /\ pc = "reply"
  /\ pc' = "final"
  /\ Miss
  /\ UNCHANGED <<messages, pending_tool_round, work, calls, appended, recorded,
                 owed, undelivered, rejected>>

\* Mutant: the request is sent again although nothing could be omitted.
OverflowStubborn ==
  /\ pc = "reply"
  /\ LET pruned == Prune(messages, pending_tool_round)
         c == Compact(pruned, pending_tool_round, work, Size(messages), TRUE)
     IN  /\ Adopt(c, owed)
         /\ pending_tool_round' = (pending_tool_round /\ c.undelivered = {})
         /\ pc' = "request"
  /\ rejected' = Size(messages)
  /\ UNCHANGED <<work, calls, appended, usageVars>>

\* The provider rejects the request as too long: it is shortened below its own
\* size and sent again, or the run ends with context_input_unfit.
Overflow ==
  /\ pc = "reply"
  /\ LET pruned == Prune(messages, pending_tool_round)
         c == Compact(pruned, pending_tool_round, work, Size(messages), TRUE)
     IN  /\ Adopt(c, owed)
         /\ pending_tool_round' = (pending_tool_round /\ c.undelivered = {})
         /\ pc' = IF c.reduced /\ Size(c.messages) < Size(messages)
                  THEN "request" ELSE "final"
  /\ rejected' = Size(messages)
  /\ UNCHANGED <<work, calls, appended, usageVars>>

\* Any other provider error: one or two recovery prompts, and another turn
\* unless the error is a terminal one.
ProviderError ==
  /\ pc = "reply"
  /\ \E k \in 1 .. 2, terminal \in BOOLEAN :
       LET prompted == messages \o Prompts(k, appended)
       IN  /\ HasRoom(k)
           /\ appended' = appended + k
           /\ IF terminal
              THEN /\ pc' = "final" /\ messages' = prompted
                   /\ UNCHANGED <<recorded, owed, undelivered>>
              ELSE /\ pc' = "request"
                   /\ Settle(prompted, pending_tool_round, work, owed)
  /\ Miss
  /\ rejected' = 0
  /\ UNCHANGED <<pending_tool_round, work, calls>>

\* An answer without tool calls, and the prompts of the recovery functions.
TextReply ==
  /\ pc = "reply"
  /\ \E k \in 0 .. MaxPrompts, call \in Calls :
       LET answer == Message("assistant", appended + 1, <<>>, 1)
           said == Append(messages, answer) \o Prompts(k, appended + 1)
       IN  /\ HasRoom(k + 1)
           /\ appended' = appended + k + 1
           /\ Account(call)
           /\ Settle(said, FALSE, work, {})
  /\ pc' = "request" /\ pending_tool_round' = FALSE /\ rejected' = 0
  /\ UNCHANGED <<work, calls>>

\* An answer with tool calls.
ToolReply ==
  /\ pc = "reply"
  /\ \E ids \in Rounds, call \in Calls :
       /\ HasRoom(1 + Len(ids) + MaxPrompts)
       /\ Account(call)
       /\ messages' = Append(messages,
                             Message("assistant", appended + 1, ids, 1))
       /\ calls' = ids
  /\ appended' = appended + 1
  /\ pc' = "tools" /\ pending_tool_round' = FALSE /\ rejected' = 0 /\ owed' = {}
  /\ UNCHANGED <<work, recorded, undelivered>>

\* The next tool call is executed or refused, and its result shown; a terminal
\* failure of the environment ends the run in the middle of the round.  The
\* protection of a round with a repeated id is not claimed.
ToolResult ==
  /\ pc = "tools" /\ calls # <<>>
  /\ \E size \in ResultSizes, terminal \in BOOLEAN :
       /\ messages' = Append(messages, Message("tool", appended + 1,
                                               <<Head(calls)>>, size))
       /\ pc' = IF terminal THEN "final" ELSE "tools"
  /\ appended' = appended + 1
  /\ calls' = Tail(calls)
  /\ LET ids == messages[Max({i \in DOMAIN messages : IsRound(messages[i])})].ids
     IN  owed' = IF Distinct(ids) THEN owed \cup {appended + 1} ELSE owed
  /\ UNCHANGED <<pending_tool_round, work, recorded, undelivered, rejected,
                 usageVars>>

\* The round is over: hints and checkpoints are appended, the work state may be
\* another, and the run ends if done was called and its gate passed.
EndRound ==
  /\ pc = "tools" /\ calls = <<>>
  /\ \E k \in 0 .. MaxPrompts, size \in WorkSizes :
       LET prompted == messages \o Prompts(k, appended)
       IN  /\ appended' = appended + k
           /\ work' = size
           /\ \/ pc' = "final" /\ messages' = prompted
                 /\ UNCHANGED <<recorded, owed, undelivered>>
              \/ pc' = "request"
                 /\ Settle(prompted, TRUE, size, owed)
  /\ pending_tool_round' = TRUE
  /\ UNCHANGED <<calls, rejected, usageVars>>

Next ==
  \/ SendRequest \/ BridgeGone \/ Overflow \/ ProviderError
  \/ TextReply \/ ToolReply \/ ToolResult \/ EndRound

Spec == Init /\ [][Next]_vars

-----------------------------------------------------------------------------
Kinds == {"system", "worker_context_state", "worker_tool_delivery", "user",
          "assistant", "tool"}

TypeOK ==
  /\ pc \in {"request", "reply", "tools", "final"}
  /\ \A i \in DOMAIN messages : LET m == messages[i] IN
       /\ m.kind \in Kinds /\ m.n \in 0 .. appended /\ m.size \in Nat
       /\ m.full \in BOOLEAN /\ (m.ids # <<>> => m.kind \in {"assistant", "tool"})
  /\ pending_tool_round \in BOOLEAN
  /\ work \in WorkSizes \cup {0}
  /\ appended \in 2 .. MaxMessages
  /\ recorded \subseteq 3 .. appended /\ owed \subseteq 3 .. appended
  /\ undelivered \in Nat /\ rejected \in Nat
  /\ UsageTypeOK

\* The types, and the invariant that the totals rest on.
Inv == TypeOK /\ UsageFits

\* What the provider requires of a list: an answer with calls is followed by
\* one result for each, in order, and there is no other result.
IsAnswered(msgs, i) ==
  /\ i + Len(msgs[i].ids) <= Len(msgs)
  /\ \A j \in DOMAIN msgs[i].ids : LET r == msgs[i + j]
                                  IN  r.kind = "tool" /\ r.ids = <<msgs[i].ids[j]>>

\* However the history was pruned, compacted and retried, every request has
\* the system prompt and the task in front and pairs every tool call with its
\* result: half a round in the list makes the provider refuse every later one.
RequestsAreWellFormed ==
  pc = "reply" =>
    /\ messages[1].n = 1 /\ messages[2].n = 2
    /\ \A i \in DOMAIN messages :
         /\ IsRound(messages[i]) => IsAnswered(messages, i)
         /\ messages[i].kind = "tool" =>
              \E k \in 1 .. i - 1 : /\ IsRound(messages[k])
                                    /\ i <= k + Len(messages[k].ids)

\* The notice of a compaction says "exact history is in trajectory": what was
\* ever appended is, in its order, in the list or in the trajectory, and not
\* in both, also after a compaction that was given up.
HistoryIsExact ==
  /\ Serials(messages) \cup recorded = 1 .. appended
  /\ Serials(messages) \cap recorded = {}
  /\ \A i, j \in DOMAIN messages :
       i < j /\ messages[j].n # 0 => messages[i].n < messages[j].n

\* The first request after a round shows all its results in full, also when it
\* is repeated after errors; a round for which that was impossible is
\* announced by a notice that stays, so that its writes are not replayed.
RoundsAreShownOrAnnounced ==
  pc = "reply" =>
    /\ \A n \in owed : \E i \in DOMAIN messages :
         messages[i].n = n /\ messages[i].full
    /\ Cardinality({i \in DOMAIN messages :
                      messages[i].kind = "worker_tool_delivery"}) = undelivered

\* A request the provider rejected as too long is sent again only when it got
\* strictly shorter, also after compact_if_needed put a work state into it: a
\* provider that rejects every request cannot keep the worker for ever.
RetriesShrink ==
  pc = "reply" /\ rejected # 0 => Size(messages) < rejected

=============================================================================

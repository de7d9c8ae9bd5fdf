------------------------- MODULE SubmitGateProofs -------------------------
(***************************************************************************)
(* Proofs about SubmitGate, for any submitters, campaigns, names and       *)
(* bounds.  Inv is inductive.  Its heart is that a record, once complete,  *)
(* never changes: each step of a submitter adds a record of its own where  *)
(* there was none, completes its own, or only drops old states of the      *)
(* directory (Appends).                                                    *)
(***************************************************************************)
EXTENDS SubmitGate, TLAPS

\* What a step of s may do to the submissions directory.
Appends(s) ==
  /\ files' \in snapshots'
  /\ snapshots' \subseteq snapshots \cup {files'}
  /\ \/ files' = files
     \/ \E p \in Paths : \E r \in Record :
          /\ r.owner = s
          /\ files[p] = Absent \/ (files[p].owner = s /\ ~files[p].complete)
          /\ files' = [files EXCEPT ![p] = r]

\* What a step of s leaves alone: the other submitters, and the job while
\* anybody relies on it.
Local(s) ==
  /\ request' = request
  /\ job' = job
  /\ \A t \in Submitters \ {s} :
       /\ pc'[t] = pc[t] /\ seen'[t] = seen[t] /\ gate'[t] = gate[t]
       /\ launched'[t] = launched[t]
       /\ t \in accepted' <=> t \in accepted

SubmitterStep(s) ==
  \/ CheckClaims(s) \/ Inspect(s) \/ Claim(s) \/ WriteIntent(s) \/ SyncIntent(s)
  \/ FailIntent(s) \/ Recheck(s) \/ Skip(s) \/ Launch(s) \/ Accept(s)
  \/ Finish(s) \/ FailUpload(s) \/ CreateResult(s) \/ WriteResult(s)
  \/ SyncResult(s) \/ FailResult(s) \/ Crash(s)

\* What each action of s is to establish.
Safe(s) == TypeOK' /\ Local(s) /\ Appends(s) /\ Good(s)'

-----------------------------------------------------------------------------
(* Names, records and results.                                             *)

\* The names of a submitter's records are names of the directory.
LEMMA Names ==
  ASSUME Inv, NEW s \in Submitters
  PROVE  Intent(s) \in Paths /\ Result(s) \in Paths
BY SubmitAssumption DEF Inv, TypeOK, Intent, Result, Request

\* Records are well formed; an absent one is incomplete and nobody's.
LEMMA Records ==
  ASSUME NEW s \in Submitters, NEW b \in BOOLEAN
  PROVE  /\ IntentOf(s, b) \in Record
         /\ IntentOf(s, b).owner = s
         /\ IntentOf(s, b).says = "intent"
         /\ IntentOf(s, b).complete = b
         /\ IntentOf(s, b) # Absent
         /\ ~Absent.complete
         /\ Absent.owner # s
BY SubmitAssumption DEF IntentOf, Record, Absent

\* The same for results.
LEMMA Results ==
  ASSUME NEW s \in Submitters, NEW b \in BOOLEAN, gate[s].verdict \in Verdicts
  PROVE  /\ ResultOf(s, b) \in Record
         /\ ResultOf(s, b).owner = s
         /\ ResultOf(s, b).says = gate[s].verdict
         /\ ResultOf(s, b).complete = b
         /\ ResultOf(s, b) # Absent
BY SubmitAssumption DEF ResultOf, Record, Absent

\* A report reaches its submitter's result and no other.
LEMMA Reported ==
  ASSUME Inv, NEW s \in Submitters, NEW g \in Gate, Report(s, g)
  PROVE  /\ gate' \in [Submitters -> Gate]
         /\ gate'[s] = g
         /\ \A t \in Submitters \ {s} : gate'[t] = gate[t]
BY DEF Inv, TypeOK, Report

\* What the report Allowed changes.
LEMMA AllowedReport ==
  ASSUME Inv, NEW s \in Submitters, Report(s, Allowed(gate[s]))
  PROVE  /\ gate' \in [Submitters -> Gate]
         /\ \A t \in Submitters \ {s} : gate'[t] = gate[t]
         /\ gate'[s].verdict = gate[s].verdict
         /\ gate'[s].intentPersisted = gate[s].intentPersisted
<1> DEFINE g == Allowed(gate[s])
<1>1. gate[s] \in Gate
  BY DEF Inv, TypeOK
<1>2. /\ g \in Gate
      /\ g.verdict = gate[s].verdict
      /\ g.intentPersisted = gate[s].intentPersisted
  BY <1>1 DEF Allowed, Gate, Verdicts
<1>3. Report(s, g)
  OBVIOUS
<1> HIDE DEF g
<1> QED
  BY <1>2, <1>3, Reported

\* What the report Refused changes.
LEMMA RefusedReport ==
  ASSUME Inv, NEW s \in Submitters, NEW u \in BOOLEAN, Report(s, Refused(gate[s], u))
  PROVE  /\ gate' \in [Submitters -> Gate]
         /\ \A t \in Submitters \ {s} : gate'[t] = gate[t]
         /\ gate'[s].verdict = gate[s].verdict
         /\ gate'[s].intentPersisted = gate[s].intentPersisted
         /\ gate'[s].outcomeUnknown = u
<1> DEFINE g == Refused(gate[s], u)
<1>1. gate[s] \in Gate
  BY DEF Inv, TypeOK
<1>2. /\ g \in Gate
      /\ g.verdict = gate[s].verdict
      /\ g.intentPersisted = gate[s].intentPersisted
      /\ g.outcomeUnknown = u
  BY <1>1 DEF Refused, Gate, Verdicts
<1>3. Report(s, g)
  OBVIOUS
<1> HIDE DEF g
<1> QED
  BY <1>2, <1>3, Reported

\* What the report Persisted changes.
LEMMA PersistedReport ==
  ASSUME Inv, NEW s \in Submitters, Report(s, Persisted(gate[s]))
  PROVE  /\ gate' \in [Submitters -> Gate]
         /\ \A t \in Submitters \ {s} : gate'[t] = gate[t]
         /\ gate'[s].verdict = gate[s].verdict
         /\ gate'[s].intentPersisted
<1> DEFINE g == Persisted(gate[s])
<1>1. gate[s] \in Gate
  BY DEF Inv, TypeOK
<1>2. /\ g \in Gate
      /\ g.verdict = gate[s].verdict
      /\ g.intentPersisted
  BY <1>1 DEF Persisted, Gate, Verdicts
<1>3. Report(s, g)
  OBVIOUS
<1> HIDE DEF g
<1> QED
  BY <1>2, <1>3, Reported

\* What the report Cancelled changes.
LEMMA CancelledReport ==
  ASSUME Inv, NEW s \in Submitters, Report(s, Cancelled(gate[s]))
  PROVE  /\ gate' \in [Submitters -> Gate]
         /\ \A t \in Submitters \ {s} : gate'[t] = gate[t]
         /\ gate'[s].verdict = "cancelled"
         /\ gate'[s].intentPersisted = gate[s].intentPersisted
<1> DEFINE g == Cancelled(gate[s])
<1>1. gate[s] \in Gate
  BY DEF Inv, TypeOK
<1>2. /\ g \in Gate
      /\ g.verdict = "cancelled"
      /\ g.intentPersisted = gate[s].intentPersisted
  BY <1>1 DEF Cancelled, Gate, Verdicts
<1>3. Report(s, g)
  OBVIOUS
<1> HIDE DEF g
<1> QED
  BY <1>2, <1>3, Reported

\* What the report Attempted changes.
LEMMA AttemptedReport ==
  ASSUME Inv, NEW s \in Submitters, NEW v \in {"none"} \cup Verdicts, Report(s, Attempted(gate[s], v))
  PROVE  /\ gate' \in [Submitters -> Gate]
         /\ \A t \in Submitters \ {s} : gate'[t] = gate[t]
         /\ gate'[s].verdict = v
         /\ gate'[s].intentPersisted = gate[s].intentPersisted
<1> DEFINE g == Attempted(gate[s], v)
<1>1. gate[s] \in Gate
  BY DEF Inv, TypeOK
<1>2. /\ g \in Gate
      /\ g.verdict = v
      /\ g.intentPersisted = gate[s].intentPersisted
  BY <1>1 DEF Attempted, Gate, Verdicts
<1>3. Report(s, g)
  OBVIOUS
<1> HIDE DEF g
<1> QED
  BY <1>2, <1>3, Reported

\* What the report Unresolved changes.
LEMMA UnresolvedReport ==
  ASSUME Inv, NEW s \in Submitters, Report(s, Unresolved(gate[s]))
  PROVE  /\ gate' \in [Submitters -> Gate]
         /\ \A t \in Submitters \ {s} : gate'[t] = gate[t]
         /\ gate'[s].verdict = "unknown"
         /\ gate'[s].intentPersisted = gate[s].intentPersisted
<1> DEFINE g == Unresolved(gate[s])
<1>1. gate[s] \in Gate
  BY DEF Inv, TypeOK
<1>2. /\ g \in Gate
      /\ g.verdict = "unknown"
      /\ g.intentPersisted = gate[s].intentPersisted
  BY <1>1 DEF Unresolved, Gate, Verdicts
<1>3. Report(s, g)
  OBVIOUS
<1> HIDE DEF g
<1> QED
  BY <1>2, <1>3, Reported

\* What the report Unrecorded changes.
LEMMA UnrecordedReport ==
  ASSUME Inv, NEW s \in Submitters, Report(s, Unrecorded(gate[s]))
  PROVE  /\ gate' \in [Submitters -> Gate]
         /\ \A t \in Submitters \ {s} : gate'[t] = gate[t]
         /\ gate'[s].verdict = gate[s].verdict
         /\ gate'[s].intentPersisted = gate[s].intentPersisted
         /\ gate'[s].persistenceFailed
<1> DEFINE g == Unrecorded(gate[s])
<1>1. gate[s] \in Gate
  BY DEF Inv, TypeOK
<1>2. /\ g \in Gate
      /\ g.verdict = gate[s].verdict
      /\ g.intentPersisted = gate[s].intentPersisted
      /\ g.persistenceFailed
  BY <1>1 DEF Unrecorded, Gate, Verdicts
<1>3. Report(s, g)
  OBVIOUS
<1> HIDE DEF g
<1> QED
  BY <1>2, <1>3, Reported

\* A step moves its own program counter only.
LEMMA Went ==
  ASSUME Inv, NEW s \in Submitters, NEW from, NEW to \in Places, Go(s, from, to)
  PROVE  /\ pc[s] = from
         /\ pc' \in [Submitters -> Places]
         /\ pc'[s] = to
         /\ \A t \in Submitters \ {s} : pc'[t] = pc[t]
BY DEF Inv, TypeOK, Go

\* One more fault is still within the bound.
LEMMA FaultBounded ==
  ASSUME Inv, Fault
  PROVE  faults' \in 0 .. MaxFaults
BY SubmitAssumption DEF Inv, TypeOK, Fault

-----------------------------------------------------------------------------
(* Updates of the submissions directory.                                   *)

\* A record that is complete stays in every directory a power loss may leave.
LEMMA CompleteStays ==
  ASSUME Inv, NEW s \in Submitters, Appends(s), NEW p \in Paths, NEW r \in Record,
         r.complete, \A f \in snapshots : f[p] = r
  PROVE  \A f \in snapshots' : f[p] = r
<1>1. files[p] = r /\ files \in Directory
  BY DEF Inv, TypeOK
<1>2. r # Absent
  BY DEF Absent
<1>3. files'[p] = r
  BY <1>1, <1>2 DEF Appends, Directory
<1> QED
  BY <1>3 DEF Appends

\* A record in progress, or complete, is not disturbed by other submitters.
LEMMA OwnStays ==
  ASSUME Inv, NEW s \in Submitters, Appends(s), NEW p \in Paths,
         NEW t \in Submitters \ {s}, files[p].owner = t
  PROVE  files'[p] = files[p]
BY SubmitAssumption DEF Inv, TypeOK, Appends, Directory, Absent

\* A submitter's records do not come from other submitters.
LEMMA OwnAppear ==
  ASSUME Inv, NEW s \in Submitters, Appends(s), NEW p \in Paths,
         NEW t \in Submitters \ {s}, NEW f \in snapshots', f[p].owner = t
  PROVE  \E g \in snapshots : g[p] = f[p]
<1>1. CASE f \in snapshots
  BY <1>1
<1>2. CASE f = files' /\ files' # files
  BY <1>2 DEF Inv, TypeOK, Appends, Directory
<1>3. CASE f = files' /\ files' = files
  BY <1>3 DEF Inv
<1> QED
  BY <1>1, <1>2, <1>3 DEF Appends

\* Storing a record where there is none, or over one's own unfinished record,
\* appends.
LEMMA Stored ==
  ASSUME Inv, NEW s \in Submitters, NEW p \in Paths, NEW r \in Record, r.owner = s,
         files[p] = Absent \/ (files[p].owner = s /\ ~files[p].complete),
         Store(p, r)
  PROVE  /\ Appends(s)
         /\ files' \in Directory /\ snapshots' \subseteq Directory
         /\ files'[p] = r
         /\ \A f \in snapshots' : \A q \in Paths : f[q] = r \/ \E g \in snapshots : g[q] = f[q]
<1>1. /\ files' = [files EXCEPT ![p] = r] /\ snapshots' = snapshots \cup {files'}
      /\ files \in Directory /\ snapshots \subseteq Directory /\ files \in snapshots
  BY DEF Inv, TypeOK, Store
<1>2. files' \in Directory /\ files'[p] = r /\ \A q \in Paths \ {p} : files'[q] = files[q]
  BY <1>1 DEF Directory
<1>3. Appends(s)
  BY <1>1 DEF Appends
<1> QED
  BY <1>1, <1>2, <1>3

\* Storing an intent.
LEMMA IntentStored ==
  ASSUME Inv, NEW s \in Submitters, NEW b \in BOOLEAN,
         files[Intent(s)] = Absent \/ (files[Intent(s)].owner = s /\ ~files[Intent(s)].complete),
         Store(Intent(s), IntentOf(s, b)),
         \A f \in snapshots : \A p \in Paths : f[p].owner = s => f[p].says = "intent"
  PROVE  /\ Appends(s)
         /\ files' \in Directory /\ snapshots' \subseteq Directory
         /\ files'[Intent(s)] = IntentOf(s, b)
         /\ \A f \in snapshots' : \A p \in Paths : f[p].owner = s => f[p].says = "intent"
<1> DEFINE r == IntentOf(s, b)
<1>1. r \in Record /\ r.owner = s /\ r.says = "intent" /\ Store(Intent(s), r)
  BY Records
<1>2. Intent(s) \in Paths
  BY Names
<1> HIDE DEF r
<1>3. /\ Appends(s)
      /\ files' \in Directory /\ snapshots' \subseteq Directory
      /\ files'[Intent(s)] = r
      /\ \A f \in snapshots' : \A q \in Paths : f[q] = r \/ \E g \in snapshots : g[q] = f[q]
  BY <1>1, <1>2, Stored
<1>4. \A f \in snapshots' : \A p \in Paths : f[p].owner = s => f[p].says = "intent"
  BY <1>1, <1>3
<1> QED
  BY <1>3, <1>4 DEF r

\* Storing a result.
LEMMA ResultStored ==
  ASSUME Inv, NEW s \in Submitters, NEW b \in BOOLEAN, gate[s].verdict \in Verdicts,
         files[Result(s)] = Absent \/ (files[Result(s)].owner = s /\ ~files[Result(s)].complete),
         Store(Result(s), ResultOf(s, b))
  PROVE  /\ Appends(s)
         /\ files' \in Directory /\ snapshots' \subseteq Directory
         /\ files'[Result(s)] = ResultOf(s, b)
         /\ \A f \in snapshots' : \A p \in Paths :
              f[p].owner = s /\ f[p].says # "intent" => f[p].says = gate[s].verdict
<1> DEFINE r == ResultOf(s, b)
<1>1. r \in Record /\ r.owner = s /\ r.says = gate[s].verdict /\ Store(Result(s), r)
  BY Results
<1>2. Result(s) \in Paths
  BY Names
<1> HIDE DEF r
<1>3. /\ Appends(s)
      /\ files' \in Directory /\ snapshots' \subseteq Directory
      /\ files'[Result(s)] = r
      /\ \A f \in snapshots' : \A q \in Paths : f[q] = r \/ \E g \in snapshots : g[q] = f[q]
  BY <1>1, <1>2, Stored
<1>4. \A f \in snapshots : \A p \in Paths :
        f[p].owner = s /\ f[p].says # "intent" => f[p].says = gate[s].verdict
  BY DEF Inv, Good, RecordsLeft
<1>5. \A f \in snapshots' : \A p \in Paths :
        f[p].owner = s /\ f[p].says # "intent" => f[p].says = gate[s].verdict
  BY <1>1, <1>3, <1>4
<1> QED
  BY <1>3, <1>5 DEF r

\* Persist and no change append nothing.
LEMMA Synced ==
  ASSUME Inv, NEW s \in Submitters, Persist
  PROVE  /\ Appends(s)
         /\ files' = files /\ snapshots' = {files} /\ snapshots' \subseteq snapshots
BY DEF Inv, Persist, Appends

\* No change is a trivial way to append.
LEMMA Unchanged ==
  ASSUME Inv, NEW s \in Submitters, UNCHANGED <<files, snapshots>>
  PROVE  Appends(s)
BY DEF Inv, Appends

-----------------------------------------------------------------------------
\* A step of s leaves what Inv says of every other submitter.
LEMMA OthersStayGood ==
  ASSUME Inv, NEW s \in Submitters, Local(s), Appends(s),
         NEW t \in Submitters \ {s}
  PROVE  Good(t)'
<1> USE DEF Local
<1>0. /\ t \in Submitters /\ Good(t)
      /\ pc'[t] = pc[t] /\ seen'[t] = seen[t] /\ gate'[t] = gate[t]
      /\ launched'[t] = launched[t] /\ (t \in accepted' <=> t \in accepted)
  BY DEF Inv
<1>1. /\ Intent(t)' = Intent(t) /\ Result(t)' = Result(t)
      /\ Intent(t) \in Paths /\ Result(t) \in Paths
  BY Names DEF Intent, Result
<1>2. \A b \in BOOLEAN : ResultOf(t, b)' = ResultOf(t, b)
  BY <1>0 DEF ResultOf
<1>3. RecordsInProgress(t)'
  <2>1. \A p \in Paths : files[p].owner = t => files'[p] = files[p]
    BY OwnStays
  <2>2. \A b \in BOOLEAN : IntentOf(t, b).owner = t /\ ResultOf(t, b).owner = t
    BY DEF IntentOf, ResultOf
  <2> QED
    BY <1>0, <1>1, <1>2, <2>1, <2>2 DEF Good, RecordsInProgress, IntentOf
<1>4. RecordsLeft(t)'
  <2>1. \A f \in snapshots' : \A p \in Paths :
          f[p].owner = t => \E g \in snapshots : g[p] = f[p]
    BY OwnAppear
  <2> QED
    BY <1>0, <2>1 DEF Good, RecordsLeft
<1>5. IntentDurable(t)'
  <2>1. IntentOf(t, TRUE) \in Record /\ IntentOf(t, TRUE).complete
    BY <1>0, Records
  <2>2. CASE \A f \in snapshots : f[Intent(t)] = IntentOf(t, TRUE)
    <3>1. \A f \in snapshots' : f[Intent(t)] = IntentOf(t, TRUE)
      BY <1>1, <2>1, <2>2, CompleteStays
    <3> QED
      BY <1>1, <3>1 DEF IntentDurable, IntentOf
  <2>3. CASE ~(pc[t] \in AfterIntent \/ launched[t] # None)
    BY <1>0, <2>3 DEF IntentDurable
  <2> QED
    BY <1>0, <2>2, <2>3 DEF Good, IntentDurable
<1>6. ResultDurable(t)'
  <2>1. CASE /\ gate[t].verdict \in Verdicts
             /\ \A f \in snapshots : f[Result(t)] = ResultOf(t, TRUE)
    <3>1. ResultOf(t, TRUE) \in Record /\ ResultOf(t, TRUE).complete
      BY <1>0, <2>1, Results
    <3>2. \A f \in snapshots' : f[Result(t)] = ResultOf(t, TRUE)
      BY <1>1, <2>1, <3>1, CompleteStays
    <3> QED
      BY <1>1, <1>2, <3>2 DEF ResultDurable
  <2>2. CASE ~(pc[t] = "done" /\ gate[t].verdict # "none" /\ ~gate[t].persistenceFailed)
    BY <1>0, <2>2 DEF ResultDurable
  <2>3. gate[t].verdict \in {"none"} \cup Verdicts
    BY <1>0 DEF Inv, TypeOK, Gate
  <2> QED
    BY <1>0, <2>1, <2>2, <2>3 DEF Good, ResultDurable
<1>7. VerdictTruthful(t)'
  BY <1>0 DEF Good, VerdictTruthful
<1>8. EvidenceHeld(t)'
  BY <1>0 DEF Good, EvidenceHeld
<1> QED
  BY <1>3, <1>4, <1>5, <1>6, <1>7, <1>8 DEF Good

-----------------------------------------------------------------------------
(* Each action of a submitter.                                             *)

\* What Inv says of one submitter, and what no action changes.
LEMMA Self ==
  ASSUME Inv, NEW s \in Submitters
  PROVE  /\ TypeOK /\ files \in snapshots
         /\ RecordsInProgress(s) /\ RecordsLeft(s) /\ IntentDurable(s)
         /\ ResultDurable(s) /\ VerdictTruthful(s) /\ EvidenceHeld(s)
         /\ gate[s] \in Gate /\ gate[s].verdict \in {"none"} \cup Verdicts
         /\ Intent(s) \in Paths /\ Result(s) \in Paths
BY Names DEF Inv, Good, TypeOK, Gate

\* The names of the records depend on the request alone.
LEMMA SameNames ==
  ASSUME NEW s \in Submitters, request' = request
  PROVE  Intent(s)' = Intent(s) /\ Result(s)' = Result(s)
BY DEF Intent, Result

\* The actions that leave the directory alone, and what they have in common:
\* no record is begun, and a submitter that returns says what it leaves.
QuietStep(s) ==
  /\ UNCHANGED <<files, snapshots, request, job>>
  /\ Go(s, pc[s], pc'[s])
  /\ pc'[s] \in Places \ {"idle", "writeIntent", "syncIntent", "writeResult", "syncResult"}
  /\ pc'[s] \in BeforeClaim => pc[s] \in BeforeClaim
  /\ pc'[s] \in BeforeResult => pc[s] \in BeforeResult
  /\ pc'[s] \in AfterIntent \/ launched'[s] # None => pc[s] \in AfterIntent \/ launched[s] # None
  /\ gate' \in [Submitters -> Gate]
  /\ \A t \in Submitters \ {s} : gate'[t] = gate[t]
  /\ gate'[s].verdict = gate[s].verdict \/ pc[s] \in BeforeResult
  /\ pc'[s] = "done" =>
       /\ pc[s] \in BeforeClaim \/ gate'[s].intentPersisted \/ gate'[s].outcomeUnknown
       /\ gate'[s].verdict = "none" \/ gate'[s].persistenceFailed
  /\ seen' \in [Submitters -> Versions \cup {None}]
  /\ launched' \in [Submitters -> Versions \cup {None}]
  /\ accepted' \subseteq Submitters
  /\ \A t \in Submitters \ {s} :
       /\ seen'[t] = seen[t] /\ launched'[t] = launched[t]
       /\ t \in accepted' <=> t \in accepted
  /\ faults' \in 0 .. MaxFaults /\ changes' \in 0 .. MaxChanges

\* Such a step keeps types, the other submitters and the records.
LEMMA QuietKeeps ==
  ASSUME Inv, NEW s \in Submitters, QuietStep(s)
  PROVE  /\ TypeOK' /\ Local(s) /\ Appends(s)
         /\ RecordsInProgress(s)' /\ RecordsLeft(s)' /\ IntentDurable(s)' /\ ResultDurable(s)'
<1>1. pc' \in [Submitters -> Places] /\ \A t \in Submitters \ {s} : pc'[t] = pc[t]
  BY Went DEF QuietStep
<1>2. Intent(s)' = Intent(s) /\ Result(s)' = Result(s)
  BY SameNames DEF QuietStep
<1>3. TypeOK'
  BY <1>1, Self DEF QuietStep, TypeOK
<1>4. Local(s) /\ Appends(s)
  BY <1>1, Unchanged DEF QuietStep, Local
<1>5. RecordsInProgress(s)'
  BY DEF QuietStep, RecordsInProgress
<1>6. RecordsLeft(s)'
  <2>1. RecordsLeft(s) /\ VerdictTruthful(s)
    BY Self
  <2> SUFFICES ASSUME NEW f \in snapshots', NEW p \in Paths, f[p].owner = s
               PROVE  /\ pc'[s] \notin BeforeClaim
                      /\ pc'[s] = "done" => gate'[s].intentPersisted \/ gate'[s].outcomeUnknown
                      /\ f[p].says # "intent" => pc'[s] \notin BeforeResult /\ f[p].says = gate'[s].verdict
    BY Zenon DEF RecordsLeft
  <2>2. /\ pc[s] \notin BeforeClaim
        /\ pc[s] = "done" => gate[s].intentPersisted \/ gate[s].outcomeUnknown
        /\ f[p].says # "intent" => pc[s] \notin BeforeResult /\ f[p].says = gate[s].verdict
    BY <2>1 DEF QuietStep, RecordsLeft
  <2> QED
    BY <2>1, <2>2 DEF QuietStep
<1>7. IntentDurable(s)'
  BY <1>2, Self DEF QuietStep, IntentDurable, IntentOf
<1>8. ResultDurable(s)'
  BY DEF QuietStep, ResultDurable
<1> QED
  BY <1>3, <1>4, <1>5, <1>6, <1>7, <1>8

\* The check of the claims changes nothing but the program counter.
LEMMA CheckClaimsSafe ==
  ASSUME Inv, NEW s \in Submitters, CheckClaims(s)
  PROVE  Safe(s)
<1>1. /\ pc[s] = "idle"
      /\ pc'[s] \in {"inspect", "done"}
      /\ Go(s, pc[s], pc'[s])
  BY Went DEF CheckClaims, Go, TypeOK, Places, Running
<1>2. /\ gate' \in [Submitters -> Gate]
      /\ \A t \in Submitters \ {s} : gate'[t] = gate[t]
      /\ gate' = gate
  BY DEF CheckClaims, Go, Inv, TypeOK, Verdicts
<1>3. faults' \in 0 .. MaxFaults
  BY FaultBounded DEF CheckClaims, Inv, TypeOK
<1>4. QuietStep(s)
  BY <1>1, <1>2, <1>3, Self DEF CheckClaims, QuietStep, VerdictTruthful, TypeOK, Places,
     BeforeClaim, BeforeLaunch, BeforeResult, AfterIntent, Running
<1>5. VerdictTruthful(s)'
  BY <1>1, <1>2, Self DEF CheckClaims, VerdictTruthful, TypeOK, BeforeClaim, BeforeLaunch,
     BeforeResult, AfterIntent, Running
<1>6. EvidenceHeld(s)'
  BY <1>1, Self, SubmitAssumption DEF CheckClaims, Go, EvidenceHeld, TypeOK,
     VerdictTruthful, BeforeLaunch, BeforeClaim, Running
<1> QED
  BY <1>4, <1>5, <1>6, QuietKeeps DEF Safe, Good

\* The evidence is valid when the submitter goes on to its claim.
LEMMA InspectSafe ==
  ASSUME Inv, NEW s \in Submitters, Inspect(s)
  PROVE  Safe(s)
<1>1. /\ pc[s] = "inspect"
      /\ pc'[s] \in {"claim", "done"}
      /\ Go(s, pc[s], pc'[s])
  BY Went DEF Inspect, Go, TypeOK, Places, Running
<1>2. /\ gate' \in [Submitters -> Gate]
      /\ \A t \in Submitters \ {s} : gate'[t] = gate[t]
      /\ gate'[s].verdict = gate[s].verdict
      /\ gate'[s].intentPersisted = gate[s].intentPersisted
  BY <1>1, AllowedReport DEF Inspect, Go, Inv, TypeOK, Verdicts
<1>3. faults' \in 0 .. MaxFaults
  BY FaultBounded DEF Inspect, Inv, TypeOK
<1>4. QuietStep(s)
  BY <1>1, <1>2, <1>3, Self DEF Inspect, QuietStep, VerdictTruthful, TypeOK, Places,
     BeforeClaim, BeforeLaunch, BeforeResult, AfterIntent, Running
<1>5. VerdictTruthful(s)'
  BY <1>1, <1>2, Self DEF Inspect, VerdictTruthful, TypeOK, BeforeClaim, BeforeLaunch,
     BeforeResult, AfterIntent, Running
<1>6. EvidenceHeld(s)'
  BY <1>1, Self, SubmitAssumption DEF Inspect, Go, EvidenceHeld, TypeOK, VerdictTruthful,
     BeforeLaunch, BeforeClaim, Running
<1> QED
  BY <1>4, <1>5, <1>6, QuietKeeps DEF Safe, Good

\* An intent being written is there.
LEMMA IntentThere ==
  ASSUME Inv, NEW s \in Submitters, pc[s] \in {"writeIntent", "syncIntent"}
  PROVE  files[Intent(s)] # Absent
<1>1. RecordsInProgress(s)
  BY Self
<1>2. IntentOf(s, FALSE) # Absent /\ IntentOf(s, TRUE) # Absent
  BY Records
<1> QED
  BY <1>1, <1>2 DEF RecordsInProgress

\* Whatever is at the intent's name is reported as an unknown outcome.
LEMMA FailIntentSafe ==
  ASSUME Inv, NEW s \in Submitters, FailIntent(s)
  PROVE  Safe(s)
<1>1. /\ pc[s] \in {"claim", "writeIntent", "syncIntent"}
      /\ pc'[s] = "done"
      /\ Go(s, pc[s], pc'[s])
  BY Went DEF FailIntent, Go, TypeOK, Places, Running
<1>2. /\ gate' \in [Submitters -> Gate]
      /\ \A t \in Submitters \ {s} : gate'[t] = gate[t]
      /\ gate'[s].verdict = gate[s].verdict
      /\ gate'[s].intentPersisted = gate[s].intentPersisted
      /\ gate'[s].outcomeUnknown = (files[Intent(s)] # Absent)
  BY <1>1, RefusedReport DEF FailIntent, Go, Inv, TypeOK, Verdicts
<1>3. faults' \in 0 .. MaxFaults
  BY FaultBounded DEF FailIntent, Inv, TypeOK
<1>4. QuietStep(s)
  BY <1>1, <1>2, <1>3, Self, IntentThere DEF FailIntent, QuietStep, VerdictTruthful,
     TypeOK, Places, BeforeClaim, BeforeLaunch, BeforeResult, AfterIntent, Running
<1>5. VerdictTruthful(s)'
  BY <1>1, <1>2, Self DEF FailIntent, VerdictTruthful, TypeOK, BeforeClaim, BeforeLaunch,
     BeforeResult, AfterIntent, Running
<1>6. EvidenceHeld(s)'
  BY <1>1, Self, SubmitAssumption DEF FailIntent, Go, EvidenceHeld, TypeOK,
     VerdictTruthful, BeforeLaunch, BeforeClaim, Running
<1> QED
  BY <1>4, <1>5, <1>6, QuietKeeps DEF Safe, Good

\* The evidence is compared; a difference cancels the upload.
LEMMA RecheckSafe ==
  ASSUME Inv, NEW s \in Submitters, Recheck(s)
  PROVE  Safe(s)
<1>1. /\ pc[s] = "recheck"
      /\ pc'[s] \in {"launch", "createResult"}
      /\ Go(s, pc[s], pc'[s])
  BY Went DEF Recheck, Go, TypeOK, Places, Running
<1>2. /\ gate' \in [Submitters -> Gate]
      /\ \A t \in Submitters \ {s} : gate'[t] = gate[t]
      /\ (gate' = gate /\ pc'[s] = "launch") \/ (gate'[s].verdict = "cancelled" /\ pc'[s] = "createResult")
      /\ gate'[s].intentPersisted = gate[s].intentPersisted
  <2>1. CASE Report(s, Cancelled(gate[s])) /\ pc'[s] = "createResult"
    BY <2>1, CancelledReport
  <2>2. CASE gate' = gate /\ pc'[s] = "launch"
    BY <2>2 DEF Inv, TypeOK
  <2> QED
    BY <2>1, <2>2, Went DEF Recheck, Places, Running
<1>3. faults' \in 0 .. MaxFaults
  BY FaultBounded DEF Recheck, Inv, TypeOK
<1>4. QuietStep(s)
  BY <1>1, <1>2, <1>3, Self DEF Recheck, QuietStep, VerdictTruthful, TypeOK, Places,
     BeforeClaim, BeforeLaunch, BeforeResult, AfterIntent, Running
<1>5. VerdictTruthful(s)'
  BY <1>1, <1>2, Self DEF Recheck, VerdictTruthful, TypeOK, BeforeClaim, BeforeLaunch,
     BeforeResult, AfterIntent, Running
<1>6. EvidenceHeld(s)'
  BY <1>1, Self, SubmitAssumption DEF Recheck, Go, EvidenceHeld, TypeOK, VerdictTruthful,
     BeforeLaunch, BeforeClaim, Running
<1> QED
  BY <1>4, <1>5, <1>6, QuietKeeps DEF Safe, Good

\* Nothing is uploaded.
LEMMA SkipSafe ==
  ASSUME Inv, NEW s \in Submitters, Skip(s)
  PROVE  Safe(s)
<1>1. /\ pc[s] = "launch"
      /\ pc'[s] = "createResult"
      /\ Go(s, pc[s], pc'[s])
  BY Went DEF Skip, Go, TypeOK, Places, Running
<1>2. /\ gate' \in [Submitters -> Gate]
      /\ \A t \in Submitters \ {s} : gate'[t] = gate[t]
      /\ gate'[s].verdict = "skipped"
      /\ gate'[s].intentPersisted = gate[s].intentPersisted
  BY <1>1, AttemptedReport DEF Skip, Go, Inv, TypeOK, Verdicts
<1>3. faults' \in 0 .. MaxFaults
  BY FaultBounded DEF Skip, Inv, TypeOK
<1>4. QuietStep(s)
  BY <1>1, <1>2, <1>3, Self DEF Skip, QuietStep, VerdictTruthful, TypeOK, Places,
     BeforeClaim, BeforeLaunch, BeforeResult, AfterIntent, Running
<1>5. VerdictTruthful(s)'
  BY <1>1, <1>2, Self DEF Skip, VerdictTruthful, TypeOK, BeforeClaim, BeforeLaunch,
     BeforeResult, AfterIntent, Running
<1>6. EvidenceHeld(s)'
  BY <1>1, Self, SubmitAssumption DEF Skip, Go, EvidenceHeld, TypeOK, VerdictTruthful,
     BeforeLaunch, BeforeClaim, Running
<1> QED
  BY <1>4, <1>5, <1>6, QuietKeeps DEF Safe, Good

\* The upload starts on the evidence, under a durable intent.
LEMMA LaunchSafe ==
  ASSUME Inv, NEW s \in Submitters, Launch(s)
  PROVE  Safe(s)
<1>1. /\ pc[s] = "launch"
      /\ pc'[s] = "uploading"
      /\ Go(s, pc[s], pc'[s])
  BY Went DEF Launch, Go, TypeOK, Places, Running
<1>2. /\ gate' \in [Submitters -> Gate]
      /\ \A t \in Submitters \ {s} : gate'[t] = gate[t]
      /\ gate'[s].verdict = "none"
      /\ gate'[s].intentPersisted = gate[s].intentPersisted
  BY <1>1, AttemptedReport DEF Launch, Go, Inv, TypeOK, Verdicts
<1>3. faults' \in 0 .. MaxFaults
  BY FaultBounded DEF Launch, Inv, TypeOK
<1>4. QuietStep(s)
  BY <1>1, <1>2, <1>3, Self DEF Launch, QuietStep, VerdictTruthful, TypeOK, Places,
     BeforeClaim, BeforeLaunch, BeforeResult, AfterIntent, Running
<1>5. VerdictTruthful(s)'
  BY <1>1, <1>2, Self DEF Launch, VerdictTruthful, TypeOK, BeforeClaim, BeforeLaunch,
     BeforeResult, AfterIntent, Running
<1>6. EvidenceHeld(s)'
  BY <1>1, Self, SubmitAssumption DEF Launch, Go, EvidenceHeld, TypeOK, VerdictTruthful,
     BeforeLaunch, BeforeClaim, Running
<1> QED
  BY <1>4, <1>5, <1>6, QuietKeeps DEF Safe, Good

\* The verdict is submitted only when the service accepted.
LEMMA FinishSafe ==
  ASSUME Inv, NEW s \in Submitters, Finish(s)
  PROVE  Safe(s)
<1>1. /\ pc[s] = "uploading"
      /\ pc'[s] = "createResult"
      /\ Go(s, pc[s], pc'[s])
  BY Went DEF Finish, Go, TypeOK, Places, Running
<1>2. /\ gate' \in [Submitters -> Gate]
      /\ \A t \in Submitters \ {s} : gate'[t] = gate[t]
      /\ (gate'[s].verdict = "submitted" /\ s \in accepted) \/ gate'[s].verdict = "failed"
      /\ gate'[s].intentPersisted = gate[s].intentPersisted
  BY <1>1, AttemptedReport DEF Finish, Go, Inv, TypeOK, Verdicts
<1>3. faults' \in 0 .. MaxFaults
  BY FaultBounded DEF Finish, Inv, TypeOK
<1>4. QuietStep(s)
  BY <1>1, <1>2, <1>3, Self DEF Finish, QuietStep, VerdictTruthful, TypeOK, Places,
     BeforeClaim, BeforeLaunch, BeforeResult, AfterIntent, Running
<1>5. VerdictTruthful(s)'
  BY <1>1, <1>2, Self DEF Finish, VerdictTruthful, TypeOK, BeforeClaim, BeforeLaunch,
     BeforeResult, AfterIntent, Running
<1>6. EvidenceHeld(s)'
  BY <1>1, Self, SubmitAssumption DEF Finish, Go, EvidenceHeld, TypeOK, VerdictTruthful,
     BeforeLaunch, BeforeClaim, Running
<1> QED
  BY <1>4, <1>5, <1>6, QuietKeeps DEF Safe, Good

\* The outcome is unknown.
LEMMA FailUploadSafe ==
  ASSUME Inv, NEW s \in Submitters, FailUpload(s)
  PROVE  Safe(s)
<1>1. /\ pc[s] \in {"launch", "uploading"}
      /\ pc'[s] = "createResult"
      /\ Go(s, pc[s], pc'[s])
  BY Went DEF FailUpload, Go, TypeOK, Places, Running
<1>2. /\ gate' \in [Submitters -> Gate]
      /\ \A t \in Submitters \ {s} : gate'[t] = gate[t]
      /\ gate'[s].verdict = "unknown"
      /\ gate'[s].intentPersisted = gate[s].intentPersisted
  BY <1>1, UnresolvedReport DEF FailUpload, Go, Inv, TypeOK, Verdicts
<1>3. faults' \in 0 .. MaxFaults
  BY FaultBounded DEF FailUpload, Inv, TypeOK
<1>4. QuietStep(s)
  BY <1>1, <1>2, <1>3, Self DEF FailUpload, QuietStep, VerdictTruthful, TypeOK, Places,
     BeforeClaim, BeforeLaunch, BeforeResult, AfterIntent, Running
<1>5. VerdictTruthful(s)'
  BY <1>1, <1>2, Self DEF FailUpload, VerdictTruthful, TypeOK, BeforeClaim, BeforeLaunch,
     BeforeResult, AfterIntent, Running
<1>6. EvidenceHeld(s)'
  BY <1>1, Self, SubmitAssumption DEF FailUpload, Go, EvidenceHeld, TypeOK,
     VerdictTruthful, BeforeLaunch, BeforeClaim, Running
<1> QED
  BY <1>4, <1>5, <1>6, QuietKeeps DEF Safe, Good

\* The failure to persist is reported.
LEMMA FailResultSafe ==
  ASSUME Inv, NEW s \in Submitters, FailResult(s)
  PROVE  Safe(s)
<1>1. /\ pc[s] \in {"createResult", "writeResult", "syncResult"}
      /\ pc'[s] = "done"
      /\ Go(s, pc[s], pc'[s])
  BY Went DEF FailResult, Go, TypeOK, Places, Running
<1>2. /\ gate' \in [Submitters -> Gate]
      /\ \A t \in Submitters \ {s} : gate'[t] = gate[t]
      /\ gate'[s].verdict = gate[s].verdict
      /\ gate'[s].intentPersisted = gate[s].intentPersisted
      /\ gate'[s].persistenceFailed
  BY <1>1, UnrecordedReport DEF FailResult, Go, Inv, TypeOK, Verdicts
<1>3. faults' \in 0 .. MaxFaults
  BY FaultBounded DEF FailResult, Inv, TypeOK
<1>4. QuietStep(s)
  BY <1>1, <1>2, <1>3, Self DEF FailResult, QuietStep, VerdictTruthful, TypeOK, Places,
     BeforeClaim, BeforeLaunch, BeforeResult, AfterIntent, Running
<1>5. VerdictTruthful(s)'
  BY <1>1, <1>2, Self DEF FailResult, VerdictTruthful, TypeOK, BeforeClaim, BeforeLaunch,
     BeforeResult, AfterIntent, Running
<1>6. EvidenceHeld(s)'
  BY <1>1, Self, SubmitAssumption DEF FailResult, Go, EvidenceHeld, TypeOK,
     VerdictTruthful, BeforeLaunch, BeforeClaim, Running
<1> QED
  BY <1>4, <1>5, <1>6, QuietKeeps DEF Safe, Good

\* A dead process relies on nothing.
LEMMA CrashSafe ==
  ASSUME Inv, NEW s \in Submitters, Crash(s)
  PROVE  Safe(s)
<1>1. /\ pc[s] \in Running
      /\ pc'[s] = "dead"
      /\ Go(s, pc[s], pc'[s])
  BY Self DEF Crash, Go, TypeOK, Places, Running
<1>2. /\ gate' \in [Submitters -> Gate]
      /\ \A t \in Submitters \ {s} : gate'[t] = gate[t]
      /\ gate' = gate
  BY DEF Crash, Go, Inv, TypeOK, Verdicts
<1>3. faults' \in 0 .. MaxFaults
  BY FaultBounded DEF Crash, Inv, TypeOK
<1>4. QuietStep(s)
  BY <1>1, <1>2, <1>3, Self DEF Crash, QuietStep, VerdictTruthful, TypeOK, Places,
     BeforeClaim, BeforeLaunch, BeforeResult, AfterIntent, Running
<1>5. VerdictTruthful(s)'
  BY <1>1, <1>2, Self DEF Crash, VerdictTruthful, TypeOK, BeforeClaim, BeforeLaunch,
     BeforeResult, AfterIntent, Running
<1>6. EvidenceHeld(s)'
  BY <1>1, Self, SubmitAssumption DEF Crash, Go, EvidenceHeld, TypeOK, VerdictTruthful,
     BeforeLaunch, BeforeClaim, Running
<1> QED
  BY <1>4, <1>5, <1>6, QuietKeeps DEF Safe, Good

\* The service's acceptance only makes verdicts true.
LEMMA AcceptSafe ==
  ASSUME Inv, NEW s \in Submitters, Accept(s)
  PROVE  Safe(s)
<1>1. /\ UNCHANGED <<pc, request, seen, gate, files, snapshots, job, launched, faults, changes>>
      /\ accepted' = accepted \cup {s}
  BY DEF Accept
<1>2. TypeOK' /\ Local(s) /\ Appends(s)
  BY <1>1, Unchanged DEF Inv, TypeOK, Local
<1>3. Intent(s)' = Intent(s) /\ Result(s)' = Result(s)
  BY <1>1, SameNames
<1>4. RecordsInProgress(s)' /\ IntentDurable(s)' /\ ResultDurable(s)'
  BY <1>1, <1>3, Self DEF RecordsInProgress, IntentDurable, ResultDurable, IntentOf,
     ResultOf
<1>5. RecordsLeft(s)' /\ VerdictTruthful(s)' /\ EvidenceHeld(s)'
  BY <1>1, Self DEF RecordsLeft, VerdictTruthful, EvidenceHeld
<1> QED
  BY <1>2, <1>4, <1>5 DEF Safe, Good

\* What is common to the actions that write or sync a record.
WritingStep(s) ==
  /\ UNCHANGED <<request, job, seen, launched, accepted, faults, changes>>
  /\ Go(s, pc[s], pc'[s]) /\ pc'[s] \in Places
  /\ gate' \in [Submitters -> Gate]
  /\ \A t \in Submitters \ {s} : gate'[t] = gate[t]
  /\ gate'[s].verdict = gate[s].verdict
  /\ gate[s].intentPersisted => gate'[s].intentPersisted
  /\ files' \in Directory /\ snapshots' \subseteq Directory
  /\ Appends(s)

\* Such a step keeps the types and the other submitters' state.
LEMMA WritingLocal ==
  ASSUME Inv, NEW s \in Submitters, WritingStep(s)
  PROVE  /\ TypeOK' /\ Local(s)
         /\ pc' \in [Submitters -> Places]
         /\ Intent(s)' = Intent(s) /\ Result(s)' = Result(s)
         /\ Intent(s) \in Paths /\ Result(s) \in Paths
<1>1. pc' \in [Submitters -> Places] /\ \A t \in Submitters \ {s} : pc'[t] = pc[t]
  BY Went DEF WritingStep
<1>2. Intent(s)' = Intent(s) /\ Result(s)' = Result(s)
      /\ Intent(s) \in Paths /\ Result(s) \in Paths
  BY SameNames, Names DEF WritingStep
<1>3. TypeOK'
  BY <1>1, Self DEF TypeOK, WritingStep
<1>4. Local(s)
  BY <1>1 DEF Local, WritingStep
<1> QED
  BY <1>1, <1>2, <1>3, <1>4

\* It keeps what is durable of its own submitter.
LEMMA WritingKeeps ==
  ASSUME Inv, NEW s \in Submitters, WritingStep(s)
  PROVE  pc[s] \in AfterIntent \/ launched[s] # None => IntentDurable(s)'
<1>1. Intent(s)' = Intent(s) /\ Intent(s) \in Paths
  BY WritingLocal
<1>2. IntentOf(s, TRUE) \in Record /\ IntentOf(s, TRUE).complete /\ Appends(s)
  BY Records DEF WritingStep
<1>3. ASSUME pc[s] \in AfterIntent \/ launched[s] # None
      PROVE  IntentDurable(s)'
  <2>1. \A f \in snapshots : f[Intent(s)] = IntentOf(s, TRUE)
    BY <1>3, Self DEF IntentDurable
  <2>2. \A f \in snapshots' : f[Intent(s)] = IntentOf(s, TRUE)
    BY <1>1, <1>2, <2>1, CompleteStays
  <2> QED
    BY <1>1, <2>2 DEF IntentDurable, IntentOf
<1> QED
  BY <1>3

\* The exclusive creation of the intent: the record is the submitter's first.
LEMMA ClaimSafe ==
  ASSUME Inv, NEW s \in Submitters, Claim(s)
  PROVE  Safe(s)
<1>1. CASE files[Intent(s)] # Absent
  <2>1. /\ Go(s, "claim", "done") /\ Report(s, Refused(gate[s], FALSE))
        /\ UNCHANGED <<files, snapshots, request, seen, job, launched, accepted, faults, changes>>
    BY <1>1 DEF Claim
  <2>2. pc[s] = "claim" /\ pc'[s] = "done"
    BY <2>1, Went DEF Places
  <2>3. WritingStep(s)
    BY <2>1, <2>2, RefusedReport, Unchanged, Self DEF WritingStep, TypeOK, Places
  <2>4. \A f \in snapshots : \A p \in Paths : f[p].owner # s
    BY <2>2, Self DEF RecordsLeft, BeforeClaim
  <2>5. launched'[s] = None /\ gate'[s].verdict = "none"
    BY <2>1, <2>2, <2>3, Self DEF WritingStep, VerdictTruthful, BeforeClaim, BeforeLaunch,
       BeforeResult
  <2>6. Good(s)'
    BY <2>1, <2>2, <2>4, <2>5, SubmitAssumption DEF Good, RecordsInProgress, RecordsLeft,
       IntentDurable,
       ResultDurable, VerdictTruthful, EvidenceHeld, BeforeClaim, BeforeLaunch, BeforeResult, AfterIntent
  <2> QED
    BY <2>3, <2>6, WritingLocal DEF Safe, WritingStep
<1>2. CASE files[Intent(s)] = Absent
  <2>1. /\ Go(s, "claim", "writeIntent") /\ Store(Intent(s), IntentOf(s, FALSE))
        /\ UNCHANGED <<gate, request, seen, job, launched, accepted, faults, changes>>
    BY <1>2, Records DEF Claim
  <2>2. pc[s] = "claim" /\ pc'[s] = "writeIntent"
    BY <2>1, Went DEF Places, Running
  <2>3. \A f \in snapshots : \A p \in Paths : f[p].owner # s
    BY <2>2, Self DEF RecordsLeft, BeforeClaim
  <2>4. /\ Appends(s) /\ files' \in Directory /\ snapshots' \subseteq Directory
        /\ files'[Intent(s)] = IntentOf(s, FALSE)
        /\ \A f \in snapshots' : \A p \in Paths : f[p].owner = s => f[p].says = "intent"
    BY <1>2, <2>1, <2>3, IntentStored
  <2>5. WritingStep(s)
    BY <2>1, <2>2, <2>4, Self DEF WritingStep, TypeOK, Places, Running
  <2>6. Intent(s)' = Intent(s) /\ IntentOf(s, FALSE)' = IntentOf(s, FALSE)
    BY <2>5, WritingLocal DEF IntentOf
  <2>7. RecordsInProgress(s)' /\ RecordsLeft(s)'
    BY <2>2, <2>6, <2>4 DEF RecordsInProgress, RecordsLeft, BeforeClaim
  <2>8. launched'[s] = None /\ gate'[s].verdict = "none"
    BY <2>1, <2>2, Self DEF VerdictTruthful, BeforeClaim, BeforeLaunch, BeforeResult
  <2>9. IntentDurable(s)' /\ ResultDurable(s)' /\ VerdictTruthful(s)'
    BY <2>2, <2>8 DEF IntentDurable, ResultDurable, VerdictTruthful, AfterIntent
  <2>10. EvidenceHeld(s)'
    BY <2>1, <2>2, <2>8, Self DEF EvidenceHeld
  <2> QED
    BY <2>5, <2>7, <2>9, <2>10, WritingLocal DEF Safe, WritingStep, Good
<1> QED
  BY <1>1, <1>2

\* The bytes of the intent.
LEMMA WriteIntentSafe ==
  ASSUME Inv, NEW s \in Submitters, WriteIntent(s)
  PROVE  Safe(s)
<1>1. /\ Go(s, "writeIntent", "syncIntent") /\ Store(Intent(s), IntentOf(s, TRUE))
      /\ UNCHANGED <<gate, request, seen, job, launched, accepted, faults, changes>>
  BY DEF WriteIntent
<1>2. pc[s] = "writeIntent" /\ pc'[s] = "syncIntent"
  BY <1>1, Went DEF Places, Running
<1>3. files[Intent(s)].owner = s /\ ~files[Intent(s)].complete
  BY <1>2, Self, Records DEF RecordsInProgress
<1>4. \A f \in snapshots : \A p \in Paths : f[p].owner = s => f[p].says = "intent"
  BY <1>2, Self DEF RecordsLeft, BeforeLaunch, BeforeResult
<1>5. /\ Appends(s) /\ files' \in Directory /\ snapshots' \subseteq Directory
      /\ files'[Intent(s)] = IntentOf(s, TRUE)
      /\ \A f \in snapshots' : \A p \in Paths : f[p].owner = s => f[p].says = "intent"
  BY <1>1, <1>3, <1>4, IntentStored
<1>6. WritingStep(s)
  BY <1>1, <1>2, <1>5, Self DEF WritingStep, TypeOK, Places, Running
<1>7. Intent(s)' = Intent(s) /\ IntentOf(s, TRUE)' = IntentOf(s, TRUE)
  BY <1>6, WritingLocal DEF IntentOf
<1>8. RecordsInProgress(s)' /\ RecordsLeft(s)'
  BY <1>2, <1>5, <1>7 DEF RecordsInProgress, RecordsLeft, BeforeClaim
<1>9. launched'[s] = None /\ gate'[s].verdict = "none"
  BY <1>1, <1>2, Self DEF VerdictTruthful, BeforeLaunch, BeforeResult
<1>10. IntentDurable(s)' /\ ResultDurable(s)' /\ VerdictTruthful(s)'
  BY <1>2, <1>9 DEF IntentDurable, ResultDurable, VerdictTruthful, AfterIntent
<1>11. EvidenceHeld(s)'
  BY <1>1, <1>2, <1>9, Self DEF EvidenceHeld
<1> QED
  BY <1>6, <1>8, <1>10, <1>11, WritingLocal DEF Safe, WritingStep, Good

\* The sync after which the intent is in every directory that may survive.
LEMMA SyncIntentSafe ==
  ASSUME Inv, NEW s \in Submitters, SyncIntent(s)
  PROVE  Safe(s)
<1>1. /\ Go(s, "syncIntent", IF seen[s] = None THEN "launch" ELSE "recheck") /\ Persist
      /\ Report(s, Persisted(gate[s]))
      /\ UNCHANGED <<request, seen, job, launched, accepted, faults, changes>>
  BY DEF SyncIntent
<1>2. /\ pc[s] = "syncIntent" /\ pc'[s] = (IF seen[s] = None THEN "launch" ELSE "recheck")
      /\ pc'[s] \in {"launch", "recheck"}
  BY <1>1, Went DEF Places, Running
<1>3. /\ Appends(s) /\ files' = files /\ snapshots' = {files} /\ snapshots' \subseteq snapshots
  BY <1>1, Synced
<1>4. WritingStep(s)
  BY <1>1, <1>2, <1>3, PersistedReport, Self DEF WritingStep, TypeOK, Places, Running
<1>5. Intent(s)' = Intent(s) /\ IntentOf(s, TRUE)' = IntentOf(s, TRUE)
  BY <1>4, WritingLocal DEF IntentOf
<1>6. \A f \in snapshots' : \A p \in Paths : f[p].owner = s => f[p].says = "intent"
  BY <1>2, <1>3, Self DEF RecordsLeft, BeforeLaunch, BeforeResult
<1>7. RecordsInProgress(s)' /\ RecordsLeft(s)'
  BY <1>2, <1>6 DEF RecordsInProgress, RecordsLeft, BeforeClaim
<1>8. launched'[s] = None /\ gate'[s].verdict = "none" /\ gate'[s].intentPersisted
  BY <1>1, <1>2, <1>4, PersistedReport, Self DEF WritingStep, VerdictTruthful,
     BeforeLaunch, BeforeResult
<1>9. files[Intent(s)] = IntentOf(s, TRUE)
  BY <1>2, Self DEF RecordsInProgress
<1>10. IntentDurable(s)' /\ ResultDurable(s)' /\ VerdictTruthful(s)'
  BY <1>2, <1>3, <1>5, <1>8, <1>9 DEF IntentDurable, ResultDurable, VerdictTruthful,
     AfterIntent
<1>11. EvidenceHeld(s)'
  BY <1>1, <1>2, <1>8, Self, SubmitAssumption DEF EvidenceHeld
<1> QED
  BY <1>4, <1>7, <1>10, <1>11, WritingLocal DEF Safe, WritingStep, Good

\* The exclusive creation of the result, or a persistence failure.
LEMMA CreateResultSafe ==
  ASSUME Inv, NEW s \in Submitters, CreateResult(s)
  PROVE  Safe(s)
<1>0. gate[s].verdict \in Verdicts
  <2>1. pc[s] = "createResult"
    BY DEF CreateResult, Go
  <2> QED
    BY <2>1, Self DEF VerdictTruthful
<1>1. CASE files[Result(s)] # Absent
  <2>1. /\ Go(s, "createResult", "done") /\ Report(s, Unrecorded(gate[s]))
        /\ UNCHANGED <<files, snapshots, request, seen, job, launched, accepted, faults, changes>>
    BY <1>1 DEF CreateResult
  <2>2. pc[s] = "createResult" /\ pc'[s] = "done"
    BY <2>1, Went DEF Places
  <2>3. WritingStep(s) /\ gate'[s].persistenceFailed
    BY <2>1, <2>2, UnrecordedReport, Unchanged, Self DEF WritingStep, TypeOK, Places
  <2>4. gate'[s].intentPersisted /\ gate'[s].verdict = gate[s].verdict
    BY <2>2, <2>3, Self DEF WritingStep, VerdictTruthful, AfterIntent
  <2>5. RecordsLeft(s)'
    BY <2>1, <2>2, <2>4, Self DEF RecordsLeft, BeforeClaim, BeforeLaunch, BeforeResult
  <2>6. RecordsInProgress(s)' /\ ResultDurable(s)' /\ EvidenceHeld(s)'
    BY <2>1, <2>2, <2>3, Self DEF RecordsInProgress, ResultDurable, EvidenceHeld
  <2>7. VerdictTruthful(s)'
    BY <2>1, <2>2, <2>4, Self DEF VerdictTruthful, BeforeClaim, BeforeLaunch,
       BeforeResult, AfterIntent
  <2>8. IntentDurable(s)'
    BY <2>2, <2>3, WritingKeeps DEF AfterIntent
  <2> QED
    BY <2>3, <2>5, <2>6, <2>7, <2>8, WritingLocal DEF Safe, WritingStep, Good
<1>2. CASE files[Result(s)] = Absent
  <2>1. /\ Go(s, "createResult", "writeResult") /\ Store(Result(s), ResultOf(s, FALSE))
        /\ UNCHANGED <<gate, request, seen, job, launched, accepted, faults, changes>>
    BY <1>2 DEF CreateResult
  <2>2. pc[s] = "createResult" /\ pc'[s] = "writeResult"
    BY <2>1, Went DEF Places, Running
  <2>3. /\ Appends(s) /\ files' \in Directory /\ snapshots' \subseteq Directory
        /\ files'[Result(s)] = ResultOf(s, FALSE)
        /\ \A f \in snapshots' : \A p \in Paths :
             f[p].owner = s /\ f[p].says # "intent" => f[p].says = gate[s].verdict
    BY <1>0, <1>2, <2>1, ResultStored
  <2>4. WritingStep(s)
    BY <2>1, <2>2, <2>3, Self DEF WritingStep, TypeOK, Places, Running
  <2>5. Result(s)' = Result(s) /\ ResultOf(s, FALSE)' = ResultOf(s, FALSE)
    BY <2>1, <2>4, WritingLocal DEF ResultOf
  <2>6. RecordsInProgress(s)' /\ RecordsLeft(s)'
    BY <2>1, <2>2, <2>3, <2>5 DEF RecordsInProgress, RecordsLeft, BeforeClaim,
       BeforeLaunch, BeforeResult
  <2>7. ResultDurable(s)' /\ EvidenceHeld(s)'
    BY <2>1, <2>2, Self DEF ResultDurable, EvidenceHeld
  <2>8. VerdictTruthful(s)'
    BY <2>1, <2>2, Self DEF VerdictTruthful, BeforeClaim, BeforeLaunch, BeforeResult,
       AfterIntent
  <2>9. IntentDurable(s)'
    BY <2>2, <2>4, WritingKeeps DEF AfterIntent
  <2> QED
    BY <2>4, <2>6, <2>7, <2>8, <2>9, WritingLocal DEF Safe, WritingStep, Good
<1> QED
  BY <1>1, <1>2

\* The bytes of the result.
LEMMA WriteResultSafe ==
  ASSUME Inv, NEW s \in Submitters, WriteResult(s)
  PROVE  Safe(s)
<1>1. /\ Go(s, "writeResult", "syncResult") /\ Store(Result(s), ResultOf(s, TRUE))
      /\ UNCHANGED <<gate, request, seen, job, launched, accepted, faults, changes>>
  BY DEF WriteResult
<1>2. pc[s] = "writeResult" /\ pc'[s] = "syncResult"
  BY <1>1, Went DEF Places, Running
<1>3. gate[s].verdict \in Verdicts
  BY <1>2, Self DEF VerdictTruthful
<1>4. files[Result(s)].owner = s /\ ~files[Result(s)].complete
  BY <1>2, <1>3, Self, Results DEF RecordsInProgress
<1>5. /\ Appends(s) /\ files' \in Directory /\ snapshots' \subseteq Directory
      /\ files'[Result(s)] = ResultOf(s, TRUE)
      /\ \A f \in snapshots' : \A p \in Paths :
           f[p].owner = s /\ f[p].says # "intent" => f[p].says = gate[s].verdict
  BY <1>1, <1>3, <1>4, ResultStored
<1>6. WritingStep(s)
  BY <1>1, <1>2, <1>5, Self DEF WritingStep, TypeOK, Places, Running
<1>7. Result(s)' = Result(s) /\ ResultOf(s, TRUE)' = ResultOf(s, TRUE)
  BY <1>1, <1>6, WritingLocal DEF ResultOf
<1>8. RecordsInProgress(s)' /\ RecordsLeft(s)'
  BY <1>1, <1>2, <1>5, <1>7 DEF RecordsInProgress, RecordsLeft, BeforeClaim, BeforeLaunch,
     BeforeResult
<1>9. ResultDurable(s)' /\ EvidenceHeld(s)'
  BY <1>1, <1>2, Self DEF ResultDurable, EvidenceHeld
<1>10. VerdictTruthful(s)'
  BY <1>1, <1>2, Self DEF VerdictTruthful, BeforeClaim, BeforeLaunch, BeforeResult,
     AfterIntent
<1>11. IntentDurable(s)'
  BY <1>2, <1>6, WritingKeeps DEF AfterIntent
<1> QED
  BY <1>6, <1>8, <1>9, <1>10, <1>11, WritingLocal DEF Safe, WritingStep, Good

\* The sync after which the result is in every directory that may survive.
LEMMA SyncResultSafe ==
  ASSUME Inv, NEW s \in Submitters, SyncResult(s)
  PROVE  Safe(s)
<1>1. /\ Go(s, "syncResult", "done") /\ Persist
      /\ UNCHANGED <<gate, request, seen, job, launched, accepted, faults, changes>>
  BY DEF SyncResult
<1>2. pc[s] = "syncResult" /\ pc'[s] = "done"
  BY <1>1, Went DEF Places
<1>3. /\ Appends(s) /\ files' = files /\ snapshots' = {files} /\ snapshots' \subseteq snapshots
  BY <1>1, Synced
<1>4. WritingStep(s)
  BY <1>1, <1>2, <1>3, Self DEF WritingStep, TypeOK, Places
<1>5. Result(s)' = Result(s) /\ ResultOf(s, TRUE)' = ResultOf(s, TRUE)
  BY <1>1, <1>4, WritingLocal DEF ResultOf
<1>6. files[Result(s)] = ResultOf(s, TRUE)
  BY <1>2, Self DEF RecordsInProgress
<1>7. gate[s].intentPersisted /\ gate'[s] = gate[s]
  BY <1>1, <1>2, Self DEF VerdictTruthful, AfterIntent
<1>8. RecordsLeft(s)'
  BY <1>2, <1>3, <1>7, Self DEF RecordsLeft, BeforeClaim, BeforeLaunch, BeforeResult
<1>9. RecordsInProgress(s)' /\ ResultDurable(s)' /\ EvidenceHeld(s)'
  BY <1>1, <1>2, <1>3, <1>5, <1>6, Self DEF RecordsInProgress, ResultDurable, EvidenceHeld
<1>10. VerdictTruthful(s)'
  BY <1>1, <1>2, <1>7, Self DEF VerdictTruthful, BeforeClaim, BeforeLaunch, BeforeResult,
     AfterIntent
<1>11. IntentDurable(s)'
  BY <1>2, <1>4, WritingKeeps DEF AfterIntent
<1> QED
  BY <1>4, <1>8, <1>9, <1>10, <1>11, WritingLocal DEF Safe, WritingStep, Good

-----------------------------------------------------------------------------
(* The environment, and the theorems.                                      *)

\* A power loss leaves one of the surviving directories and no running submitter.
LEMMA PowerLossKeeps ==
  ASSUME Inv, PowerLoss
  PROVE  Inv'
<1>1. /\ files' \in snapshots /\ snapshots' = {files'}
      /\ UNCHANGED <<request, seen, gate, job, launched, accepted, changes>>
  BY DEF PowerLoss
<1>2. /\ pc' \in [Submitters -> Places]
      /\ \A s \in Submitters : pc'[s] = IF pc[s] \in Running THEN "dead" ELSE pc[s]
  BY DEF PowerLoss, Inv, TypeOK, Places
<1>3. TypeOK'
  BY <1>1, <1>2, FaultBounded DEF PowerLoss, Inv, TypeOK
<1>4. ASSUME NEW s \in Submitters
      PROVE  Good(s)'
  <2>1. Intent(s)' = Intent(s) /\ Result(s)' = Result(s)
    BY <1>1, SameNames
  <2>2. (pc'[s] = pc[s] /\ pc[s] \notin Running) \/ pc'[s] = "dead"
    BY <1>2
  <2>3. RecordsInProgress(s)' /\ EvidenceHeld(s)'
    BY <1>1, <2>2, Self DEF RecordsInProgress, EvidenceHeld, Running
  <2>4. RecordsLeft(s)'
    BY <1>1, <2>2, Self DEF RecordsLeft, BeforeClaim, BeforeLaunch, BeforeResult, Running
  <2>5. IntentDurable(s)'
    BY <1>1, <2>1, <2>2, Self DEF IntentDurable, IntentOf, AfterIntent, Running
  <2>6. ResultDurable(s)'
    BY <1>1, <2>1, <2>2, Self DEF ResultDurable, ResultOf
  <2>7. VerdictTruthful(s)'
    BY <1>1, <2>2, Self DEF VerdictTruthful, BeforeClaim, BeforeLaunch, BeforeResult,
       AfterIntent, Running
  <2> QED
    BY <2>3, <2>4, <2>5, <2>6, <2>7 DEF Good
<1> QED
  BY <1>1, <1>3, <1>4 DEF Inv

\* A change of the job meets no submitter that relies on it.
LEMMA JobChangesKeeps ==
  ASSUME Inv, JobChanges
  PROVE  Inv'
<1>1. /\ UNCHANGED <<pc, request, seen, gate, files, snapshots, launched, accepted, faults>>
      /\ \A s \in Submitters : pc[s] \notin {"launch", "uploading"}
  BY DEF JobChanges
<1>2. TypeOK'
  BY <1>1, SubmitAssumption DEF JobChanges, Inv, TypeOK
<1>3. ASSUME NEW s \in Submitters
      PROVE  Good(s)'
  <2>1. Intent(s)' = Intent(s) /\ Result(s)' = Result(s)
    BY <1>1, SameNames
  <2>2. RecordsInProgress(s)' /\ IntentDurable(s)' /\ ResultDurable(s)'
    BY <1>1, <2>1, Self DEF RecordsInProgress, IntentDurable, ResultDurable, IntentOf,
       ResultOf
  <2>3. RecordsLeft(s)' /\ VerdictTruthful(s)' /\ EvidenceHeld(s)'
    BY <1>1, Self DEF RecordsLeft, VerdictTruthful, EvidenceHeld
  <2> QED
    BY <2>2, <2>3 DEF Good
<1> QED
  BY <1>1, <1>2, <1>3 DEF Inv

\* Each action of a submitter is safe.
LEMMA StepSafe ==
  ASSUME Inv, NEW s \in Submitters, SubmitterStep(s)
  PROVE  Safe(s)
BY CheckClaimsSafe, InspectSafe, ClaimSafe, WriteIntentSafe, SyncIntentSafe, FailIntentSafe,
   RecheckSafe, SkipSafe, LaunchSafe, AcceptSafe, FinishSafe, FailUploadSafe, CreateResultSafe,
   WriteResultSafe, SyncResultSafe, FailResultSafe, CrashSafe DEF SubmitterStep

\* Initially there is no record and no submitter has moved.
LEMMA InitInv ==
  Init => Inv
<1> SUFFICES ASSUME Init PROVE Inv
  OBVIOUS
<1>1. TypeOK
  BY SubmitAssumption DEF Init, TypeOK, Places, Gate, Directory
<1>2. ASSUME NEW s \in Submitters
      PROVE  Good(s)
  <2>1. /\ pc[s] = "idle" /\ launched[s] = None /\ gate[s].verdict = "none"
        /\ \A f \in snapshots : \A p \in Paths : f[p] = Absent
    BY DEF Init
  <2>2. Absent.owner # s
    BY SubmitAssumption DEF Absent
  <2> QED
    BY <2>1, <2>2 DEF Good, RecordsInProgress, RecordsLeft, IntentDurable, ResultDurable,
       VerdictTruthful, EvidenceHeld, BeforeClaim, BeforeLaunch, BeforeResult, AfterIntent
<1> QED
  BY <1>1, <1>2 DEF Inv, Init

\* Inv is kept by every step.
LEMMA NextInv ==
  Inv /\ [Next]_vars => Inv'
<1> SUFFICES ASSUME Inv, [Next]_vars PROVE Inv'
  OBVIOUS
<1>1. ASSUME NEW s \in Submitters, SubmitterStep(s)
      PROVE  Inv'
  <2>1. TypeOK' /\ Local(s) /\ Appends(s) /\ Good(s)'
    BY <1>1, StepSafe DEF Safe
  <2>2. \A t \in Submitters \ {s} : Good(t)'
    BY <2>1, OthersStayGood
  <2>3. files' \in snapshots'
    BY <2>1 DEF Appends
  <2> QED
    BY <2>1, <2>2, <2>3 DEF Inv
<1>2. CASE UNCHANGED vars
  <2>1. ASSUME NEW s \in Submitters
        PROVE  Good(s)'
    <3>1. Intent(s)' = Intent(s) /\ Result(s)' = Result(s)
      BY <1>2, SameNames DEF vars
    <3>2. RecordsInProgress(s)' /\ IntentDurable(s)' /\ ResultDurable(s)'
      BY <1>2, <3>1, Self DEF vars, RecordsInProgress, IntentDurable, ResultDurable,
         IntentOf, ResultOf
    <3>3. RecordsLeft(s)' /\ VerdictTruthful(s)' /\ EvidenceHeld(s)'
      BY <1>2, Self DEF vars, RecordsLeft, VerdictTruthful, EvidenceHeld
    <3> QED
      BY <3>2, <3>3 DEF Good
  <2> QED
    BY <1>2, <2>1 DEF vars, Inv, TypeOK
<1>3. (\E s \in Submitters : SubmitterStep(s)) \/ PowerLoss \/ JobChanges \/ UNCHANGED vars
  BY DEF Next, SubmitterStep
<1> QED
  BY <1>1, <1>2, <1>3, PowerLossKeeps, JobChangesKeeps

\* Inv, with the types it includes, holds in every reachable state.
THEOREM InvHolds == Spec => []Inv
<1>1. Init => Inv
  BY InitInv
<1>2. Inv /\ [Next]_vars => Inv'
  BY NextInv
<1> QED
  BY <1>1, <1>2, PTL DEF Spec

\* An upload, once started, has its intent on disk whatever happens.
THEOREM IntentComesFirst == Spec => []UploadHasDurableIntent
<1>1. Inv => UploadHasDurableIntent
  BY DEF Inv, Good, IntentDurable, UploadHasDurableIntent
<1> QED
  BY <1>1, InvHolds, PTL

\* Two uploads of one campaign would both own its only intent.
THEOREM UploadsOnce == Spec => []AtMostOneUpload
<1>1. ASSUME Inv, NEW s \in Submitters, NEW t \in Submitters, s # t,
             launched[s] # None, launched[t] # None, request[s].once, request[t].once
      PROVE  request[s].campaign # request[t].campaign
  <2>1. files[Intent(s)] = IntentOf(s, TRUE) /\ files[Intent(t)] = IntentOf(t, TRUE)
    BY <1>1 DEF Inv, Good, IntentDurable
  <2>2. Intent(s) = IntentPath[request[s].campaign] /\ Intent(t) = IntentPath[request[t].campaign]
    BY <1>1 DEF Intent
  <2>3. IntentOf(s, TRUE).owner = s /\ IntentOf(t, TRUE).owner = t
    BY DEF IntentOf
  <2> QED
    BY <1>1, <2>1, <2>2, <2>3
<1>2. Inv => AtMostOneUpload
  BY <1>1 DEF AtMostOneUpload
<1> QED
  BY <1>2, InvHolds, PTL

\* A submitter that reports neither a durable claim nor an unknown outcome left
\* nothing behind.
THEOREM RefusalIsQuiet == Spec => []QuietRefusalLeavesNoClaim
<1>1. Inv => QuietRefusalLeavesNoClaim
  BY DEF Inv, Good, RecordsLeft, VerdictTruthful, QuietRefusalLeavesNoClaim
<1> QED
  BY <1>1, InvHolds, PTL

\* No record that a power loss may leave says of a submission what did not
\* happen to it.
THEOREM RecordsAreTrue == Spec => []RecordsTellTheTruth
<1>1. ASSUME Inv, NEW f \in snapshots, NEW p \in Paths
      PROVE  /\ f[p].says = "submitted" => f[p].owner \in accepted
             /\ f[p].says \in {"skipped", "cancelled"} => launched[f[p].owner] = None
  <2>1. f[p] = Absent \/ f[p].owner \in Submitters
    BY <1>1 DEF Inv, TypeOK, Directory, Record
  <2>2. Absent.says = "nothing"
    BY DEF Absent
  <2>3. ASSUME f[p].owner \in Submitters
        PROVE  f[p].says # "intent" => f[p].says = gate[f[p].owner].verdict
    BY <1>1, <2>3 DEF Inv, Good, RecordsLeft
  <2>4. ASSUME f[p].owner \in Submitters
        PROVE  VerdictTruthful(f[p].owner)
    BY <1>1, <2>4 DEF Inv, Good
  <2> QED
    BY <2>1, <2>2, <2>3, <2>4 DEF VerdictTruthful
<1>2. Inv => RecordsTellTheTruth
  BY <1>1 DEF RecordsTellTheTruth
<1> QED
  BY <1>2, InvHolds, PTL

\* The verdict a caller was given is the one that is found after a power loss.
THEOREM VerdictsAreDurable == Spec => []ReturnedVerdictIsDurable
<1>1. Inv => ReturnedVerdictIsDurable
  BY DEF Inv, Good, ResultDurable, ReturnedVerdictIsDurable
<1> QED
  BY <1>1, InvHolds, PTL

\* What is uploaded under the integrity scan is what was validated.
THEOREM UploadsTheEvidence == Spec => []UploadedAsValidated
<1>1. Inv => UploadedAsValidated
  BY DEF Inv, Good, EvidenceHeld, UploadedAsValidated
<1> QED
  BY <1>1, InvHolds, PTL
=============================================================================

---------------------------- MODULE SubmitGate ----------------------------
(***************************************************************************)
(* SubmitGate.submit_once of hl/submit.py over the exclusive records of    *)
(* hl/submission_storage.py: submitters, possibly concurrent processes,    *)
(* check a campaign, claim it with a durable intent, inspect the job again *)
(* and upload it at most once.  Processes are killed and machines lose     *)
(* power between any two steps.  The Harbor service is external: it may    *)
(* accept an upload whatever its client learns.                            *)
(***************************************************************************)
EXTENDS Naturals

CONSTANTS
  Submitters,   \* invocations of submit_once
  Campaigns,
  Paths,        \* names in the submissions directory
  IntentPath,   \* IntentPath[c]: the name of campaign c's intent
  ResultPath,   \* ResultPath[c]: the name of campaign c's result marker
  FreshIntent,  \* FreshIntent[s], FreshResult[s]: the names under the uuid of
  FreshResult,  \* s, used when a campaign may submit more than once
  Requests,     \* what submitters may be asked to do
  Versions,     \* states of the job directory
  Valid,        \* those that inspect_job and the thresholds accept
  None,         \* no file, no version
  MaxFaults,    \* bound on I/O errors, failed waits and power losses
  MaxChanges    \* bound on changes of the job directory

\* once: config.once_per_campaign; scan: the integrity scan is required and an
\* upload configured, so the gate has evidence; upload: config.harbor_upload.
Request ==
  {r \in [campaign : Campaigns, once : BOOLEAN, scan : BOOLEAN, upload : BOOLEAN] :
     r.scan => r.upload}

\* Campaign ids may contain dots, so one campaign's result may have the name of
\* another one's intent ("a" and "a.intent"); two intents never share a name.
ASSUME SubmitAssumption ==
  /\ IntentPath \in [Campaigns -> Paths] /\ ResultPath \in [Campaigns -> Paths]
  /\ FreshIntent \in [Submitters -> Paths] /\ FreshResult \in [Submitters -> Paths]
  /\ \A c, d \in Campaigns : c # d => IntentPath[c] # IntentPath[d]
  /\ \A s, t \in Submitters : s # t => FreshIntent[s] # FreshIntent[t]
  /\ \A s \in Submitters, c \in Campaigns : FreshIntent[s] # IntentPath[c]
  /\ Requests \subseteq Request
  /\ Valid \subseteq Versions
  /\ None \notin Versions \cup Submitters
  /\ MaxFaults \in Nat /\ MaxChanges \in Nat

VARIABLES
  pc,        \* where each submitter is
  request,   \* what each submitter was asked to do
  seen,      \* the job version whose fingerprint is each submitter's evidence
  gate,      \* the SubmitGateResult of each submitter
  files,     \* the submissions directory
  snapshots, \* the directories a power loss may leave
  job,       \* the present state of the job directory
  launched,  \* history: the version each submitter's upload was started on
  accepted,  \* history: the submitters whose upload the service accepted
  faults,    \* history: failures so far
  changes    \* history: changes of the job so far

vars == <<pc, request, seen, gate, files, snapshots, job, launched, accepted,
          faults, changes>>

\* What a record says of the attempt, and whether all of its bytes are there.
Verdicts == {"submitted", "failed", "unknown", "skipped", "cancelled"}
Record == [owner : Submitters, says : {"intent"} \cup Verdicts, complete : BOOLEAN]
Absent == [owner |-> None, says |-> "nothing", complete |-> FALSE]
Directory == [Paths -> Record \cup {Absent}]

Running == {"inspect", "claim", "writeIntent", "syncIntent", "recheck", "launch",
            "uploading", "createResult", "writeResult", "syncResult"}
Places == {"idle", "done", "dead"} \cup Running

Gate == [eligible : BOOLEAN, attempted : BOOLEAN, intentPersisted : BOOLEAN,
         outcomeUnknown : BOOLEAN, persistenceFailed : BOOLEAN,
         verdict : {"none"} \cup Verdicts]

TypeOK ==
  /\ pc \in [Submitters -> Places]
  /\ request \in [Submitters -> Request]
  /\ seen \in [Submitters -> Versions \cup {None}]
  /\ gate \in [Submitters -> Gate]
  /\ files \in Directory /\ snapshots \subseteq Directory
  /\ job \in Versions
  /\ launched \in [Submitters -> Versions \cup {None}]
  /\ accepted \subseteq Submitters
  /\ faults \in 0 .. MaxFaults /\ changes \in 0 .. MaxChanges

Intent(s) == IF request[s].once THEN IntentPath[request[s].campaign] ELSE FreshIntent[s]
Result(s) == IF request[s].once THEN ResultPath[request[s].campaign] ELSE FreshResult[s]
IntentOf(s, written) == [owner |-> s, says |-> "intent", complete |-> written]
ResultOf(s, written) == [owner |-> s, says |-> gate[s].verdict, complete |-> written]

-----------------------------------------------------------------------------
Init ==
  /\ pc = [s \in Submitters |-> "idle"]
  /\ request \in [Submitters -> Requests]
  /\ seen = [s \in Submitters |-> None]
  /\ gate = [s \in Submitters |->
               [eligible |-> FALSE, attempted |-> FALSE, intentPersisted |-> FALSE,
                outcomeUnknown |-> FALSE, persistenceFailed |-> FALSE,
                verdict |-> "none"]]
  /\ files = [p \in Paths |-> Absent]
  /\ snapshots = {files}
  /\ job \in Versions
  /\ launched = [s \in Submitters |-> None]
  /\ accepted = {}
  /\ faults = 0 /\ changes = 0

Go(s, from, to) == pc[s] = from /\ pc' = [pc EXCEPT ![s] = to]

\* What a step adds to the SubmitGateResult of its submitter.
Report(s, g) == gate' = [gate EXCEPT ![s] = g]
Allowed(g) == [g EXCEPT !.eligible = TRUE]
Refused(g, unknown) == [g EXCEPT !.eligible = FALSE, !.outcomeUnknown = unknown]
Persisted(g) == [g EXCEPT !.intentPersisted = TRUE]
Cancelled(g) == [g EXCEPT !.eligible = FALSE, !.verdict = "cancelled"]
Attempted(g, v) == [g EXCEPT !.attempted = TRUE, !.verdict = v]
Unresolved(g) == [g EXCEPT !.attempted = TRUE, !.outcomeUnknown = TRUE, !.verdict = "unknown"]
Unrecorded(g) == [g EXCEPT !.persistenceFailed = TRUE]

\* One more system call fails.
Fault == faults < MaxFaults /\ faults' = faults + 1

\* A record appears or grows; without an fsync the state before may survive.
Store(p, r) ==
  /\ files' = [files EXCEPT ![p] = r]
  /\ snapshots' = snapshots \cup {files'}

\* os.fsync of the submissions directory.
Persist == snapshots' = {files} /\ UNCHANGED files

-----------------------------------------------------------------------------
\* check: neither a marker nor an intent of the campaign exists; or some
\* threshold of the caller's summary refuses the request.
CheckClaims(s) ==
  /\ \/ /\ request[s].once => files[Result(s)] = Absent /\ files[Intent(s)] = Absent
        /\ Go(s, "idle", "inspect")
     \/ Go(s, "idle", "done")
  /\ UNCHANGED <<request, seen, gate, files, snapshots, job, launched, accepted,
                 faults, changes>>

\* check: the evidence of the job, then git and the service's authentication.
\* A refused request and a dry run end here.
Inspect(s) ==
  /\ \/ /\ request[s].scan => job \in Valid
        /\ \/ Go(s, "inspect", "claim")
           \/ Go(s, "inspect", "done")
        /\ seen' = [seen EXCEPT ![s] = IF request[s].scan THEN job ELSE None]
        /\ Report(s, Allowed(gate[s]))
     \/ /\ Go(s, "inspect", "done")
        /\ UNCHANGED <<seen, gate>>
  /\ UNCHANGED <<request, files, snapshots, job, launched, accepted, faults,
                 changes>>

\* Mutant: the intent is opened for writing whether it exists or not.
ClaimOverwrites(s) ==
  /\ Go(s, "claim", "writeIntent")
  /\ Store(Intent(s), IntentOf(s, FALSE))
  /\ UNCHANGED <<request, seen, gate, job, launched, accepted, faults, changes>>

\* The intent is created with O_EXCL, or the claim is lost.
Claim(s) ==
  /\ \/ /\ files[Intent(s)] = Absent
        /\ Go(s, "claim", "writeIntent")
        /\ Store(Intent(s), IntentOf(s, FALSE))
        /\ UNCHANGED gate
     \/ /\ files[Intent(s)] # Absent
        /\ Go(s, "claim", "done")
        /\ Report(s, Refused(gate[s], FALSE))
        /\ UNCHANGED <<files, snapshots>>
  /\ UNCHANGED <<request, seen, job, launched, accepted, faults, changes>>

\* write, flush and fsync of the intent's bytes.
WriteIntent(s) ==
  /\ Go(s, "writeIntent", "syncIntent")
  /\ Store(Intent(s), IntentOf(s, TRUE))
  /\ UNCHANGED <<request, seen, gate, job, launched, accepted, faults, changes>>

SyncIntent(s) ==
  /\ Go(s, "syncIntent", IF seen[s] = None THEN "launch" ELSE "recheck")
  /\ Persist
  /\ Report(s, Persisted(gate[s]))
  /\ UNCHANGED <<request, seen, job, launched, accepted, faults, changes>>

\* The intent cannot be created, written or synced: what exists is kept, and
\* the outcome is unknown when something does.
FailIntent(s) ==
  /\ pc[s] \in {"claim", "writeIntent", "syncIntent"}
  /\ Go(s, pc[s], "done")
  /\ Report(s, Refused(gate[s], files[Intent(s)] # Absent))
  /\ Fault
  /\ UNCHANGED <<request, seen, files, snapshots, job, launched, accepted, changes>>

\* Mutant: the recheck looks for valid evidence, not for the same evidence.
RecheckValidity(s) ==
  /\ \/ /\ job \in Valid
        /\ Go(s, "recheck", "launch")
        /\ UNCHANGED <<gate, faults>>
     \/ /\ job \notin Valid
        /\ Go(s, "recheck", "createResult")
        /\ Report(s, Cancelled(gate[s]))
        /\ UNCHANGED faults
  /\ UNCHANGED <<request, seen, files, snapshots, job, launched, accepted, changes>>

\* The evidence is inspected again under the claim: a job that changed, or
\* that cannot be inspected, cancels the upload.
Recheck(s) ==
  /\ \/ /\ job = seen[s]
        /\ Go(s, "recheck", "launch")
        /\ UNCHANGED <<gate, faults>>
     \/ /\ Go(s, "recheck", "createResult")
        /\ Report(s, Cancelled(gate[s]))
        /\ IF job # seen[s] THEN UNCHANGED faults ELSE Fault
  /\ UNCHANGED <<request, seen, files, snapshots, job, launched, accepted, changes>>

Skip(s) ==
  /\ ~request[s].upload
  /\ Go(s, "launch", "createResult")
  /\ Report(s, Attempted(gate[s], "skipped"))
  /\ UNCHANGED <<request, seen, files, snapshots, job, launched, accepted, faults,
                 changes>>

Launch(s) ==
  /\ request[s].upload
  /\ Go(s, "launch", "uploading")
  /\ Report(s, Attempted(gate[s], "none"))
  /\ launched' = [launched EXCEPT ![s] = job]
  /\ UNCHANGED <<request, seen, files, snapshots, job, accepted, faults, changes>>

\* The service accepts an upload, any time after its start, even when its
\* client is already gone.
Accept(s) ==
  /\ launched[s] # None
  /\ s \notin accepted
  /\ accepted' = accepted \cup {s}
  /\ UNCHANGED <<pc, request, seen, gate, files, snapshots, job, launched, faults,
                 changes>>

\* The client exits: 0 only if the service accepted.
Finish(s) ==
  /\ Go(s, "uploading", "createResult")
  /\ \E v \in {"submitted", "failed"} :
       /\ v = "submitted" => s \in accepted
       /\ Report(s, Attempted(gate[s], v))
  /\ UNCHANGED <<request, seen, files, snapshots, job, launched, accepted, faults,
                 changes>>

\* Mutant: a failed start or wait is recorded as a cancelled upload.
FailUploadAsCancelled(s) ==
  /\ request[s].upload /\ pc[s] \in {"launch", "uploading"}
  /\ Go(s, pc[s], "createResult")
  /\ Report(s, Attempted(gate[s], "cancelled"))
  /\ Fault
  /\ UNCHANGED <<request, seen, files, snapshots, job, launched, accepted, changes>>

\* subprocess.run raises, before the client started or while waiting for it.
FailUpload(s) ==
  /\ request[s].upload /\ pc[s] \in {"launch", "uploading"}
  /\ Go(s, pc[s], "createResult")
  /\ Report(s, Unresolved(gate[s]))
  /\ Fault
  /\ UNCHANGED <<request, seen, files, snapshots, job, launched, accepted, changes>>

\* Mutant: an existing record at the result's name is overwritten.
CreateResultOverwrites(s) ==
  /\ Go(s, "createResult", "writeResult")
  /\ Store(Result(s), ResultOf(s, FALSE))
  /\ UNCHANGED <<request, seen, gate, job, launched, accepted, faults, changes>>

\* _persist_result: the same exclusive write for the result.
CreateResult(s) ==
  /\ \/ /\ files[Result(s)] = Absent
        /\ Go(s, "createResult", "writeResult")
        /\ Store(Result(s), ResultOf(s, FALSE))
        /\ UNCHANGED gate
     \/ /\ files[Result(s)] # Absent
        /\ Go(s, "createResult", "done")
        /\ Report(s, Unrecorded(gate[s]))
        /\ UNCHANGED <<files, snapshots>>
  /\ UNCHANGED <<request, seen, job, launched, accepted, faults, changes>>

WriteResult(s) ==
  /\ Go(s, "writeResult", "syncResult")
  /\ Store(Result(s), ResultOf(s, TRUE))
  /\ UNCHANGED <<request, seen, gate, job, launched, accepted, faults, changes>>

SyncResult(s) ==
  /\ Go(s, "syncResult", "done")
  /\ Persist
  /\ UNCHANGED <<request, seen, gate, job, launched, accepted, faults, changes>>

FailResult(s) ==
  /\ pc[s] \in {"createResult", "writeResult", "syncResult"}
  /\ Go(s, pc[s], "done")
  /\ Report(s, Unrecorded(gate[s]))
  /\ Fault
  /\ UNCHANGED <<request, seen, files, snapshots, job, launched, accepted, changes>>

-----------------------------------------------------------------------------
Crash(s) ==
  /\ pc[s] \in Running
  /\ pc' = [pc EXCEPT ![s] = "dead"]
  /\ UNCHANGED <<request, seen, gate, files, snapshots, job, launched, accepted,
                 faults, changes>>

PowerLoss ==
  /\ files' \in snapshots
  /\ snapshots' = {files'}
  /\ pc' = [s \in Submitters |-> IF pc[s] \in Running THEN "dead" ELSE pc[s]]
  /\ Fault
  /\ UNCHANGED <<request, seen, gate, job, launched, accepted, changes>>

\* The job directory changes; docs/submission-evidence.md asks that it does not
\* while an upload is being started or runs.
JobChanges ==
  /\ changes < MaxChanges
  /\ \A s \in Submitters : pc[s] \notin {"launch", "uploading"}
  /\ job' \in Versions \ {job}
  /\ changes' = changes + 1
  /\ UNCHANGED <<pc, request, seen, gate, files, snapshots, launched, accepted,
                 faults>>

Next ==
  \/ \E s \in Submitters :
       \/ CheckClaims(s) \/ Inspect(s) \/ Claim(s) \/ WriteIntent(s) \/ SyncIntent(s)
       \/ FailIntent(s) \/ Recheck(s) \/ Skip(s) \/ Launch(s) \/ Accept(s)
       \/ Finish(s) \/ FailUpload(s) \/ CreateResult(s) \/ WriteResult(s)
       \/ SyncResult(s) \/ FailResult(s) \/ Crash(s)
  \/ PowerLoss
  \/ JobChanges

Spec == Init /\ [][Next]_vars

-----------------------------------------------------------------------------
\* Whatever dies or fails, two submitters that must submit a campaign once
\* never both start an upload of it.  (submit_once: "Validate and perform
\* at-most-once Harbor upload/submit".)
AtMostOneUpload ==
  \A s, t \in Submitters :
    /\ s # t /\ launched[s] # None /\ launched[t] # None
    /\ request[s].once /\ request[t].once
    => request[s].campaign # request[t].campaign

\* An upload that was started has its submitter's complete intent on disk, in
\* every directory that a power loss may leave.  (write_exclusive_json returns
\* only after both fsyncs, and nothing overwrites a record.)
UploadHasDurableIntent ==
  \A s \in Submitters : \A f \in snapshots :
    launched[s] # None
      => f[Intent(s)] = IntentOf(s, TRUE)

\* A submitter that returns without having attempted an upload, and does not
\* say that the outcome is unknown or that its claim is durable, left no record
\* behind: a power loss cannot bring one back that blocks the campaign.
\* (submit_once: outcome_unknown = os.path.lexists(intent_path).)
QuietRefusalLeavesNoClaim ==
  \A s \in Submitters :
    pc[s] = "done" /\ ~gate[s].intentPersisted /\ ~gate[s].outcomeUnknown
      => /\ launched[s] = None
         /\ \A f \in snapshots : \A p \in Paths : f[p].owner # s

\* No record, on disk or in a state that a power loss may bring back, denies an
\* upload that was started or claims one that was not accepted: "submitted" is
\* said only of accepted uploads, "skipped" and "cancelled" only when no upload
\* was started.  (submit_once: the payloads of the result.)
RecordsTellTheTruth ==
  \A f \in snapshots : \A p \in Paths :
    /\ f[p].says = "submitted" => f[p].owner \in accepted
    /\ f[p].says \in {"skipped", "cancelled"} => launched[f[p].owner] = None

\* A verdict that was returned without a persistence failure is on disk for
\* good: no other submitter or campaign takes the place of its record, and no
\* power loss undoes it.  (_persist_result: result_persistence_failed.)
ReturnedVerdictIsDurable ==
  \A s \in Submitters : \A f \in snapshots :
    pc[s] = "done" /\ gate[s].verdict # "none" /\ ~gate[s].persistenceFailed
      => f[Result(s)] = ResultOf(s, TRUE)

\* With the integrity scan, what is uploaded is the version that was validated
\* before the claim, although the job may change between the validation and the
\* recheck.  (submit_once: "Harbor job changed after gate validation".)
UploadedAsValidated ==
  \A s \in Submitters :
    launched[s] # None /\ request[s].scan => launched[s] \in Valid /\ launched[s] = seen[s]

-----------------------------------------------------------------------------
\* The inductive invariant behind these properties, for each submitter.
BeforeClaim == {"idle", "inspect", "claim"}
BeforeLaunch == BeforeClaim \cup {"writeIntent", "syncIntent", "recheck", "launch"}
BeforeResult == BeforeLaunch \cup {"uploading"}
AfterIntent == {"recheck", "launch", "uploading", "createResult", "writeResult",
                "syncResult"}

\* Where each submitter's records are, and how far they are written.
RecordsInProgress(s) ==
  /\ pc[s] = "writeIntent" => files[Intent(s)] = IntentOf(s, FALSE)
  /\ pc[s] = "syncIntent" => files[Intent(s)] = IntentOf(s, TRUE)
  /\ pc[s] = "writeResult" => files[Result(s)] = ResultOf(s, FALSE)
  /\ pc[s] = "syncResult" => files[Result(s)] = ResultOf(s, TRUE)

\* Which records a submitter can have left by now.
RecordsLeft(s) ==
  \A f \in snapshots : \A p \in Paths : f[p].owner = s =>
    /\ pc[s] \notin BeforeClaim
    /\ pc[s] = "done" => gate[s].intentPersisted \/ gate[s].outcomeUnknown
    /\ f[p].says # "intent" => pc[s] \notin BeforeResult /\ f[p].says = gate[s].verdict

IntentDurable(s) ==
  pc[s] \in AfterIntent \/ launched[s] # None =>
    \A f \in snapshots : f[Intent(s)] = IntentOf(s, TRUE)

ResultDurable(s) ==
  pc[s] = "done" /\ gate[s].verdict # "none" /\ ~gate[s].persistenceFailed =>
    \A f \in snapshots : f[Result(s)] = ResultOf(s, TRUE)

VerdictTruthful(s) ==
  /\ pc[s] \in BeforeLaunch => launched[s] = None
  /\ pc[s] \in BeforeResult => gate[s].verdict = "none"
  /\ pc[s] \in {"createResult", "writeResult", "syncResult"} => gate[s].verdict # "none"
  /\ pc[s] \in AfterIntent => gate[s].intentPersisted
  /\ pc[s] = "done" /\ launched[s] # None => gate[s].intentPersisted
  /\ gate[s].verdict = "submitted" => s \in accepted
  /\ gate[s].verdict \in {"skipped", "cancelled"} => launched[s] = None

EvidenceHeld(s) ==
  request[s].scan =>
    /\ pc[s] \in {"claim", "writeIntent", "syncIntent", "recheck", "launch"} => seen[s] \in Valid
    /\ pc[s] = "launch" => job = seen[s]
    /\ launched[s] # None => launched[s] \in Valid /\ launched[s] = seen[s]

Good(s) ==
  /\ RecordsInProgress(s)
  /\ RecordsLeft(s)
  /\ IntentDurable(s)
  /\ ResultDurable(s)
  /\ VerdictTruthful(s)
  /\ EvidenceHeld(s)

Inv ==
  /\ TypeOK
  /\ files \in snapshots
  /\ \A s \in Submitters : Good(s)
=============================================================================

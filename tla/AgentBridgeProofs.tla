------------------------- MODULE AgentBridgeProofs -------------------------
(***************************************************************************)
(* For any quotas, sizes and numbers of requests and captures: what a      *)
(* cancellation and a late result may do in a trial, what a ref of the     *)
(* archive names through failures and a crash, and that turns and bytes    *)
(* are counted within their bounds.                                        *)
(***************************************************************************)
EXTENDS AgentBridge, WellFoundedInduction, TLAPS

(* The archive: each of its operations leaves what is in memory and what is *)
(* on disk telling the same of every ref that was handed out.               *)

\* Appending keeps what a sequence had, at its place.
LEMMA AppendKeeps ==
  ASSUME NEW S, NEW s \in Seq(S), NEW e \in S
  PROVE  /\ Append(s, e) \in Seq(S) /\ Len(Append(s, e)) = Len(s) + 1
         /\ DOMAIN Append(s, e) = DOMAIN s \cup {Len(s) + 1}
         /\ \A n \in DOMAIN s : Append(s, e)[n] = s[n]
         /\ Append(s, e)[Len(s) + 1] = e
  OBVIOUS

LEMMA EntriesHaveTheirType ==
  ASSUME ArchiveFits
  PROVE  /\ Unavailable \in EntryType
         /\ capture # Idle => \A line \in LineSizes : Captured(line) \in EntryType
  BY QuotaAssumption
     DEF ArchiveFits, EntryType, Unavailable, Captured, Entry, CaptureType, Idle

LEMMA NewScopeFits == \A usable \in BOOLEAN : NewScope(usable) => ArchiveFits /\ HasAll
  BY QuotaAssumption DEF NewScope, ArchiveFits, HasAll, CaptureType, Idle

LEMMA CaptureStartFits ==
  ASSUME ArchiveFits, NEW size \in Sizes, NEW sensitive \in BOOLEAN,
         NEW status \in {"partial", "complete"}, CaptureStart(size, sensitive, status)
  PROVE  ArchiveFits' /\ (HasAll => HasAll') /\ available' = available
  <1>1. UNCHANGED <<available, entries, payloads, journal, journal_end, returned>>
    BY DEF CaptureStart
  <1>2. /\ capture' \in CaptureType /\ captures' \in 0 .. MaxCaptures
        /\ capture' # Idle => available
        /\ capture'.step # "journal"
    <2>1. CASE HasQuota
      BY <2>1, QuotaAssumption
         DEF CaptureStart, HasQuota, ArchiveFits, CaptureType, Idle
    <2>2. CASE ~ HasQuota
      BY <2>2, QuotaAssumption DEF CaptureStart, ArchiveFits, Idle
    <2> QED
      BY <2>1, <2>2
  <1> QED
    BY <1>1, <1>2 DEF ArchiveFits, HasAll, IsKept

LEMMA WritePayloadFits ==
  ASSUME ArchiveFits, WritePayload
  PROVE  ArchiveFits' /\ (HasAll => HasAll') /\ available' = available
  <1>1. capture' \in CaptureType /\ available
    BY DEF WritePayload, ArchiveFits, CaptureType, Idle
  <1>2. UNCHANGED <<available, entries, journal, journal_end, captures, returned>>
    BY DEF WritePayload
  <1>3. /\ Number' \in DOMAIN payloads' /\ payloads'[Number'] = capture'.what
        /\ \A n \in DOMAIN payloads :
             n \in DOMAIN payloads' /\ payloads'[n] = payloads[n]
    BY <1>2 DEF WritePayload, Number, ArchiveFits, CaptureType, Idle
  <1> QED
    BY <1>1, <1>2, <1>3 DEF ArchiveFits, HasAll, IsKept

LEMMA JournalFullFits ==
  ASSUME ArchiveFits, JournalFull
  PROVE  ArchiveFits' /\ (HasAll => HasAll') /\ available' = available
  BY DEF JournalFull, ArchiveFits, HasAll, IsKept, CaptureType, Idle

-----------------------------------------------------------------------------
\* The line, the entry and the ref come together, and a line that cannot be read
\* costs the journal and not the entries.
LEMMA AppendJournalFits ==
  ASSUME ArchiveFits, AppendJournal
  PROVE  ArchiveFits' /\ (HasAll => HasAll') /\ available' = available
  <1>1. capture # Idle /\ available
    BY DEF AppendJournal, ArchiveFits, Idle
  <1>2. PICK line \in LineSizes :
          /\ JournalGrows(Captured(line))
          /\ entries' = Append(entries, Captured(line))
          /\ returned' = IF Captured(line).ref
                         THEN returned \cup {[n |-> Number, entry |-> Captured(line)]}
                         ELSE returned
    BY DEF AppendJournal
  <1> DEFINE entry == Captured(line)
  <1>3. entry \in EntryType
    BY <1>1, EntriesHaveTheirType
  <1>4. entry.ref => Number \in DOMAIN payloads /\ payloads[Number] = entry.what
    BY DEF AppendJournal, Captured, Entry, ArchiveFits
  <1> HIDE DEF entry
  <1>5. entries \in Seq(EntryType) /\ journal \in Seq(EntryType)
    BY DEF ArchiveFits
  <1>6. /\ entries' \in Seq(EntryType)
        /\ DOMAIN entries' = DOMAIN entries \cup {Number}
        /\ \A n \in DOMAIN entries : entries'[n] = entries[n]
        /\ entries'[Number] = entry
    BY <1>2, <1>3, <1>5, AppendKeeps DEF Number, entry
  <1>7. /\ journal' \in Seq(EntryType)
        /\ journal_end' \in {"whole", "torn"}
        /\ journal_end' # "torn" => journal' = entries'
    BY <1>1, <1>2, <1>3, <1>5, <1>6 DEF JournalGrows, ArchiveFits, entry
  <1>8. UNCHANGED <<available, payloads, captures>> /\ capture' = Idle
    BY DEF AppendJournal
  <1>9. \A r \in returned : r.n \in DOMAIN entries /\ entries[r.n] = r.entry
    BY <1>1 DEF ArchiveFits, HasAll, IsKept
  <1>10. ASSUME NEW r \in returned'
         PROVE  IsKept(r)' /\ r.n \in DOMAIN entries'
    <2>1. CASE r \in returned
      <3>1. /\ r = [n |-> r.n, entry |-> r.entry] /\ r.entry.ref
            /\ r.n \in DOMAIN payloads /\ payloads[r.n] = r.entry.what
        BY <2>1 DEF ArchiveFits, IsKept
      <3>2. r.n \in DOMAIN entries' /\ entries'[r.n] = r.entry
        BY <1>6, <1>9, <2>1
      <3> QED
        BY <1>7, <1>8, <3>1, <3>2 DEF IsKept
    <2>2. CASE entry.ref /\ r = [n |-> Number, entry |-> entry]
      <3>1. r.n = Number /\ r.entry = entry
        BY <2>2
      <3>2. r.n \in DOMAIN payloads /\ payloads[r.n] = r.entry.what
        BY <1>4, <2>2, <3>1
      <3>3. r.n \in DOMAIN entries' /\ entries'[r.n] = r.entry
        BY <1>6, <3>1
      <3> QED
        BY <1>7, <1>8, <2>2, <3>1, <3>2, <3>3 DEF IsKept
    <2> QED
      BY <1>2, <2>1, <2>2 DEF entry
  <1> QED
    BY <1>6, <1>7, <1>8, <1>10, <1>1 DEF ArchiveFits, HasAll, CaptureType, Idle

-----------------------------------------------------------------------------
\* What a cut off write leaves neither hides nor changes what was whole.
LEMMA TornWritesKeep ==
  ASSUME ArchiveFits, TornPayload, TornJournal, returned' = returned
  PROVE  /\ journal' \in Seq(EntryType)
         /\ journal_end' \in {"none", "whole", "bare", "torn"}
         /\ journal_end' = "none" => returned' = {}
         /\ \A r \in returned' :
              /\ r = [n |-> r.n, entry |-> r.entry] /\ r.entry.ref
              /\ r.n \in DOMAIN payloads' /\ payloads'[r.n] = r.entry.what
              /\ journal_end' \in {"whole", "bare"} =>
                   r.n \in DOMAIN journal' /\ journal'[r.n] = r.entry
  <1>1. \A n \in DOMAIN payloads : n \in DOMAIN payloads' /\ payloads'[n] = payloads[n]
    BY DEF TornPayload
  <1>2. /\ journal \in Seq(EntryType)
        /\ journal_end \in {"none", "whole", "bare", "torn"}
        /\ journal_end = "none" => returned = {}
    BY DEF ArchiveFits
  <1>3. /\ journal' \in Seq(EntryType)
        /\ journal_end' \in {"none", "whole", "bare", "torn"}
        /\ journal_end' = "none" => journal_end = "none"
        /\ journal_end' \in {"whole", "bare"} =>
             /\ journal_end # "torn" \/ journal_end' = journal_end
             /\ \A n \in DOMAIN journal : n \in DOMAIN journal' /\ journal'[n] = journal[n]
    <2>1. CASE UNCHANGED <<journal, journal_end>>
      BY <1>2, <2>1
    <2>2. CASE ~ UNCHANGED <<journal, journal_end>>
      <3>1. capture # Idle
        BY <2>2 DEF TornJournal, Idle
      <3>2. PICK line \in LineSizes :
              \/ JournalGrows(Captured(line))
              \/ journal_end = "none" /\ journal_end' = "whole" /\ UNCHANGED journal
              \/ journal_end' = "torn" /\ UNCHANGED journal
              \/ /\ journal_end \notin {"bare", "torn"}
                 /\ journal_end' = "bare" /\ journal' = Append(journal, Captured(line))
        BY <2>2 DEF TornJournal
      <3>3. Captured(line) \in EntryType
        BY <3>1, EntriesHaveTheirType
      <3> DEFINE entry == Captured(line)
      <3> HIDE DEF entry
      <3>4. /\ Append(journal, entry) \in Seq(EntryType)
            /\ \A n \in DOMAIN journal :
                 n \in DOMAIN Append(journal, entry) /\ Append(journal, entry)[n] = journal[n]
        BY <1>2, <3>3, AppendKeeps DEF entry
      <3> QED
        BY <1>2, <3>2, <3>4 DEF JournalGrows, entry
    <2> QED
      BY <2>1, <2>2
  <1>4. \A r \in returned :
          /\ r = [n |-> r.n, entry |-> r.entry] /\ r.entry.ref
          /\ r.n \in DOMAIN payloads /\ payloads[r.n] = r.entry.what
          /\ journal_end \in {"whole", "bare"} =>
               r.n \in DOMAIN journal /\ journal[r.n] = r.entry
    BY DEF ArchiveFits, IsKept
  <1>5. ASSUME NEW r \in returned, journal_end' \in {"whole", "bare"}
        PROVE  journal_end \in {"whole", "bare"}
    BY <1>2, <1>3, <1>5 DEF ArchiveFits
  <1> QED
    BY <1>1, <1>2, <1>3, <1>4, <1>5

\* A failed capture adds an entry without a ref behind those that have one.
LEMMA FailFits ==
  ASSUME ArchiveFits, Fail
  PROVE  ArchiveFits' /\ (HasAll => HasAll') /\ ~ available'
  <1>1. available /\ capture' = Idle /\ ~ available' /\ captures' = captures
    BY DEF Fail, ArchiveFits
  <1>2. TornPayload /\ TornJournal /\ returned' = returned
        /\ entries' = Append(entries, Unavailable)
    BY DEF Fail
  <1>3. /\ entries' \in Seq(EntryType)
        /\ \A n \in DOMAIN entries : n \in DOMAIN entries' /\ entries'[n] = entries[n]
    BY <1>2, EntriesHaveTheirType, AppendKeeps DEF ArchiveFits
  <1>4. \A r \in returned : r.n \in DOMAIN entries /\ entries[r.n] = r.entry
    BY <1>1 DEF ArchiveFits, HasAll, IsKept
  <1>5. \A r \in returned' : IsKept(r)'
    BY <1>2, <1>3, <1>4, TornWritesKeep DEF IsKept
  <1> QED
    BY <1>1, <1>2, <1>3, <1>4, <1>5, TornWritesKeep
       DEF ArchiveFits, HasAll, CaptureType, Idle

LEMMA DieFits ==
  ASSUME ArchiveFits, Die
  PROVE  ArchiveFits' /\ ~ available'
  <1>1. /\ capture' = Idle /\ ~ available' /\ captures' = captures
        /\ entries' = <<>> /\ returned' = returned
        /\ TornPayload /\ TornJournal
    BY DEF Die
  <1>2. \A r \in returned' : IsKept(r)'
    BY <1>1, TornWritesKeep DEF IsKept
  <1> QED
    BY <1>1, <1>2, TornWritesKeep DEF ArchiveFits, CaptureType, Idle

\* A journal that can be read has all that the dead process knew.
LEMMA ReopenFits ==
  ASSUME ArchiveFits, ~ available, Reopen
  PROVE  ArchiveFits'
  <1>1. /\ UNCHANGED <<payloads, journal, journal_end, capture, captures, returned>>
        /\ available' = (journal_end \in {"whole", "bare"})
        /\ entries' = IF available' THEN journal ELSE <<>>
    BY DEF Reopen
  <1>2. capture = Idle
    BY DEF ArchiveFits
  <1>3. ASSUME NEW r \in returned'
        PROVE  IsKept(r)' /\ (available' => r.n \in DOMAIN entries')
    <2>1. IsKept(r)
      BY <1>1 DEF ArchiveFits
    <2>2. CASE journal_end \in {"whole", "bare"}
      <3>1. entries' = journal
        BY <1>1, <2>2
      <3> QED
        BY <1>1, <2>1, <2>2, <3>1 DEF IsKept
    <2>3. CASE journal_end \notin {"whole", "bare"}
      <3>1. ~ available' /\ entries' = <<>>
        BY <1>1, <2>3
      <3> QED
        BY <1>1, <2>1, <2>3, <3>1 DEF IsKept
    <2> QED
      BY <2>2, <2>3
  <1> QED
    BY <1>1, <1>2, <1>3 DEF ArchiveFits, HasAll, Idle

-----------------------------------------------------------------------------
LEMMA CaptureStepFits ==
  ASSUME ArchiveFits, CaptureStep
  PROVE  ArchiveFits' /\ (HasAll => HasAll') /\ (~ available => ~ available')
  <1>1. CASE WritePayload
    BY <1>1, WritePayloadFits
  <1>2. CASE AppendJournal
    BY <1>2, AppendJournalFits
  <1>3. CASE JournalFull
    BY <1>3, JournalFullFits
  <1>4. CASE Fail
    BY <1>4, FailFits
  <1> QED
    BY <1>1, <1>2, <1>3, <1>4 DEF CaptureStep

\* A ref that is kept reads as its own result or, where its entry or its payload
\* is out of reach, as nothing.
LEMMA KeptRefsRead ==
  ASSUME ArchiveFits, NEW r \in returned
  PROVE  Read(r.n) \subseteq {r} /\ (HasAll => Read(r.n) = {r})
  BY DEF ArchiveFits, HasAll, IsKept, Read
\* A capture has the next number, and what is handed out is what was captured.
LEMMA CaptureStartNumbers ==
  ASSUME NEW size, NEW sensitive, NEW status, CaptureStart(size, sensitive, status)
  PROVE  /\ capture = Idle /\ returned' = returned
         /\ \/ captures' = captures /\ capture' = capture
            \/ /\ captures' = captures + 1
               /\ capture'.what = captures + 1 /\ capture'.status = status
  BY DEF CaptureStart

LEMMA CaptureStepNames ==
  ASSUME ArchiveFits, CaptureStep
  PROVE  /\ captures' = captures /\ capture # Idle
         /\ capture' = Idle \/ /\ capture'.what = capture.what
                               /\ capture'.status = capture.status
         /\ \A r \in returned' :
              r \in returned \/ /\ r.entry.what = capture.what
                                /\ r.entry.status = capture.status
  <1>1. CASE WritePayload
    BY <1>1 DEF WritePayload, ArchiveFits, CaptureType, Idle
  <1>2. CASE AppendJournal
    <2>1. captures' = captures /\ capture # Idle /\ capture' = Idle
      BY <1>2 DEF AppendJournal, Idle
    <2>2. ASSUME NEW r \in returned', r \notin returned
          PROVE  r.entry.what = capture.what /\ r.entry.status = capture.status
      <3>1. PICK line \in LineSizes :
              Captured(line).ref /\ r = [n |-> Number, entry |-> Captured(line)]
        BY <1>2, <2>2 DEF AppendJournal
      <3> QED
        BY <3>1 DEF Captured, Entry
    <2> QED
      BY <2>1, <2>2
  <1>3. CASE JournalFull
    BY <1>3 DEF JournalFull, Idle
  <1>4. CASE Fail
    BY <1>4 DEF Fail
  <1> QED
    BY <1>1, <1>2, <1>3, <1>4 DEF CaptureStep

-----------------------------------------------------------------------------
(* The trial.                                                               *)


LEMMA InitInv == Init => TrialInv
  BY DEF Init, TrialInv, ActorsFit, NothingToStop, FindsOut,
         LateResultsAreContained

\* The worker's steps change the pipe and its own process, which only ends.
LEMMA WorkerInv == TrialInv /\ WorkerStep => TrialInv'
  <1> SUFFICES ASSUME TrialInv, WorkerStep PROVE TrialInv'
    OBVIOUS
  <1> DEFINE Ends == Running /\ process' # "running" /\ process' # "none"
  <1>1. signalled' = signalled /\ (process' = process \/ Ends)
    <2>1. CASE WorkerNote
      BY <2>1 DEF WorkerNote, Emit
    <2>2. CASE WorkerRequest
      BY <2>2 DEF WorkerRequest, Emit
    <2>3. CASE WorkerEnd
      BY <2>3 DEF WorkerEnd, Emit
    <2>4. CASE WorkerExit
      BY <2>4 DEF WorkerExit
    <2>5. CASE WorkerKilled
      BY <2>5 DEF WorkerKilled
    <2> QED
      BY <2>1, <2>2, <2>3, <2>4, <2>5 DEF WorkerStep
  <1>2. UNCHANGED <<thread, run_cancellation, active_process, turn_count,
                    after_cancel, adapter, context, active_run, published,
                    trajectory>>
    BY DEF WorkerStep, sharedVars, ownVars, adapterVars
  <1>3. Ends => thread \notin {"none", "begin", "spawning"}
    BY DEF TrialInv, ActorsFit, Running
  <1> QED
    BY <1>1, <1>2, <1>3 DEF TrialInv, ActorsFit, NothingToStop, FindsOut,
       LateResultsAreContained

-----------------------------------------------------------------------------
\* The thread is the only actor that moves through its steps and that begins
\* actions; the steps of ThreadLocal write no trajectory.
LEMMA ThreadLocalInv ==
  ASSUME TrialInv, ThreadLocal, UNCHANGED <<adapterVars, trajectory>>
  PROVE  TrialInv'
  <1> USE DEF TrialInv, ActorsFit, NothingToStop, FindsOut,
              LateResultsAreContained, childVars, sharedVars, ownVars, adapterVars
  <1>1. CASE Begin
    BY <1>1 DEF Begin, Step
  <1>2. CASE Spawn
    BY <1>2 DEF Spawn, Step
  <1>3. CASE Register
    BY <1>3 DEF Register, Step
  <1>4. CASE CheckBeforeStart
    BY <1>4 DEF CheckBeforeStart, Quietly, Step
  <1>5. CASE Write
    BY <1>5 DEF Write, Step
  <1>6. CASE Receive
    BY <1>6 DEF Receive, Step, IsCancelled, Running
  <1>7. CASE BeginAction
    BY <1>7 DEF BeginAction, Step, IsCancelled
  <1>8. CASE ToolReturns
    BY <1>8 DEF ToolReturns, Step
  <1>9. CASE HandleOther
    BY <1>9 DEF HandleOther, Quietly, Step
  <1>10. CASE Finish
    BY <1>10 DEF Finish, Step
  <1>11. CASE Terminate
    BY <1>11 DEF Terminate, Step, Signal, Running
  <1>12. CASE Cleanup
    BY <1>12 DEF Cleanup, Step
  <1> QED
    BY <1>1, <1>2, <1>3, <1>4, <1>5, <1>6, <1>7, <1>8, <1>9, <1>10, <1>11, <1>12 DEF ThreadLocal

\* The other steps of the thread write the trajectory, but only in this run, or
\* leave it to the archive.
LEMMA ThreadInv == TrialInv /\ ThreadStep => TrialInv'
  <1> SUFFICES ASSUME TrialInv, ThreadStep PROVE TrialInv'
    OBVIOUS
  <1>1. UNCHANGED adapterVars
    BY DEF ThreadStep
  <1>2. CASE ThreadLocal /\ UNCHANGED <<trajectory, archiveVars>>
    BY <1>1, <1>2, ThreadLocalInv
  <1> USE DEF TrialInv, ActorsFit, NothingToStop, FindsOut,
              LateResultsAreContained, childVars, sharedVars, ownVars, adapterVars
  <1>3. CASE HandleNote
    BY <1>1, <1>3 DEF HandleNote, Quietly, Step, Sink
  <1>4. CASE Leave
    BY <1>1, <1>4 DEF Leave, Step, Sink
  <1>5. CASE Archive
    BY <1>1, <1>5 DEF Archive, Quietly, Step
  <1>6. CASE Capture
    BY <1>1, <1>6 DEF Capture, Quietly, Step
  <1> QED
    BY <1>2, <1>3, <1>4, <1>5, <1>6 DEF ThreadStep

-----------------------------------------------------------------------------
\* The coroutine stops processes and publishes results; only Cancel sets the
\* cancellation.
LEMMA AdapterInv == TrialInv /\ AdapterStep => TrialInv'
  <1> SUFFICES ASSUME TrialInv, AdapterStep PROVE TrialInv'
    OBVIOUS
  <1> USE DEF TrialInv, ActorsFit, NothingToStop, FindsOut,
              LateResultsAreContained, childVars, sharedVars, ownVars
  <1>1. CASE Start
    BY <1>1 DEF Start
  <1>2. CASE Publish
    BY <1>2 DEF Publish
  <1>3. CASE Cancel
    BY <1>3 DEF Cancel
  <1>4. CASE NoteCancellation
    BY <1>4 DEF NoteCancellation, Sink
  <1>5. CASE StopWorker
    BY <1>5 DEF StopWorker, Signal, Running
  <1>6. CASE Snapshot
    BY <1>6 DEF Snapshot, Sink
  <1>7. CASE PublishLate
    BY <1>7 DEF PublishLate, Sink
  <1>8. CASE NextRun
    BY <1>8 DEF NextRun
  <1> QED
    BY <1>1, <1>2, <1>3, <1>4, <1>5, <1>6, <1>7, <1>8 DEF AdapterStep, AdapterWork

\* What remains of a crash is the archive.
LEMMA HostInv == TrialInv /\ (Crash \/ Recover \/ CaptureAgain) => TrialInv'
  <1> SUFFICES ASSUME TrialInv, Crash \/ Recover \/ CaptureAgain PROVE TrialInv'
    OBVIOUS
  <1> USE DEF TrialInv, ActorsFit, NothingToStop, FindsOut,
              LateResultsAreContained
  <1>1. CASE Crash
    BY <1>1 DEF Crash, Lost
  <1>2. CASE UNCHANGED bridgeVars
    BY <1>2 DEF bridgeVars, childVars, sharedVars, ownVars, adapterVars
  <1> QED
    BY <1>1, <1>2 DEF Recover, CaptureAgain

LEMMA NextInv == TrialInv /\ [Next]_vars => TrialInv'
  <1> SUFFICES ASSUME TrialInv, [Next]_vars PROVE TrialInv'
    OBVIOUS
  <1>1. CASE Next
    BY <1>1, WorkerInv, ThreadInv, AdapterInv, HostInv DEF Next
  <1>2. CASE UNCHANGED vars
    BY <1>2 DEF vars, bridgeVars, childVars, sharedVars, ownVars, adapterVars,
       TrialInv, ActorsFit, NothingToStop, FindsOut, LateResultsAreContained
  <1> QED
    BY <1>1, <1>2

-----------------------------------------------------------------------------
\* The actors fit together, whatever is cancelled, fails or dies when.
THEOREM InvHolds == Spec => []TrialInv
  BY InitInv, NextInv, PTL DEF Spec

\* No thread returns while a worker process runs that nobody told to stop.
THEOREM NoWorkerStays == Spec => []NoWorkerIsLeftAlone
  <1>1. TrialInv => NoWorkerIsLeftAlone
    BY DEF TrialInv, NothingToStop, NoWorkerIsLeftAlone, Running
  <1> QED
    BY <1>1, InvHolds, PTL

\* A cancelled run begins at most one more model call or tool.
THEOREM OneActionAtMost == Spec => []OneActionAfterCancellation
  <1>1. TrialInv => OneActionAfterCancellation
    BY DEF TrialInv, FindsOut, OneActionAfterCancellation
  <1> QED
    BY <1>1, InvHolds, PTL

\* A late result corrects the counters of its own trial and nothing else.
THEOREM LateResultsStay == Spec => []LateResultsAreContained
  <1>1. TrialInv => LateResultsAreContained
    BY DEF TrialInv
  <1> QED
    BY <1>1, InvHolds, PTL

-----------------------------------------------------------------------------
(* The archive: only the thread's captures, the crash and the reopening     *)
(* change it.                                                              *)

LEMMA ArchiveStays == RefsInv /\ UNCHANGED <<host, archiveVars>> => RefsInv'
  <1> SUFFICES ASSUME RefsInv, UNCHANGED <<host, archiveVars>> PROVE RefsInv'
    OBVIOUS
  <1>1. UNCHANGED <<available, entries, payloads, journal, journal_end, capture,
                    captures, returned>>
    BY DEF archiveVars
  <1>2. ArchiveFits' /\ (HasAll => HasAll')
    BY <1>1 DEF RefsInv, ArchiveFits, HasAll, IsKept, Number
  <1> QED
    BY <1>1, <1>2 DEF RefsInv

LEMMA ArchivingFits ==
  ASSUME RefsInv, Archive \/ Capture, host = "run", host' = host
  PROVE  RefsInv'
  <1>1. CASE Archive
    <2>1. PICK size \in Sizes, sensitive, complete \in BOOLEAN :
            CaptureStart(size, sensitive, IF complete /\ ~ IsCancelled THEN "complete"
                                          ELSE "partial")
      BY <1>1 DEF Archive
    <2> DEFINE status == IF complete /\ ~ IsCancelled THEN "complete" ELSE "partial"
    <2>2. status \in {"partial", "complete"}
      OBVIOUS
    <2>3. CaptureStart(size, sensitive, status)
      BY <2>1
    <2> HIDE DEF status
    <2>4. ArchiveFits' /\ (HasAll => HasAll')
      BY <2>2, <2>3, CaptureStartFits DEF RefsInv
    <2> QED
      BY <2>4 DEF RefsInv
  <1>2. CASE Capture /\ CaptureStep
    <2>1. ArchiveFits' /\ (HasAll => HasAll')
      BY <1>2, CaptureStepFits DEF RefsInv
    <2> QED
      BY <2>1 DEF RefsInv
  <1>3. CASE Capture /\ UNCHANGED archiveVars
    BY <1>3, ArchiveStays
  <1> QED
    BY <1>1, <1>2, <1>3 DEF Capture

LEMMA NextRefs == RefsInv /\ [Next]_vars => RefsInv'
  <1> SUFFICES ASSUME RefsInv, [Next]_vars PROVE RefsInv'
    OBVIOUS
  <1>1. CASE WorkerStep \/ AdapterStep
    BY <1>1, ArchiveStays DEF WorkerStep, AdapterStep
  <1>2. CASE ThreadStep
    <2>1. host = "run" /\ host' = host
      BY <1>2 DEF ThreadStep
    <2>2. CASE UNCHANGED archiveVars
      BY <2>1, <2>2, ArchiveStays
    <2>3. CASE Archive \/ Capture
      BY <2>1, <2>3, ArchivingFits
    <2> QED
      BY <1>2, <2>2, <2>3 DEF ThreadStep, HandleNote, Leave
  <1>3. CASE Crash
    BY <1>3, DieFits DEF Crash, RefsInv
  <1>4. CASE Recover
    BY <1>4, ReopenFits DEF Recover, RefsInv
  <1>5. CASE CaptureAgain
    <2>1. host = "recovery" /\ host' = host
      BY <1>5 DEF CaptureAgain
    <2>2. CASE \E size \in Sizes, sensitive \in BOOLEAN :
                 CaptureStart(size, sensitive, "partial")
      BY <2>1, <2>2, CaptureStartFits DEF RefsInv
    <2>3. CASE CaptureStep
      BY <2>1, <2>3, CaptureStepFits DEF RefsInv
    <2> QED
      BY <1>5, <2>2, <2>3 DEF CaptureAgain
  <1>6. CASE UNCHANGED vars
    BY <1>6, ArchiveStays DEF vars
  <1> QED
    BY <1>1, <1>2, <1>3, <1>4, <1>5, <1>6 DEF Next

\* Every ref names its result as long as the archive can be read.
THEOREM RefsResolve == Spec => []RefsNameTheirResults
  <1>1. Init => RefsInv
    BY NewScopeFits DEF Init, RefsInv
  <1>2. RefsInv => RefsNameTheirResults
    <2> SUFFICES ASSUME RefsInv PROVE RefsNameTheirResults
      OBVIOUS
    <2>1. host = "run" \/ available => HasAll
      BY DEF RefsInv, ArchiveFits
    <2> QED
      BY <2>1, KeptRefsRead DEF RefsInv, RefsNameTheirResults
  <1> QED
    BY <1>1, <1>2, NextRefs, PTL DEF Spec

-----------------------------------------------------------------------------
(* What is complete: the mark of a disturbed tool and the number of its     *)
(* capture are the same although they are made in different steps.          *)

\* Nothing is marked or captured and the thread does not get behind the checks.
LEMMA MarksStay ==
  ASSUME CompleteInv, UNCHANGED <<disturbed, archiveVars>>, MarkFits'
  PROVE  CompleteInv'
  <1>1. UNCHANGED <<disturbed, capture, captures, returned>>
    BY DEF archiveVars
  <1> QED
    BY <1>1 DEF CompleteInv, CompleteIsUnmarked

LEMMA WorkerAndAdapterMarks ==
  TrialInv /\ CompleteInv /\ (WorkerStep \/ AdapterStep) => CompleteInv'
  <1> SUFFICES ASSUME TrialInv, CompleteInv, WorkerStep \/ AdapterStep
               PROVE  CompleteInv'
    OBVIOUS
  <1>1. UNCHANGED <<host, disturbed, archiveVars, captures>>
    <2>1. CASE WorkerStep
      BY <2>1 DEF WorkerStep, ownVars, archiveVars
    <2>2. CASE AdapterStep
      BY <2>2 DEF AdapterStep, AdapterWork, Start, Publish, Cancel, NoteCancellation,
         StopWorker, Snapshot, PublishLate, NextRun, ownVars, archiveVars
    <2> QED
      BY <2>1, <2>2
  <1>2. \/ thread' = thread
        \/ thread = "none" /\ thread' = "begin"
    <2>1. CASE WorkerStep
      BY <2>1 DEF WorkerStep
    <2>2. CASE AdapterStep
      BY <2>2 DEF AdapterStep, AdapterWork, Start, Publish, Cancel, NoteCancellation,
         StopWorker, Snapshot, PublishLate, NextRun, TrialInv, ActorsFit
    <2> QED
      BY <2>1, <2>2
  <1>3. thread' = thread => (IsCancelled => IsCancelled')
    <2>1. CASE WorkerStep
      BY <2>1 DEF WorkerStep, sharedVars, IsCancelled
    <2>2. CASE AdapterStep
      BY <2>2 DEF AdapterStep, AdapterWork, Start, Publish, Cancel, NoteCancellation,
         StopWorker, Snapshot, PublishLate, NextRun, sharedVars, IsCancelled,
         TrialInv, ActorsFit
    <2> QED
      BY <2>1, <2>2
  <1>4. MarkFits'
    BY <1>1, <1>2, <1>3 DEF CompleteInv, MarkFits
  <1> QED
    BY <1>1, <1>4, MarksStay

\* The thread marks what it may archive next, and behind a mark it leaves.
LEMMA ThreadLocalMarks ==
  ASSUME CompleteInv, captures \in Nat, host = "run", host' = host, ThreadLocal,
         UNCHANGED archiveVars
  PROVE  CompleteInv'
  <1>1. UNCHANGED <<capture, captures, returned>>
    BY DEF archiveVars
  <1>2. CASE ToolReturns
    <2>1. /\ disturbed' = disturbed \cup IF IsCancelled THEN {captures + 1} ELSE {}
          /\ thread' \in {"archiving", "writing"} /\ IsCancelled' = IsCancelled
          /\ thread = "executing"
      BY <1>2 DEF ToolReturns, Step, sharedVars, IsCancelled
    <2>2. MarkFits'
      BY <1>1, <2>1 DEF CompleteInv, MarkFits
    <2>3. \A what, status : CompleteIsUnmarked(what, status)
            => CompleteIsUnmarked(what, status)'
      BY <1>1, <2>1 DEF CompleteIsUnmarked
    <2> QED
      BY <1>1, <2>2, <2>3 DEF CompleteInv
  <1>3. CASE ~ ToolReturns
    <2> USE DEF childVars, sharedVars, ownVars, IsCancelled
    <2>1. UNCHANGED disturbed
      BY <1>3 DEF ThreadLocal, Begin, Spawn, Register, CheckBeforeStart, Write,
         Receive, BeginAction, HandleOther, Quietly, Finish, Terminate, Cleanup
    <2>2. \/ thread \notin {"archiving", "capturing", "writing", "reading", "failing",
                            "cleanup", "leaving", "returned"}
          \/ /\ thread = "writing" /\ thread' \in {"reading", "failing"}
             /\ IsCancelled' = IsCancelled
          \/ /\ thread = "reading" /\ (IsCancelled => thread' = "failing")
          \/ thread \in {"failing", "cleanup"} /\ thread' \in {"cleanup", "leaving"}
      BY <1>3 DEF ThreadLocal, Begin, Spawn, Register, CheckBeforeStart, Write,
         Receive, BeginAction, HandleOther, Quietly, Finish, Terminate, Cleanup, Step
    <2>3. MarkFits'
      BY <1>1, <2>1, <2>2 DEF CompleteInv, MarkFits
    <2> QED
      BY <2>1, <2>3, MarksStay
  <1> QED
    BY <1>2, <1>3

\* A capture that starts takes the number, with the mark or without; a
\* result is complete only without.
LEMMA ArchiveMarks ==
  ASSUME CompleteInv, captures \in Nat, host = "run", host' = host, Archive
  PROVE  CompleteInv'
  <1>1. /\ thread = "archiving" /\ thread' = "capturing"
        /\ disturbed' = disturbed /\ IsCancelled' = IsCancelled
    BY DEF Archive, Quietly, Step, sharedVars, ownVars, IsCancelled
  <1>2. PICK size \in Sizes, sensitive, complete \in BOOLEAN :
          CaptureStart(size, sensitive, IF complete /\ ~ IsCancelled THEN "complete"
                                        ELSE "partial")
    BY DEF Archive
  <1> DEFINE status == IF complete /\ ~ IsCancelled THEN "complete" ELSE "partial"
  <1>3. status = "complete" => ~ IsCancelled
    OBVIOUS
  <1>4. CaptureStart(size, sensitive, status)
    BY <1>2
  <1> HIDE DEF status
  <1>5. /\ capture = Idle /\ returned' = returned
        /\ \/ captures' = captures /\ capture' = capture
           \/ /\ captures' = captures + 1
              /\ capture'.what = captures + 1 /\ capture'.status = status
    BY <1>4, CaptureStartNumbers
  <1>6. disturbed \subseteq 1 .. captures + 1 /\ (captures + 1 \in disturbed => IsCancelled)
    BY <1>1 DEF CompleteInv, MarkFits
  <1>7. MarkFits'
    BY <1>1, <1>5, <1>6 DEF MarkFits
  <1>8. capture' # Idle => CompleteIsUnmarked(capture.what, capture.status)'
    BY <1>1, <1>3, <1>5, <1>6 DEF CompleteIsUnmarked
  <1>9. \A r \in returned' : CompleteIsUnmarked(r.entry.what, r.entry.status)'
    BY <1>1, <1>5 DEF CompleteInv, CompleteIsUnmarked
  <1> QED
    BY <1>7, <1>8, <1>9 DEF CompleteInv, Idle

LEMMA CapturingMarks ==
  ASSUME CompleteInv, ArchiveFits, CaptureStep, disturbed' = disturbed, MarkFits'
  PROVE  CompleteInv'
  <1>1. /\ captures' = captures /\ capture # Idle
        /\ capture' = Idle \/ /\ capture'.what = capture.what
                              /\ capture'.status = capture.status
        /\ \A r \in returned' :
             r \in returned \/ /\ r.entry.what = capture.what
                               /\ r.entry.status = capture.status
    BY CaptureStepNames
  <1> QED
    BY <1>1 DEF CompleteInv, CompleteIsUnmarked, Idle

LEMMA ThreadMarks ==
  ASSUME CompleteInv, ArchiveFits, ThreadStep
  PROVE  CompleteInv'
  <1>1. host = "run" /\ host' = host /\ captures \in Nat
    BY QuotaAssumption DEF ThreadStep, ArchiveFits
  <1>2. CASE ThreadLocal /\ UNCHANGED archiveVars
    BY <1>1, <1>2, ThreadLocalMarks
  <1>3. CASE HandleNote \/ Leave
    <2>1. UNCHANGED <<disturbed, captures, archiveVars>>
      BY <1>3 DEF HandleNote, Leave, Quietly, ownVars, archiveVars
    <2>2. \/ thread = "handling"
          \/ thread = "leaving" /\ thread' = "returned"
      BY <1>3 DEF HandleNote, Leave, Quietly, Step
    <2>3. MarkFits'
      BY <1>1, <2>1, <2>2 DEF CompleteInv, MarkFits
    <2> QED
      BY <2>1, <2>3, MarksStay
  <1>4. CASE Archive
    BY <1>1, <1>4, ArchiveMarks
  <1>5. CASE Capture
    <2>1. /\ thread = "capturing" /\ thread' \in {"capturing", "writing"}
          /\ disturbed' = disturbed /\ IsCancelled' = IsCancelled
      BY <1>5 DEF Capture, Quietly, Step, sharedVars, ownVars, IsCancelled
    <2>2. CASE CaptureStep
      <3>1. captures' = captures
        BY <2>2, CaptureStepNames
      <3>2. MarkFits'
        BY <1>1, <2>1, <3>1 DEF CompleteInv, MarkFits
      <3> QED
        BY <2>1, <2>2, <3>2, CapturingMarks
    <2>3. CASE UNCHANGED archiveVars
      <3>1. captures' = captures
        BY <2>3 DEF archiveVars
      <3>2. MarkFits'
        BY <1>1, <2>1, <3>1 DEF CompleteInv, MarkFits
      <3> QED
        BY <2>1, <2>3, <3>2, MarksStay
    <2> QED
      BY <1>5, <2>2, <2>3 DEF Capture
  <1> QED
    BY <1>2, <1>3, <1>4, <1>5 DEF ThreadStep

\* After the crash the trusted caller claims nothing complete.
LEMMA HostMarks ==
  ASSUME CompleteInv, ArchiveFits, Crash \/ Recover \/ CaptureAgain
  PROVE  CompleteInv'
  <1>1. host' \in {"crashed", "recovery"} /\ disturbed' = disturbed
    BY DEF Crash, Lost, Recover, CaptureAgain, bridgeVars, ownVars
  <1>2. captures \in Nat
    BY QuotaAssumption DEF ArchiveFits
  <1>3. CASE Crash \/ Recover
    <2>1. UNCHANGED <<captures, returned>> /\ (capture' = Idle \/ capture' = capture)
      BY <1>3 DEF Crash, Die, Recover, Reopen
    <2> QED
      BY <1>1, <2>1 DEF CompleteInv, MarkFits, CompleteIsUnmarked
  <1>4. CASE CaptureAgain
    <2>1. CASE CaptureStep
      <3>1. captures' = captures
        BY <2>1, CaptureStepNames
      <3>2. MarkFits'
        BY <1>1, <3>1 DEF CompleteInv, MarkFits
      <3> QED
        BY <1>1, <2>1, <3>2, CapturingMarks
    <2>2. CASE \E size \in Sizes, sensitive \in BOOLEAN :
                 CaptureStart(size, sensitive, "partial")
      <3>1. /\ capture = Idle /\ returned' = returned
            /\ \/ captures' = captures /\ capture' = capture
               \/ /\ captures' = captures + 1
                  /\ capture'.what = captures + 1 /\ capture'.status = "partial"
        BY <2>2, CaptureStartNumbers
      <3> QED
        BY <1>1, <1>2, <3>1 DEF CompleteInv, MarkFits, CompleteIsUnmarked, Idle
    <2> QED
      BY <1>4, <2>1, <2>2 DEF CaptureAgain
  <1> QED
    BY <1>3, <1>4

LEMMA NextMarks == TrialInv /\ RefsInv /\ CompleteInv /\ [Next]_vars => CompleteInv'
  <1> SUFFICES ASSUME TrialInv, RefsInv, CompleteInv, [Next]_vars PROVE CompleteInv'
    OBVIOUS
  <1>1. ArchiveFits
    BY DEF RefsInv
  <1>2. CASE Next
    BY <1>1, <1>2, WorkerAndAdapterMarks, ThreadMarks, HostMarks DEF Next
  <1>3. CASE UNCHANGED vars
    <2>1. UNCHANGED <<host, thread, disturbed, run_cancellation, captures, archiveVars>>
      BY <1>3 DEF vars, bridgeVars, sharedVars, ownVars, archiveVars
    <2>2. MarkFits'
      BY <2>1 DEF CompleteInv, MarkFits, IsCancelled
    <2> QED
      BY <2>1, <2>2, MarksStay
  <1> QED
    BY <1>2, <1>3

\* No result that a cancellation may have cut short is handed out as complete.
THEOREM CompleteIsWhole == Spec => []CompleteMeansUndisturbed
  <1>1. Init => RefsInv /\ CompleteInv
    BY NewScopeFits DEF Init, RefsInv, CompleteInv, MarkFits, NewScope
  <1>2. CompleteInv => CompleteMeansUndisturbed
    BY DEF CompleteInv, CompleteIsUnmarked, CompleteMeansUndisturbed
  <1>3. Init => TrialInv /\ RefsInv /\ CompleteInv
    BY <1>1, InitInv
  <1>4. TrialInv /\ RefsInv /\ CompleteInv /\ [Next]_vars
          => (TrialInv /\ RefsInv /\ CompleteInv)'
    BY NextInv, NextRefs, NextMarks
  <1> QED
    BY <1>2, <1>3, <1>4, PTL DEF Spec

-----------------------------------------------------------------------------
\* What the worker may put into the pipe, and what of it waits for a response.
Asks == {"llm", "tool", "archive"}
Events == Asks \cup {"note", "final", "fatal"}

NothingAsked == \A i \in DOMAIN stdout : stdout[i] \notin Asks

\* The thread owes the worker a response, or the start event.
Owes ==
  \/ thread \in {"writing", "executing", "archiving", "capturing"}
  \/ thread = "handling" /\ event \in Asks

\* The worker asks one thing at a time, so that a request in the pipe or in the
\* hands of the thread is one that turn_count does not have yet.
ConversationFits ==
  /\ stdout \in Seq(Events)
  /\ thread \in {"none", "begin", "spawning", "registering", "starting"} =>
       worker = "new" /\ stdout = <<>>
  /\ Owes => worker # "free" /\ NothingAsked
  /\ \A i, j \in DOMAIN stdout : stdout[i] \in Asks /\ stdout[j] \in Asks => i = j
  /\ ~ NothingAsked => worker = "waiting" /\ turn_count < requests
  /\ thread = "handling" /\ event = "llm" => turn_count < requests

\* What the capture under way will add is within the quotas, and so is all that
\* a journal that can be read counts, with what is still missing in it.
QuotasFit ==
  /\ capture # Idle =>
       /\ Len(entries) < MAX_ENTRIES /\ capture.what \in 0 .. captures
       /\ capture.step = "payload" => bytes_used + capture.size <= MAX_BYTES
  /\ Len(journal) <= MAX_ENTRIES
  /\ PayloadBytes(journal) <= MAX_BYTES /\ JournalBytes(journal) <= MAX_INDEX_BYTES
  /\ available /\ journal_end # "torn" =>
       /\ PayloadBytes(journal) + (IF capture.step = "journal" THEN capture.size ELSE 0)
            <= bytes_used
       /\ JournalBytes(journal) <= index_bytes

(* The quotas: a journal that is read back counts what its entries counted  *)
(* when they were written, one by one.                                      *)

\* Among any numbers there is a least.
Smaller == {pair \in Nat \X Nat : pair[1] < pair[2]}

LEMMA LeastNumber ==
  ASSUME NEW S \in SUBSET Nat, S # {}
  PROVE  \E n \in S : \A m \in S : n <= m
  <1>1. Smaller = OpToRel(<, Nat)
    BY Zenon DEF Smaller, OpToRel
  <1>2. IsWellFoundedOn(Smaller, Nat)
    BY <1>1, NatLessThanWellFounded, Zenon
  <1>3. PICK n \in S : \A m \in S : ~ (<<m, n>> \in Smaller)
    BY <1>2, WFMin, Zenon
  <1>4. \A m \in S : ~ (m < n)
    BY <1>3 DEF Smaller
  <1> QED
    BY <1>4

\* The sums of the first sizes, from none of them to k.
Sums(f, sizes, k) ==
  /\ f \in [0 .. k -> Nat] /\ f[0] = 0
  /\ \A i \in 1 .. k : f[i] = f[i - 1] + sizes[i]

\* Any sizes have sums.
LEMMA SumsExist ==
  ASSUME NEW sizes \in Seq(Nat)
  PROVE  \E f : Sums(f, sizes, Len(sizes))
  <1> DEFINE N == Len(sizes)
             bad == {k \in 0 .. N : ~ \E f : Sums(f, sizes, k)}
  <1>1. N \in Nat /\ \A i \in 1 .. N : sizes[i] \in Nat
    OBVIOUS
  <1> HIDE DEF N
  <1>2. bad = {}
    <2> SUFFICES ASSUME bad # {} PROVE FALSE
      OBVIOUS
    <2>1. bad \subseteq Nat
      BY <1>1
    <2>2. PICK k \in bad : \A j \in bad : k <= j
      BY <2>1, LeastNumber
    <2>3. k # 0
      <3>1. Sums([i \in 0 .. 0 |-> 0], sizes, 0)
        BY DEF Sums
      <3> QED
        BY <2>2, <3>1
    <2>4. k \in 1 .. N /\ k - 1 \in 0 .. N /\ k - 1 \notin bad
      <3>1. k \in 0 .. N
        OBVIOUS
      <3> HIDE DEF bad
      <3> QED
        BY <1>1, <2>1, <2>2, <2>3, <3>1
    <2>5. PICK f : Sums(f, sizes, k - 1)
      BY <2>4
    <2> DEFINE g == [i \in 0 .. k |-> IF i = k THEN f[k - 1] + sizes[k] ELSE f[i]]
    <2>6. f[k - 1] \in Nat /\ sizes[k] \in Nat
      BY <1>1, <2>4, <2>5 DEF Sums
    <2>7. g \in [0 .. k -> Nat] /\ g[0] = 0
      BY <1>1, <2>4, <2>5, <2>6 DEF Sums
    <2>8. ASSUME NEW i \in 1 .. k PROVE g[i] = g[i - 1] + sizes[i]
      <3>1. CASE i = k
        BY <1>1, <2>4, <2>5, <3>1
      <3>2. CASE i # k
        BY <1>1, <2>4, <2>5, <3>2 DEF Sums
      <3> QED
        BY <3>1, <3>2
    <2>9. Sums(g, sizes, k)
      BY <2>7, <2>8 DEF Sums
    <2> QED
      BY <2>2, <2>9
  <1>3. N \in 0 .. N /\ N \notin bad
    <2> HIDE DEF bad
    <2> QED
      BY <1>1, <1>2
  <1> QED
    BY <1>3 DEF N

\* The total is the last of the sums.
LEMMA TotalIsLastSum ==
  ASSUME NEW sizes \in Seq(Nat), NEW f, Sums(f, sizes, Len(sizes))
  PROVE  Total(sizes) = f[Len(sizes)]
  <1> DEFINE N == Len(sizes)
             sum[i \in 0 .. N] == IF i = 0 THEN 0 ELSE sum[i - 1] + sizes[i]
             odd == {i \in 0 .. N : sum[i] # f[i]}
  <1>1. N \in Nat /\ \A i \in 1 .. N : sizes[i] \in Nat
    OBVIOUS
  <1>2. Total(sizes) = sum[N]
    BY DEF Total
  <1>3. /\ f \in [0 .. N -> Nat] /\ f[0] = 0
        /\ \A i \in 1 .. N : f[i] = f[i - 1] + sizes[i]
    BY DEF Sums
  <1> HIDE DEF N
  <1>4. f = [i \in 0 .. N |-> IF i = 0 THEN 0 ELSE f[i - 1] + sizes[i]]
    <2>1. \A i \in 0 .. N : f[i] = IF i = 0 THEN 0 ELSE f[i - 1] + sizes[i]
      BY <1>1, <1>3
    <2> QED
      BY <1>3, <2>1
  <1>5. sum = [i \in 0 .. N |-> IF i = 0 THEN 0 ELSE sum[i - 1] + sizes[i]]
    BY <1>4, Zenon
  <1> HIDE DEF sum
  <1>6. odd = {}
    <2> SUFFICES ASSUME odd # {} PROVE FALSE
      OBVIOUS
    <2>1. odd \subseteq Nat
      BY <1>1
    <2>2. PICK k \in odd : \A j \in odd : k <= j
      BY <2>1, LeastNumber
    <2>3. sum[0] = 0
      BY <1>1, <1>5
    <2>4. k \in 1 .. N /\ k - 1 \in 0 .. N /\ k - 1 \notin odd
      BY <1>1, <1>3, <2>2, <2>3
    <2>5. sum[k - 1] = f[k - 1]
      BY <2>4
    <2>6. sum[k] = sum[k - 1] + sizes[k]
      BY <1>1, <1>5, <2>4
    <2>7. sum[k] = f[k]
      BY <1>3, <2>4, <2>5, <2>6
    <2> QED
      BY <2>2, <2>7
  <1>7. N \in 0 .. N /\ N \notin odd
    <2> HIDE DEF odd
    <2> QED
      BY <1>1, <1>6
  <1> QED
    BY <1>2, <1>7 DEF N

\* The total of nothing is 0, and one more size adds itself.
LEMMA TotalGrows ==
  /\ Total(<<>>) = 0
  /\ \A sizes \in Seq(Nat), size \in Nat :
       Total(sizes) \in Nat /\ Total(Append(sizes, size)) = Total(sizes) + size
  <1>1. Total(<<>>) = 0
    <2> DEFINE f == [i \in 0 .. 0 |-> 0]
    <2>1. <<>> \in Seq(Nat) /\ Len(<<>>) = 0
      OBVIOUS
    <2>2. Sums(f, <<>>, 0) /\ f[0] = 0
      BY DEF Sums
    <2> HIDE DEF f
    <2>3. Sums(f, <<>>, Len(<<>>))
      BY <2>1, <2>2
    <2> QED
      BY <2>1, <2>2, <2>3, TotalIsLastSum
  <1>2. ASSUME NEW sizes \in Seq(Nat), NEW size \in Nat
        PROVE  Total(sizes) \in Nat /\ Total(Append(sizes, size)) = Total(sizes) + size
    <2> DEFINE N == Len(sizes)
               more == Append(sizes, size)
    <2>1. PICK f : Sums(f, sizes, N)
      BY SumsExist
    <2>2. N \in Nat /\ Total(sizes) = f[N] /\ f[N] \in Nat
      <3>1. Total(sizes) = f[N]
        BY <2>1, TotalIsLastSum
      <3> QED
        BY <2>1, <3>1 DEF Sums
    <2>3. /\ more \in Seq(Nat) /\ Len(more) = N + 1 /\ more[N + 1] = size
          /\ \A i \in 1 .. N : more[i] = sizes[i]
      OBVIOUS
    <2> HIDE DEF N, more
    <2> DEFINE g == [i \in 0 .. N + 1 |-> IF i = N + 1 THEN f[N] + size ELSE f[i]]
    <2>4. g \in [0 .. N + 1 -> Nat] /\ g[0] = 0 /\ g[N + 1] = f[N] + size
      BY <2>1, <2>2 DEF Sums
    <2>5. ASSUME NEW i \in 1 .. N + 1 PROVE g[i] = g[i - 1] + more[i]
      <3>1. CASE i = N + 1
        BY <2>2, <2>3, <3>1
      <3>2. CASE i # N + 1
        <4>1. i \in 1 .. N /\ i - 1 \in 0 .. N /\ i - 1 # N + 1
          BY <2>2, <3>2
        <4>2. f[i] = f[i - 1] + sizes[i]
          BY <2>1, <4>1 DEF Sums
        <4>3. g[i] = f[i] /\ g[i - 1] = f[i - 1]
          BY <2>2, <3>2, <4>1
        <4> QED
          BY <2>3, <4>1, <4>2, <4>3
      <3> QED
        BY <3>1, <3>2
    <2>6. Sums(g, more, N + 1)
      BY <2>4, <2>5 DEF Sums
    <2> HIDE DEF g
    <2>7. Total(more) = g[N + 1]
      BY <2>3, <2>6, TotalIsLastSum
    <2> QED
      BY <2>2, <2>4, <2>7 DEF more
  <1> QED
    BY <1>1, <1>2

\* So it is with what the entries of a journal count.
LEMMA BytesGrow ==
  /\ PayloadBytes(<<>>) = 0 /\ JournalBytes(<<>>) = 0
  /\ \A s \in Seq(EntryType), e \in EntryType :
       /\ PayloadBytes(s) \in Nat /\ PayloadBytes(Append(s, e)) = PayloadBytes(s) + e.size
       /\ JournalBytes(s) \in Nat /\ JournalBytes(Append(s, e)) = JournalBytes(s) + e.line
  <1>1. PayloadBytes(<<>>) = 0 /\ JournalBytes(<<>>) = 0
    <2>1. [i \in DOMAIN <<>> |-> <<>>[i].size] = <<>> /\ [i \in DOMAIN <<>> |-> <<>>[i].line] = <<>>
      OBVIOUS
    <2> QED
      BY <2>1, TotalGrows DEF PayloadBytes, JournalBytes
  <1>2. ASSUME NEW s \in Seq(EntryType), NEW e \in EntryType
        PROVE  /\ PayloadBytes(s) \in Nat /\ PayloadBytes(Append(s, e)) = PayloadBytes(s) + e.size
               /\ JournalBytes(s) \in Nat /\ JournalBytes(Append(s, e)) = JournalBytes(s) + e.line
    <2> DEFINE t == Append(s, e)
               sizes == [i \in DOMAIN s |-> s[i].size]
               lines == [i \in DOMAIN s |-> s[i].line]
    <2>1. /\ DOMAIN s = 1 .. Len(s) /\ Len(s) \in Nat /\ DOMAIN t = 1 .. Len(s) + 1
          /\ \A i \in 1 .. Len(s) : t[i] = s[i] /\ s[i] \in EntryType
          /\ t[Len(s) + 1] = e
      OBVIOUS
    <2>2. \A x \in EntryType : x.size \in Nat /\ x.line \in Nat
      <3>1. {0} \cup Sizes \subseteq Nat /\ {0} \cup LineSizes \subseteq Nat
        BY QuotaAssumption
      <3>2. \A x \in EntryType : x.size \in {0} \cup Sizes /\ x.line \in {0} \cup LineSizes
        BY DEF EntryType
      <3> QED
        BY <3>1, <3>2
    <2>3. /\ sizes \in [1 .. Len(s) -> Nat] /\ lines \in [1 .. Len(s) -> Nat]
      BY <2>1, <2>2
    <2> HIDE DEF t
    <2>4. [i \in DOMAIN t |-> t[i].size]
            = [i \in 1 .. Len(s) + 1 |-> IF i = Len(s) + 1 THEN e.size ELSE sizes[i]]
      BY <2>1
    <2>5. [i \in DOMAIN t |-> t[i].line]
            = [i \in 1 .. Len(s) + 1 |-> IF i = Len(s) + 1 THEN e.line ELSE lines[i]]
      BY <2>1
    <2> HIDE DEF sizes, lines
    <2>6. sizes \in Seq(Nat) /\ lines \in Seq(Nat) /\ Len(sizes) = Len(s) /\ Len(lines) = Len(s)
      BY <2>1, <2>3
    <2>7. /\ [i \in DOMAIN t |-> t[i].size] = Append(sizes, e.size)
          /\ [i \in DOMAIN t |-> t[i].line] = Append(lines, e.line)
      BY <2>1, <2>2, <2>4, <2>5, <2>6
    <2>8. /\ Total(sizes) \in Nat /\ Total(Append(sizes, e.size)) = Total(sizes) + e.size
          /\ Total(lines) \in Nat /\ Total(Append(lines, e.line)) = Total(lines) + e.line
      BY <2>2, <2>6, TotalGrows
    <2> QED
      BY <2>7, <2>8 DEF PayloadBytes, JournalBytes, sizes, lines, t
  <1> QED
    BY <1>1, <1>2

\* Lines cut off, added or spoiled by one entry at most leave what a journal
\* counts within what the archive will have counted.
LEMMA JournalStays ==
  ASSUME ArchiveFits, ArchiveTypeOK, QuotasFit, TornJournal,
         capture # Idle \/ UNCHANGED <<journal, journal_end>>
  PROVE  /\ journal' \in Seq(EntryType) /\ journal_end' \in {"none", "whole", "bare", "torn"}
         /\ Len(journal') <= MAX_ENTRIES
         /\ PayloadBytes(journal') <= MAX_BYTES /\ JournalBytes(journal') <= MAX_INDEX_BYTES
  <1>1. CASE UNCHANGED journal
    BY <1>1 DEF ArchiveFits, QuotasFit, TornJournal, JournalGrows
  <1>2. CASE ~ UNCHANGED journal
    <2>1. PICK line \in LineSizes :
            /\ index_bytes + line <= MAX_INDEX_BYTES
            /\ capture.step \in {"mention", "journal"} /\ capture # Idle
            /\ journal_end \notin {"bare", "torn"}
            /\ journal' = Append(journal, Captured(line)) /\ journal_end' \in {"whole", "bare"}
      BY <1>2 DEF TornJournal, JournalGrows
    <2>2. /\ available /\ journal = entries /\ journal \in Seq(EntryType)
          /\ Captured(line) \in EntryType /\ Len(journal) < MAX_ENTRIES
      BY <2>1, EntriesHaveTheirType DEF ArchiveFits, QuotasFit
    <2>3. /\ Captured(line).line = line
          /\ Captured(line).size = IF capture.step = "journal" THEN capture.size ELSE 0
      BY <2>1 DEF Captured, Entry
    <2>4. /\ PayloadBytes(journal) + Captured(line).size <= bytes_used
          /\ JournalBytes(journal) <= index_bytes
      BY <2>1, <2>2, <2>3 DEF QuotasFit
    <2>5. /\ PayloadBytes(journal') = PayloadBytes(journal) + Captured(line).size
          /\ JournalBytes(journal') = JournalBytes(journal) + line
          /\ JournalBytes(journal) \in Nat
      BY <2>1, <2>2, <2>3, BytesGrow
    <2>6. /\ bytes_used \in 0 .. MAX_BYTES /\ index_bytes \in Nat /\ line \in Nat
          /\ MAX_BYTES \in Nat /\ MAX_INDEX_BYTES \in Nat /\ MAX_ENTRIES \in Nat
      BY QuotaAssumption DEF ArchiveTypeOK
    <2>7. journal' \in Seq(EntryType) /\ Len(journal') = Len(journal) + 1
      BY <2>1, <2>2
    <2>8. PayloadBytes(journal') <= MAX_BYTES
      <3>1. PayloadBytes(journal') <= bytes_used
        BY <2>4, <2>5
      <3>2. PayloadBytes(journal') \in Nat
        BY <2>7, BytesGrow
      <3> QED
        BY <2>6, <3>1, <3>2
    <2>9. JournalBytes(journal') <= MAX_INDEX_BYTES
      BY <2>1, <2>4, <2>5, <2>6
    <2>10. Len(journal') <= MAX_ENTRIES
      BY <2>2, <2>6, <2>7
    <2> QED
      BY <2>1, <2>7, <2>8, <2>9, <2>10
  <1> QED
    BY <1>1, <1>2

\* A payload that was written whole or in part has the number that is next, and
\* is the one under way or cut off.
LEMMA PayloadsStay ==
  ASSUME ArchiveFits, ArchiveTypeOK, QuotasFit, capture # Idle,
         NEW part \in {0, capture.what},
         UNCHANGED payloads \/ payloads' = [n \in DOMAIN payloads \cup {Number} |->
                                              IF n = Number THEN part ELSE payloads[n]]
  PROVE  /\ DOMAIN payloads' \subseteq 1 .. MAX_ENTRIES
         /\ \A n \in DOMAIN payloads' : payloads'[n] \in 0 .. captures
  <1>1. Number \in 1 .. MAX_ENTRIES /\ part \in 0 .. captures
    <2>1. Len(entries) \in Nat /\ Len(entries) < MAX_ENTRIES /\ captures \in Nat
      BY QuotaAssumption DEF ArchiveFits, QuotasFit
    <2> QED
      BY <2>1, QuotaAssumption DEF Number, QuotasFit
  <1> QED
    BY <1>1 DEF ArchiveTypeOK

\* A capture begins within the quotas.
LEMMA CaptureStartCounts ==
  ASSUME ArchiveFits, ArchiveTypeOK, QuotasFit, NEW size \in Sizes,
         NEW sensitive \in BOOLEAN, NEW status \in {"partial", "complete"},
         CaptureStart(size, sensitive, status)
  PROVE  ArchiveTypeOK' /\ QuotasFit'
  <1>1. /\ capture = Idle
        /\ UNCHANGED <<available, entries, bytes_used, index_bytes, payloads, journal,
                       journal_end, returned>>
    BY DEF CaptureStart
  <1>2. CASE ~ HasQuota
    <2>1. UNCHANGED <<capture, captures>>
      BY <1>2 DEF CaptureStart
    <2> QED
      BY <1>1, <2>1 DEF ArchiveTypeOK, QuotasFit
  <1>3. CASE HasQuota
    <2>1. /\ captures < MaxCaptures /\ captures' = captures + 1
          /\ capture' = [step |-> IF sensitive \/ bytes_used + size > MAX_BYTES
                                  THEN "mention" ELSE "payload",
                         what |-> captures + 1, size |-> size, status |-> status]
      BY <1>3 DEF CaptureStart
    <2>2. captures \in Nat /\ MaxCaptures \in Nat /\ captures' \in 0 .. MaxCaptures
      BY <2>1, QuotaAssumption DEF ArchiveTypeOK
    <2>3. size \in Nat /\ bytes_used \in Nat /\ MAX_BYTES \in Nat
      BY QuotaAssumption DEF ArchiveTypeOK
    <2>4. /\ capture'.step \in {"mention", "payload"} /\ capture'.what \in 0 .. captures'
          /\ capture'.step = "payload" => bytes_used + capture'.size <= MAX_BYTES
      BY <2>1, <2>2, <2>3
    <2>5. ArchiveTypeOK'
      BY <1>1, <2>1, <2>2, <2>4 DEF ArchiveTypeOK
    <2>6. QuotasFit'
      BY <1>1, <1>3, <2>4 DEF QuotasFit, HasQuota, Idle
    <2> QED
      BY <2>5, <2>6
  <1> QED
    BY <1>2, <1>3

\* The payload adds what was kept free for it.
LEMMA WritePayloadCounts ==
  ASSUME ArchiveFits, ArchiveTypeOK, QuotasFit, WritePayload
  PROVE  ArchiveTypeOK' /\ QuotasFit'
  <1>1. /\ capture.step = "payload" /\ capture # Idle
        /\ bytes_used' = bytes_used + capture.size
        /\ UNCHANGED <<available, entries, index_bytes, journal, journal_end, captures, returned>>
        /\ payloads' = [n \in DOMAIN payloads \cup {Number} |->
                          IF n = Number THEN capture.what ELSE payloads[n]]
    BY DEF WritePayload, Idle
  <1>2. /\ capture'.step = "journal" /\ capture'.what = capture.what
        /\ capture'.size = capture.size /\ capture.size \in Nat
    BY <1>1, QuotaAssumption DEF WritePayload, ArchiveFits, CaptureType
  <1>3. /\ bytes_used + capture.size <= MAX_BYTES /\ bytes_used \in Nat /\ MAX_BYTES \in Nat
    BY <1>1, QuotaAssumption DEF QuotasFit, ArchiveTypeOK
  <1>4. /\ DOMAIN payloads' \subseteq 1 .. MAX_ENTRIES
        /\ \A n \in DOMAIN payloads' : payloads'[n] \in 0 .. captures
    BY <1>1, PayloadsStay
  <1>5. bytes_used' \in 0 .. MAX_BYTES
    BY <1>1, <1>2, <1>3
  <1>6. ArchiveTypeOK'
    BY <1>1, <1>2, <1>4, <1>5 DEF ArchiveTypeOK
  <1>7. available /\ journal_end # "torn" =>
          /\ PayloadBytes(journal) + capture.size <= bytes_used'
          /\ JournalBytes(journal) <= index_bytes
    <2>1. PayloadBytes(journal) \in Nat
      BY BytesGrow DEF ArchiveFits
    <2> QED
      BY <1>1, <1>2, <1>3, <2>1 DEF QuotasFit
  <1>8. QuotasFit'
    BY <1>1, <1>2, <1>7 DEF QuotasFit
  <1> QED
    BY <1>6, <1>8

\* The line adds what was checked to fit, in memory and on disk.
LEMMA AppendJournalCounts ==
  ASSUME ArchiveFits, ArchiveTypeOK, QuotasFit, AppendJournal
  PROVE  ArchiveTypeOK' /\ QuotasFit'
  <1>1. PICK line \in LineSizes :
          /\ index_bytes + line <= MAX_INDEX_BYTES
          /\ JournalGrows(Captured(line)) /\ index_bytes' = index_bytes + line
          /\ entries' = Append(entries, Captured(line))
          /\ returned' = IF Captured(line).ref
                         THEN returned \cup {[n |-> Number, entry |-> Captured(line)]}
                         ELSE returned
    BY DEF AppendJournal
  <1>2. /\ capture.step \in {"mention", "journal"} /\ capture # Idle /\ capture' = Idle
        /\ UNCHANGED <<available, bytes_used, payloads, captures>>
    BY DEF AppendJournal, Idle
  <1>3. /\ Captured(line) \in EntryType /\ Captured(line).line = line
        /\ Captured(line).size = IF capture.step = "journal" THEN capture.size ELSE 0
    BY <1>2, EntriesHaveTheirType DEF Captured, Entry
  <1>4. /\ entries \in Seq(EntryType) /\ journal \in Seq(EntryType) /\ available
        /\ Len(entries) < MAX_ENTRIES /\ Len(entries) \in Nat
    BY <1>2 DEF ArchiveFits, QuotasFit
  <1>5. /\ bytes_used \in 0 .. MAX_BYTES /\ index_bytes \in Nat /\ line \in Nat
        /\ MAX_BYTES \in Nat /\ MAX_INDEX_BYTES \in Nat /\ MAX_ENTRIES \in Nat
    BY QuotaAssumption DEF ArchiveTypeOK
  <1>6. entries' \in Seq(EntryType) /\ Len(entries') <= MAX_ENTRIES
    BY <1>1, <1>3, <1>4, <1>5
  <1>7. index_bytes' \in 0 .. MAX_INDEX_BYTES
    BY <1>1, <1>5
  <1>8. TornJournal
    BY <1>1, <1>2 DEF TornJournal
  <1>9. \A r \in returned' : r.n \in 1 .. MAX_ENTRIES /\ r.entry \in EntryType
    <2>1. Number \in 1 .. MAX_ENTRIES
      BY <1>4, <1>5 DEF Number
    <2> QED
      BY <1>1, <1>3, <2>1 DEF ArchiveTypeOK
  <1>10. ArchiveTypeOK'
    <2>1. journal' \in Seq(EntryType) /\ journal_end' \in {"none", "whole", "bare", "torn"}
      BY <1>2, <1>8, JournalStays
    <2> QED
      BY <1>2, <1>6, <1>7, <1>9, <2>1 DEF ArchiveTypeOK, Idle
  <1>11. available' /\ journal_end' # "torn" =>
           PayloadBytes(journal') <= bytes_used' /\ JournalBytes(journal') <= index_bytes'
    <2> SUFFICES ASSUME journal_end' # "torn"
                 PROVE  /\ PayloadBytes(journal') <= bytes_used
                        /\ JournalBytes(journal') <= index_bytes + line
      BY <1>1, <1>2
    <2>1. journal_end # "torn" /\ journal' = Append(journal, Captured(line))
      BY <1>1 DEF JournalGrows
    <2>2. /\ PayloadBytes(journal') = PayloadBytes(journal) + Captured(line).size
          /\ JournalBytes(journal') = JournalBytes(journal) + line
          /\ JournalBytes(journal) \in Nat
      BY <1>3, <1>4, <2>1, BytesGrow
    <2>3. /\ PayloadBytes(journal) + Captured(line).size <= bytes_used
          /\ JournalBytes(journal) <= index_bytes
      BY <1>3, <1>4, <2>1 DEF QuotasFit
    <2>4. PayloadBytes(journal') <= bytes_used
      BY <2>2, <2>3
    <2>5. JournalBytes(journal') <= index_bytes + line
      BY <1>5, <2>2, <2>3
    <2> QED
      BY <2>4, <2>5
  <1>12. QuotasFit'
    <2>1. /\ Len(journal') <= MAX_ENTRIES /\ PayloadBytes(journal') <= MAX_BYTES
          /\ JournalBytes(journal') <= MAX_INDEX_BYTES
      BY <1>2, <1>8, JournalStays
    <2>2. PayloadBytes(journal') + 0 = PayloadBytes(journal')
      <3>1. journal' \in Seq(EntryType)
        BY <1>10 DEF ArchiveTypeOK
      <3> QED
        BY <3>1, BytesGrow
    <2> QED
      BY <1>2, <1>11, <2>1, <2>2 DEF QuotasFit, Idle
  <1> QED
    BY <1>10, <1>12

\* A capture that fails or gives up leaves an entry without a result, or none.
LEMMA CaptureEndsCount ==
  ASSUME ArchiveFits, ArchiveTypeOK, QuotasFit, JournalFull \/ Fail
  PROVE  ArchiveTypeOK' /\ QuotasFit'
  <1>1. capture # Idle /\ capture' = Idle /\ UNCHANGED <<bytes_used, index_bytes, captures, returned>>
    BY DEF JournalFull, Fail, Idle
  <1>2. CASE JournalFull
    <2>1. UNCHANGED <<available, entries, payloads, journal, journal_end>>
      BY <1>2 DEF JournalFull
    <2>2. ArchiveTypeOK'
      BY <1>1, <2>1 DEF ArchiveTypeOK, Idle
    <2>3. available /\ journal_end # "torn" => PayloadBytes(journal) + 0 <= bytes_used
      <3>1. PayloadBytes(journal) \in Nat /\ bytes_used \in Nat
        BY BytesGrow, QuotaAssumption DEF ArchiveTypeOK
      <3>2. capture.size \in Nat
        BY <1>1, QuotaAssumption DEF ArchiveFits, CaptureType
      <3> QED
        BY <3>1, <3>2 DEF QuotasFit
    <2>4. QuotasFit'
      BY <1>1, <2>1, <2>3 DEF QuotasFit, Idle
    <2> QED
      BY <2>2, <2>4
  <1>3. CASE Fail
    <2>1. TornPayload /\ TornJournal /\ entries' = Append(entries, Unavailable) /\ available' = FALSE
      BY <1>3 DEF Fail
    <2>2. /\ journal' \in Seq(EntryType) /\ journal_end' \in {"none", "whole", "bare", "torn"}
          /\ Len(journal') <= MAX_ENTRIES
          /\ PayloadBytes(journal') <= MAX_BYTES /\ JournalBytes(journal') <= MAX_INDEX_BYTES
      BY <1>1, <2>1, JournalStays
    <2>3. /\ DOMAIN payloads' \subseteq 1 .. MAX_ENTRIES
          /\ \A n \in DOMAIN payloads' : payloads'[n] \in 0 .. captures
      BY <1>1, <2>1, PayloadsStay DEF TornPayload
    <2>4. entries' \in Seq(EntryType) /\ Len(entries') <= MAX_ENTRIES
      <3>1. entries \in Seq(EntryType) /\ Len(entries) < MAX_ENTRIES /\ Unavailable \in EntryType
        BY <1>1, EntriesHaveTheirType DEF ArchiveFits, QuotasFit
      <3> QED
        BY <2>1, <3>1, QuotaAssumption
    <2>5. ArchiveTypeOK'
      BY <1>1, <2>1, <2>2, <2>3, <2>4 DEF ArchiveTypeOK, Idle
    <2>6. QuotasFit'
      BY <1>1, <2>1, <2>2 DEF QuotasFit
    <2> QED
      BY <2>5, <2>6
  <1> QED
    BY <1>2, <1>3

\* Every step of a capture.
LEMMA CaptureStepCounts ==
  ASSUME ArchiveFits, ArchiveTypeOK, QuotasFit, CaptureStep
  PROVE  ArchiveTypeOK' /\ QuotasFit'
  BY WritePayloadCounts, AppendJournalCounts, CaptureEndsCount DEF CaptureStep

\* What a dead process leaves is within the quotas.
LEMMA DieCounts ==
  ASSUME ArchiveFits, ArchiveTypeOK, QuotasFit, Die
  PROVE  ArchiveTypeOK' /\ QuotasFit'
  <1>1. /\ TornPayload /\ TornJournal /\ capture' = Idle /\ available' = FALSE
        /\ entries' = <<>> /\ bytes_used' = 0 /\ index_bytes' = 0
        /\ UNCHANGED <<captures, returned>>
    BY DEF Die
  <1>2. capture = Idle => UNCHANGED <<payloads, journal, journal_end>>
    BY <1>1 DEF TornPayload, TornJournal, Idle
  <1>3. /\ journal' \in Seq(EntryType) /\ journal_end' \in {"none", "whole", "bare", "torn"}
        /\ Len(journal') <= MAX_ENTRIES
        /\ PayloadBytes(journal') <= MAX_BYTES /\ JournalBytes(journal') <= MAX_INDEX_BYTES
    BY <1>1, <1>2, JournalStays
  <1>4. /\ DOMAIN payloads' \subseteq 1 .. MAX_ENTRIES
        /\ \A n \in DOMAIN payloads' : payloads'[n] \in 0 .. captures
    <2>1. CASE capture = Idle
      BY <1>2, <2>1 DEF ArchiveTypeOK
    <2>2. CASE capture # Idle
      BY <1>1, <2>2, PayloadsStay DEF TornPayload
    <2> QED
      BY <2>1, <2>2
  <1>5. entries' \in Seq(EntryType) /\ Len(entries') <= MAX_ENTRIES
        /\ 0 \in 0 .. MAX_BYTES /\ 0 \in 0 .. MAX_INDEX_BYTES
    BY <1>1, QuotaAssumption
  <1>6. ArchiveTypeOK'
    BY <1>1, <1>3, <1>4, <1>5 DEF ArchiveTypeOK, Idle
  <1>7. QuotasFit'
    BY <1>1, <1>3 DEF QuotasFit
  <1> QED
    BY <1>6, <1>7

\* Reading the journal back counts the same again.
LEMMA ReopenCounts ==
  ASSUME ArchiveFits, ArchiveTypeOK, QuotasFit, Reopen, capture = Idle
  PROVE  ArchiveTypeOK' /\ QuotasFit'
  <1>1. /\ available' = (journal_end \in {"whole", "bare"})
        /\ entries' = IF available' THEN journal ELSE <<>>
        /\ bytes_used' = PayloadBytes(entries') /\ index_bytes' = JournalBytes(entries')
        /\ UNCHANGED <<payloads, journal, journal_end, capture, captures, returned>>
    BY DEF Reopen
  <1>2. /\ journal \in Seq(EntryType) /\ Len(journal) <= MAX_ENTRIES
        /\ PayloadBytes(journal) \in Nat /\ PayloadBytes(journal) <= MAX_BYTES
        /\ JournalBytes(journal) \in Nat /\ JournalBytes(journal) <= MAX_INDEX_BYTES
        /\ MAX_BYTES \in Nat /\ MAX_INDEX_BYTES \in Nat /\ MAX_ENTRIES \in Nat
    BY BytesGrow, QuotaAssumption DEF ArchiveFits, QuotasFit
  <1>3. /\ entries' \in Seq(EntryType) /\ Len(entries') <= MAX_ENTRIES
        /\ bytes_used' \in 0 .. MAX_BYTES /\ index_bytes' \in 0 .. MAX_INDEX_BYTES
    <2>1. CASE available'
      BY <1>1, <1>2, <2>1
    <2>2. CASE ~ available'
      <3>1. entries' = <<>> /\ <<>> \in Seq(EntryType) /\ Len(<<>>) = 0
        BY <1>1, <2>2
      <3>2. bytes_used' = 0 /\ index_bytes' = 0
        BY <1>1, <3>1, BytesGrow
      <3> QED
        BY <1>2, <3>1, <3>2
    <2> QED
      BY <2>1, <2>2
  <1>4. available' \in BOOLEAN
    BY <1>1
  <1>5. ArchiveTypeOK'
    BY <1>1, <1>3, <1>4 DEF ArchiveTypeOK
  <1>6. QuotasFit'
    <2>1. available' => PayloadBytes(journal) + 0 <= bytes_used' /\ JournalBytes(journal) <= index_bytes'
      BY <1>1, <1>2
    <2> QED
      BY <1>1, <2>1 DEF QuotasFit, Idle
  <1> QED
    BY <1>5, <1>6

-----------------------------------------------------------------------------
(* The conversation.                                                        *)

\* The part of TypeOK that is about the trial.
TrialTypeOK ==
  /\ host \in {"run", "crashed", "recovery"}
  /\ adapter \in {"idle", "waiting", "noting", "stopping", "snapshot",
                  "cancelled", "done"}
  /\ process \in {"none", "running", "exited", "failed"}
  /\ worker \in {"new", "free", "waiting", "ended"}
  /\ Len(stdout) <= MaxStdout /\ requests \in 0 .. MaxRequests
  /\ event \in {"none"} \cup Events
  /\ run_cancellation \in {"none", "armed", "set"}
  /\ turn_count \in 0 .. requests
  /\ result \in {"none", "complete", "error"}
  /\ context.status \in {"none", "complete", "error", "cancelled"}
  /\ signalled \in BOOLEAN /\ active_process \in BOOLEAN /\ published \in BOOLEAN
  /\ active_run \in 0 .. 2 /\ trajectory \subseteq {1}

Conversation == TrialTypeOK /\ ConversationFits

\* Before the trial nothing was said.
LEMMA InitConverses == Init => Conversation
  <1> SUFFICES ASSUME Init PROVE Conversation
    OBVIOUS
  <1>1. /\ MaxStdout \in Nat /\ MaxRequests \in Nat /\ <<>> \in Seq(Events)
        /\ Len(<<>>) = 0 /\ DOMAIN <<>> = {}
    BY BoundsAssumption
  <1>2. TrialTypeOK
    <2>1. signalled \in BOOLEAN /\ active_process \in BOOLEAN /\ published \in BOOLEAN
      BY DEF Init
    <2> QED
      BY <1>1, <2>1 DEF Init, TrialTypeOK
  <1>3. ConversationFits
    BY <1>1 DEF Init, ConversationFits, NothingAsked, Owes
  <1> QED
    BY <1>2, <1>3 DEF Conversation

\* A run's events get into the trajectory, and nothing else.
LEMMA SinkFits == trajectory \subseteq {1} /\ Sink => trajectory' \subseteq {1}
  BY DEF Sink

\* What the worker puts into the pipe.
LEMMA EmitFits ==
  ASSUME Conversation, NEW e \in Events, Emit(e)
  PROVE  /\ stdout' \in Seq(Events) /\ Len(stdout') <= MaxStdout
         /\ NothingAsked /\ ~ Owes
         /\ thread \notin {"none", "begin", "spawning", "registering", "starting"}
         /\ worker = "free" /\ signalled' = signalled /\ process' = process
         /\ e \notin Asks => NothingAsked'
         /\ \A i, j \in DOMAIN stdout' : stdout'[i] \in Asks /\ stdout'[j] \in Asks => i = j
  <1>1. /\ worker = "free" /\ Len(stdout) < MaxStdout /\ stdout' = Append(stdout, e)
        /\ stdout \in Seq(Events) /\ signalled' = signalled /\ process' = process
    BY DEF Emit, Conversation, ConversationFits
  <1>2. /\ NothingAsked /\ ~ Owes
        /\ thread \notin {"none", "begin", "spawning", "registering", "starting"}
    BY <1>1 DEF Conversation, ConversationFits
  <1>3. /\ stdout' \in Seq(Events) /\ Len(stdout') = Len(stdout) + 1
        /\ DOMAIN stdout' = DOMAIN stdout \cup {Len(stdout) + 1}
        /\ \A n \in DOMAIN stdout : stdout'[n] = stdout[n]
        /\ stdout'[Len(stdout) + 1] = e
    BY <1>1, AppendKeeps
  <1>4. Len(stdout') <= MaxStdout
    BY <1>1, <1>3, BoundsAssumption
  <1>5. \A i \in DOMAIN stdout' : stdout'[i] \in Asks => i = Len(stdout) + 1
    BY <1>2, <1>3 DEF NothingAsked
  <1> QED
    BY <1>1, <1>2, <1>3, <1>4, <1>5 DEF NothingAsked

\* The worker's steps.
LEMMA WorkerConverses == Conversation /\ WorkerStep => Conversation'
  <1> SUFFICES ASSUME Conversation, WorkerStep PROVE Conversation'
    OBVIOUS
  <1>1. /\ UNCHANGED <<host, thread, run_cancellation, active_process, event, turn_count,
                       result, adapter, context, active_run, published, trajectory>>
    BY DEF WorkerStep, sharedVars, ownVars, adapterVars
  <1>2. requests \in Nat /\ turn_count \in Nat /\ MaxRequests \in Nat
    BY BoundsAssumption DEF Conversation, TrialTypeOK
  <1> USE DEF Conversation, TrialTypeOK
  <1>3. CASE WorkerNote
    <2>1. Emit("note") /\ "note" \in Events /\ "note" \notin Asks
          /\ UNCHANGED <<worker, requests>>
      BY <1>3 DEF WorkerNote, Events, Asks
    <2>2. /\ stdout' \in Seq(Events) /\ Len(stdout') <= MaxStdout /\ ~ Owes
          /\ thread \notin {"none", "begin", "spawning", "registering", "starting"}
          /\ signalled' = signalled /\ process' = process /\ NothingAsked'
          /\ \A i, j \in DOMAIN stdout' : stdout'[i] \in Asks /\ stdout'[j] \in Asks => i = j
      BY <2>1, EmitFits
    <2> QED
      BY <1>1, <2>1, <2>2 DEF ConversationFits, Owes
  <1>4. CASE WorkerRequest
    <2>1. PICK e \in Asks : Emit(e)
      BY <1>4 DEF WorkerRequest, Asks
    <2>2. /\ worker' = "waiting" /\ requests' = requests + 1 /\ requests' \in 0 .. MaxRequests
          /\ turn_count < requests' /\ turn_count \in 0 .. requests'
      BY <1>2, <1>4 DEF WorkerRequest
    <2>3. /\ stdout' \in Seq(Events) /\ Len(stdout') <= MaxStdout /\ ~ Owes
          /\ thread \notin {"none", "begin", "spawning", "registering", "starting"}
          /\ signalled' = signalled /\ process' = process
          /\ \A i, j \in DOMAIN stdout' : stdout'[i] \in Asks /\ stdout'[j] \in Asks => i = j
      BY <2>1, EmitFits DEF Events
    <2> QED
      BY <1>1, <2>2, <2>3 DEF ConversationFits, Owes
  <1>5. CASE WorkerEnd
    <2>1. PICK e \in Events \ Asks : Emit(e)
      BY <1>5 DEF WorkerEnd, Events, Asks
    <2>2. worker' = "ended" /\ requests' = requests
      BY <1>5 DEF WorkerEnd
    <2>3. /\ stdout' \in Seq(Events) /\ Len(stdout') <= MaxStdout /\ ~ Owes
          /\ thread \notin {"none", "begin", "spawning", "registering", "starting"}
          /\ signalled' = signalled /\ process' = process /\ NothingAsked'
          /\ \A i, j \in DOMAIN stdout' : stdout'[i] \in Asks /\ stdout'[j] \in Asks => i = j
      BY <2>1, EmitFits
    <2> QED
      BY <1>1, <2>2, <2>3 DEF ConversationFits, Owes
  <1>6. CASE WorkerExit \/ WorkerKilled
    <2>1. /\ process' \in {"exited", "failed"} /\ UNCHANGED <<signalled, worker, stdout, requests>>
      BY <1>6 DEF WorkerExit, WorkerKilled
    <2> QED
      BY <1>1, <2>1 DEF ConversationFits, Owes, NothingAsked
  <1> QED
    BY <1>3, <1>4, <1>5, <1>6 DEF WorkerStep

\* What the thread takes out of the pipe.
LEMMA ReceiveConverses ==
  ASSUME Conversation, Receive, UNCHANGED <<host, adapterVars, trajectory>>
  PROVE  Conversation'
  <1> USE DEF Conversation, TrialTypeOK
  <1>1. /\ UNCHANGED <<host, adapter, context, active_run, published, trajectory, process,
                       signalled, worker, requests, run_cancellation, active_process,
                       turn_count, result>>
        /\ thread = "reading" /\ thread' \in {"handling", "failing"}
    BY DEF Receive, Step, sharedVars, adapterVars
  <1>2. CASE stdout = <<>>
    <2>1. UNCHANGED <<stdout, event>> /\ thread' = "failing"
      BY <1>2 DEF Receive, Step
    <2> QED
      BY <1>1, <2>1 DEF ConversationFits, Owes, NothingAsked
  <1>3. CASE stdout # <<>>
    <2>1. stdout' = Tail(stdout) /\ event' = Head(stdout) /\ stdout \in Seq(Events)
      BY <1>3 DEF Receive, ConversationFits
    <2>2. /\ Len(stdout) \in Nat /\ 1 \in DOMAIN stdout /\ event' = stdout[1]
          /\ stdout' \in Seq(Events) /\ Len(stdout') = Len(stdout) - 1
          /\ \A i \in DOMAIN stdout' : /\ i + 1 \in DOMAIN stdout /\ i + 1 # 1
                                       /\ stdout'[i] = stdout[i + 1]
                                       /\ i \in Nat
      BY <1>3, <2>1
    <2>3. event' \in Events /\ Len(stdout') <= MaxStdout
      BY <2>2, BoundsAssumption DEF ConversationFits
    <2>4. event' \in Asks => NothingAsked' /\ worker = "waiting" /\ turn_count < requests
      BY <2>2 DEF ConversationFits, NothingAsked
    <2>5. ~ NothingAsked' => worker = "waiting" /\ turn_count < requests
      BY <2>2 DEF ConversationFits, NothingAsked
    <2>6. ASSUME NEW i \in DOMAIN stdout', NEW j \in DOMAIN stdout',
                 stdout'[i] \in Asks, stdout'[j] \in Asks
          PROVE  i = j
      <3>1. i + 1 = j + 1
        BY <2>2, <2>6 DEF ConversationFits
      <3> QED
        BY <2>2, <3>1
    <2> QED
      BY <1>1, <2>2, <2>3, <2>4, <2>5, <2>6 DEF ConversationFits, Owes, Asks
  <1> QED
    BY <1>2, <1>3

\* The model call that a turn counts is one the worker asked for.
LEMMA ThreadLocalConverses ==
  ASSUME Conversation, ThreadLocal, UNCHANGED <<host, adapterVars, trajectory>>
  PROVE  Conversation'
  <1>1. turn_count \in Nat /\ requests \in Nat
    BY BoundsAssumption DEF Conversation, TrialTypeOK
  <1>2. CASE Receive
    BY <1>2, ReceiveConverses
  <1> USE DEF Conversation, TrialTypeOK, ConversationFits, Owes, NothingAsked,
              childVars, sharedVars, ownVars, adapterVars
  <1>3. CASE Begin
    BY <1>3 DEF Begin, Step
  <1>4. CASE Spawn
    BY <1>4 DEF Spawn, Step
  <1>5. CASE Register
    BY <1>5 DEF Register, Step
  <1>6. CASE CheckBeforeStart
    BY <1>6 DEF CheckBeforeStart, Quietly, Step
  <1>7. CASE Write
    BY <1>7 DEF Write, Step
  <1>8. CASE BeginAction
    <2>1. CASE event = "llm"
      <3>1. turn_count' = turn_count + 1 /\ turn_count < requests /\ thread' = "writing"
            /\ UNCHANGED <<process, signalled, worker, stdout, requests, run_cancellation,
                           active_process, event, result>>
        BY <1>8, <2>1 DEF BeginAction, Step
      <3>2. turn_count' \in 0 .. requests
        BY <1>1, <3>1
      <3>3. Owes /\ NothingAsked /\ worker # "free"
        BY <1>8, <2>1 DEF BeginAction, Step, Asks
      <3> QED
        BY <3>1, <3>2, <3>3
    <2>2. CASE event = "tool"
      BY <1>8, <2>2 DEF BeginAction, Step, Asks
    <2> QED
      BY <1>8, <2>1, <2>2 DEF BeginAction
  <1>9. CASE ToolReturns
    BY <1>9 DEF ToolReturns, Step
  <1>10. CASE HandleOther
    BY <1>10 DEF HandleOther, Quietly, Step, Asks
  <1>11. CASE Finish
    BY <1>11 DEF Finish, Step
  <1>12. CASE Terminate
    BY <1>12 DEF Terminate, Step, Signal, Running
  <1>13. CASE Cleanup
    <2>1. active_process' \in BOOLEAN
      BY <1>13 DEF Cleanup
    <2> QED
      BY <1>13, <2>1 DEF Cleanup, Step
  <1> QED
    BY <1>2, <1>3, <1>4, <1>5, <1>6, <1>7, <1>8, <1>9, <1>10, <1>11, <1>12, <1>13
    DEF ThreadLocal

\* The thread's steps.
LEMMA ThreadConverses == Conversation /\ ThreadStep => Conversation'
  <1> SUFFICES ASSUME Conversation, ThreadStep PROVE Conversation'
    OBVIOUS
  <1>1. UNCHANGED <<host, adapterVars>>
    BY DEF ThreadStep
  <1>2. CASE ThreadLocal /\ UNCHANGED <<trajectory, archiveVars>>
    BY <1>1, <1>2, ThreadLocalConverses
  <1> USE DEF Conversation, TrialTypeOK, ConversationFits, Owes, NothingAsked,
              childVars, sharedVars, ownVars, adapterVars
  <1>3. CASE HandleNote
    BY <1>1, <1>3, SinkFits DEF HandleNote, Quietly, Step
  <1>4. CASE Leave
    <2>1. trajectory' \subseteq {1} /\ result' \in {"none", "complete", "error"}
      BY <1>4, SinkFits DEF Leave
    <2>2. /\ UNCHANGED <<childVars, active_process, event, turn_count>>
          /\ run_cancellation' = "none" /\ thread' = "returned"
      BY <1>4 DEF Leave, Step
    <2> QED
      BY <1>1, <2>1, <2>2
  <1>5. CASE Archive
    BY <1>1, <1>5 DEF Archive, Quietly, Step
  <1>6. CASE Capture
    BY <1>1, <1>6 DEF Capture, Quietly, Step
  <1> QED
    BY <1>2, <1>3, <1>4, <1>5, <1>6 DEF ThreadStep

\* The coroutine takes no part in it.
LEMMA AdapterConverses == TrialInv /\ Conversation /\ AdapterStep => Conversation'
  <1> SUFFICES ASSUME TrialInv, Conversation, AdapterStep PROVE Conversation'
    OBVIOUS
  <1>1. host' = host
    BY DEF AdapterStep
  <1> USE <1>1 DEF Conversation, TrialTypeOK, ConversationFits, Owes, NothingAsked,
              childVars, sharedVars, ownVars
  <1>2. CASE Start
    <2>1. thread = "none"
      BY <1>2 DEF Start, TrialInv, ActorsFit
    <2> QED
      BY <1>2, <2>1 DEF Start
  <1>3. CASE Publish
    BY <1>3 DEF Publish
  <1>4. CASE Cancel
    BY <1>4 DEF Cancel
  <1>5. CASE NoteCancellation
    BY <1>5, SinkFits DEF NoteCancellation
  <1>6. CASE StopWorker
    BY <1>6 DEF StopWorker, Signal, Running
  <1>7. CASE Snapshot
    BY <1>7, SinkFits DEF Snapshot
  <1>8. CASE PublishLate
    <2>1. published' \in BOOLEAN
      BY <1>8 DEF PublishLate
    <2>2. /\ context'.status \in {"none", "complete", "error", "cancelled"}
          /\ trajectory' \subseteq {1}
      <3>1. CASE active_run = 1
        BY <1>8, <3>1, SinkFits DEF PublishLate
      <3>2. CASE active_run # 1
        BY <1>8, <3>2 DEF PublishLate
      <3> QED
        BY <3>1, <3>2
    <2>3. UNCHANGED <<thread, childVars, sharedVars, ownVars, adapter, active_run>>
      BY <1>8 DEF PublishLate
    <2> QED
      BY <2>1, <2>2, <2>3
  <1>9. CASE NextRun
    BY <1>9 DEF NextRun
  <1> QED
    BY <1>2, <1>3, <1>4, <1>5, <1>6, <1>7, <1>8, <1>9 DEF AdapterStep, AdapterWork

\* Every step; the crash ends the conversation.
LEMMA NextConverses == TrialInv /\ Conversation /\ [Next]_vars => Conversation'
  <1> SUFFICES ASSUME TrialInv, Conversation, [Next]_vars PROVE Conversation'
    OBVIOUS
  <1>1. CASE Crash
    <2>1. MaxStdout \in Nat /\ MaxRequests \in Nat /\ <<>> \in Seq(Events) /\ Len(<<>>) = 0
      BY BoundsAssumption
    <2>2. signalled' \in BOOLEAN /\ active_process' \in BOOLEAN /\ published' \in BOOLEAN
      BY <1>1 DEF Crash, Lost
    <2> QED
      BY <1>1, <2>1, <2>2 DEF Crash, Lost, Conversation, TrialTypeOK, ConversationFits, Owes,
                        NothingAsked, Asks
  <1>2. CASE UNCHANGED bridgeVars /\ host' \in {host, "recovery"}
    BY <1>2 DEF Conversation, TrialTypeOK, ConversationFits, Owes, NothingAsked,
                bridgeVars, childVars, sharedVars, ownVars, adapterVars
  <1>3. CASE Recover \/ CaptureAgain
    BY <1>2, <1>3 DEF Recover, CaptureAgain
  <1>4. CASE UNCHANGED vars
    BY <1>2, <1>4 DEF vars
  <1> QED
    BY <1>1, <1>3, <1>4, WorkerConverses, ThreadConverses, AdapterConverses DEF Next

-----------------------------------------------------------------------------
(* The quotas through the trial, the crash and the recovery.                *)

Quotas == ArchiveTypeOK /\ QuotasFit

\* A new archive counts nothing.
LEMMA InitCounts == Init => Quotas
  <1> SUFFICES ASSUME Init PROVE Quotas
    OBVIOUS
  <1>1. PICK usable \in BOOLEAN : NewScope(usable)
    BY DEF Init
  <1>2. /\ <<>> \in Seq(EntryType) /\ Len(<<>>) = 0
        /\ MAX_BYTES \in Nat /\ MAX_INDEX_BYTES \in Nat /\ MAX_ENTRIES \in Nat /\ MaxCaptures \in Nat
    BY QuotaAssumption
  <1>3. ArchiveTypeOK
    BY <1>1, <1>2 DEF NewScope, ArchiveTypeOK, Idle
  <1>4. QuotasFit
    BY <1>1, <1>2, BytesGrow DEF NewScope, QuotasFit, Idle
  <1> QED
    BY <1>3, <1>4 DEF Quotas

\* Every step of the trial, the crash and the recovery.
LEMMA NextCounts == RefsInv /\ Quotas /\ [Next]_vars => Quotas'
  <1> SUFFICES ASSUME RefsInv, Quotas, [Next]_vars PROVE Quotas'
    OBVIOUS
  <1>1. ArchiveFits /\ ArchiveTypeOK /\ QuotasFit
    BY DEF RefsInv, Quotas
  <1>2. CASE UNCHANGED archiveVars
    BY <1>2 DEF Quotas, ArchiveTypeOK, QuotasFit, archiveVars
  <1>3. CASE \E size \in Sizes, sensitive \in BOOLEAN, status \in {"partial", "complete"} :
               CaptureStart(size, sensitive, status)
    BY <1>1, <1>3, CaptureStartCounts DEF Quotas
  <1>4. CASE CaptureStep
    BY <1>1, <1>4, CaptureStepCounts DEF Quotas
  <1>5. CASE Die
    BY <1>1, <1>5, DieCounts DEF Quotas
  <1>6. CASE Recover
    <2>1. Reopen /\ capture = Idle
      BY <1>6 DEF Recover, RefsInv, ArchiveFits
    <2> QED
      BY <1>1, <2>1, ReopenCounts DEF Quotas
  <1>7. CASE ThreadStep
    <2>1. CASE Archive
      <3>1. \E size \in Sizes, sensitive \in BOOLEAN, status \in {"partial", "complete"} :
              CaptureStart(size, sensitive, status)
        BY <2>1 DEF Archive
      <3> QED
        BY <1>3, <3>1
    <2>2. CASE ~ Archive
      BY <1>2, <1>4, <1>7, <2>2 DEF ThreadStep, HandleNote, Leave, Capture
    <2> QED
      BY <2>1, <2>2
  <1>8. CASE CaptureAgain
    BY <1>3, <1>4, <1>8 DEF CaptureAgain
  <1>9. CASE Crash
    BY <1>5, <1>9 DEF Crash
  <1> QED
    BY <1>2, <1>6, <1>7, <1>8, <1>9 DEF Next, WorkerStep, AdapterStep, vars

\* No turn is counted that the worker did not ask for, and the quotas of the
\* archive hold in memory and in every journal that is read back, whatever was
\* cut off; with this all of Inv is an invariant.
THEOREM EverythingFits == Spec => []Inv
  <1>1. Conversation /\ Quotas => TypeOK
    <2>1. Events \subseteq {"none", "note", "llm", "tool", "archive", "final", "fatal"}
      BY DEF Events, Asks
    <2>2. signalled \in BOOLEAN /\ active_process \in BOOLEAN /\ published \in BOOLEAN
            => {signalled, active_process, published} \subseteq BOOLEAN
      OBVIOUS
    <2> QED
      BY <2>1, <2>2 DEF Conversation, TrialTypeOK, Quotas, TypeOK
  <1>2. Init => RefsInv /\ CompleteInv
    BY NewScopeFits DEF Init, RefsInv, CompleteInv, MarkFits, NewScope
  <1>3. Init => Conversation /\ Quotas /\ TrialInv /\ RefsInv /\ CompleteInv
    BY <1>2, InitConverses, InitCounts, InitInv
  <1>4. Conversation /\ Quotas /\ TrialInv /\ RefsInv /\ CompleteInv /\ [Next]_vars
          => (Conversation /\ Quotas /\ TrialInv /\ RefsInv /\ CompleteInv)'
    BY NextConverses, NextCounts, NextInv, NextRefs, NextMarks
  <1>5. Conversation /\ Quotas /\ TrialInv /\ RefsInv /\ CompleteInv => Inv
    BY <1>1 DEF Inv
  <1> QED
    BY <1>3, <1>4, <1>5, PTL DEF Spec
=============================================================================

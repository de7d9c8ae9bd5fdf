---------------------------- MODULE Publication ----------------------------
(***************************************************************************)
(* publish_bytes of harness/tools/publication.py: the transaction every    *)
(* local and Harbor write or edit goes through to put a payload at one     *)
(* name of one directory.                                                  *)
(*                                                                         *)
(* A writer is one invocation.  Each system call is one step, so that      *)
(* writers, programs that ignore the protocol, I/O errors, killed          *)
(* processes and power losses fall between any two of them.  A file is a   *)
(* record [ino, data, synced]: the inode number that st_ino reports, the   *)
(* bytes, and whether fsync made the bytes durable.  Inode numbers are     *)
(* reused as soon as no name refers to them.  A candidate's bytes are      *)
(* named by its writer, so distinct invocations have distinct bytes.       *)
(***************************************************************************)
EXTENDS Naturals, FiniteSets

CONSTANTS
  Writers,    \* invocations of publish_bytes for this target
  Inos,       \* inode numbers of the file system
  Original,   \* the bytes at the target before the first invocation
  Foreign,    \* bytes that programs ignoring the protocol put at the target
  Special,    \* those of Foreign that are a symlink or not a regular file
  Torn,       \* bytes of a file that was never synced, after a power loss
  Missing,    \* no file at a name
  Anything,   \* the caller passed no expectation about the target
  Nobody,     \* no writer
  MaxFaults   \* bound on I/O errors and power losses in one behaviour

Data == Writers \cup {Original, Torn} \cup Foreign
File == [ino : Inos, data : Data, synced : BOOLEAN]

ASSUME PublicationAssumption ==
  /\ Missing \notin File /\ Anything \notin File /\ Missing # Anything
  /\ Nobody \notin Writers
  /\ Torn \notin Writers \cup Foreign \cup {Original}
  /\ Original \notin Writers \cup Foreign
  /\ Writers \cap Foreign = {}
  /\ Special \subseteq Foreign
  /\ MaxFaults \in Nat

VARIABLES
  pc,         \* where each invocation is
  dir,        \* the directory: the target, each writer's temporary, the intent
  snapshots,  \* the directories a power loss may leave: dir and each one since
              \* the last successful fsync of the directory
  lock,       \* the holder of the flock on the directory
  want,       \* the expectation each caller passed: Anything, Missing or a file
  observed,   \* what validation found at the target, under the lock
  outcome,    \* what each invocation returns
  displaced,  \* history: what the exchange of each writer took off the target
  visible,    \* history: the writers whose bytes were at the target
  spent,      \* history: the members of Foreign already written
  faults      \* history: I/O errors and power losses so far

vars == <<pc, dir, snapshots, lock, want, observed, outcome, displaced,
          visible, spent, faults>>

Transaction == {"journal", "validate", "claim", "intent", "syncIntent",
                "create", "fill", "publish", "revalidate", "syncPublished",
                "unlinkDisplaced", "syncUnlinked", "unlinkIntent",
                "syncFinal", "syncUnsure", "discard", "unclaim", "release"}
Places == {"idle", "lock", "done", "dead"} \cup Transaction

Directory == [target : File \cup {Missing},
              temp : [Writers -> File \cup {Missing}],
              journal : Writers \cup {Nobody}]
Outcome == [state : {"not_published", "published", "indeterminate"},
            durabilityWarning : BOOLEAN, noAutoRetry : BOOLEAN]

TypeOK ==
  /\ pc \in [Writers -> Places]
  /\ dir \in Directory
  /\ snapshots \subseteq Directory
  /\ lock \in Writers \cup {Nobody}
  /\ want \in [Writers -> File \cup {Missing, Anything}]
  /\ observed \in [Writers -> File \cup {Missing}]
  /\ outcome \in [Writers -> Outcome]
  /\ displaced \in [Writers -> File \cup {Missing}]
  /\ visible \subseteq Writers
  /\ spent \subseteq Foreign
  /\ faults \in 0 .. MaxFaults

Linked == {f.ino : f \in ({dir.target} \cup {dir.temp[w] : w \in Writers}) \ {Missing}}
FreeInos == Inos \ Linked

-----------------------------------------------------------------------------
Init ==
  /\ pc = [w \in Writers |-> "idle"]
  /\ \E f \in {Missing} \cup [ino : Inos, data : {Original}, synced : {TRUE}] :
       dir = [target |-> f, temp |-> [w \in Writers |-> Missing], journal |-> Nobody]
  /\ snapshots = {dir}
  /\ lock = Nobody
  /\ want = [w \in Writers |-> Anything]
  /\ observed = [w \in Writers |-> Missing]
  /\ outcome = [w \in Writers |-> [state |-> "not_published",
                                   durabilityWarning |-> FALSE,
                                   noAutoRetry |-> FALSE]]
  /\ displaced = [w \in Writers |-> Missing]
  /\ visible = {}
  /\ spent = {}
  /\ faults = 0

Go(w, from, to) == pc[w] = from /\ pc' = [pc EXCEPT ![w] = to]

\* A change of the directory; the state before it may still be what survives.
Change(d) == dir' = d /\ snapshots' = snapshots \cup {d}

\* Mutant: the directory is never synced.
PersistNothing == UNCHANGED <<dir, snapshots>>

\* os.fsync of the directory: only its present state can survive from now on.
Persist == snapshots' = {dir} /\ UNCHANGED dir

Told(o, state) == [o EXCEPT !.state = state, !.noAutoRetry = TRUE]
Blocked(o) == [o EXCEPT !.noAutoRetry = TRUE]
Warned(o) == [o EXCEPT !.durabilityWarning = TRUE]

Report(w, o) == outcome' = [outcome EXCEPT ![w] = o]

\* One more system call fails.
Fault == faults < MaxFaults /\ faults' = faults + 1

Expects(w, f) == want[w] \in File /\ f.ino = want[w].ino /\ f.data = want[w].data

\* Mutant: the target's identity and content are not compared.
AcceptableUnread(w, f) == f = Missing \/ (f # Missing /\ f.data \notin Special)

\* The validation of the target before the transaction claims it.
Acceptable(w, f) ==
  \/ f = Missing /\ want[w] \in {Missing, Anything}
  \/ f # Missing /\ f.data \notin Special /\ (want[w] = Anything \/ Expects(w, f))

-----------------------------------------------------------------------------
\* The caller decides what it expects: nothing (a whole-file write), the file
\* it just read without the lock (an edit or an append), or that no file is
\* there (a Harbor write whose snapshot found none).
Begin(w) ==
  /\ Go(w, "idle", "lock")
  /\ \E e \in {Anything, dir.target} :
       /\ e \in File => e.data \notin Special
       /\ want' = [want EXCEPT ![w] = e]
  /\ UNCHANGED <<dir, snapshots, lock, observed, outcome, displaced, visible,
                 spent, faults>>

Acquire(w) ==
  /\ Go(w, "lock", "journal")
  /\ lock = Nobody
  /\ lock' = w
  /\ UNCHANGED <<dir, snapshots, want, observed, outcome, displaced, visible,
                 spent, faults>>

\* lock_timeout elapsed while another writer held the lock.
Busy(w) ==
  /\ Go(w, "lock", "done")
  /\ lock # Nobody
  /\ UNCHANGED <<dir, snapshots, lock, want, observed, outcome, displaced,
                 visible, spent, faults>>

\* An intent left by an earlier transaction blocks this one.
CheckJournal(w) ==
  /\ \/ /\ dir.journal = Nobody
        /\ Go(w, "journal", "validate")
        /\ UNCHANGED outcome
     \/ /\ dir.journal # Nobody
        /\ Go(w, "journal", "release")
        /\ Report(w, Blocked(outcome[w]))
  /\ UNCHANGED <<dir, snapshots, lock, want, observed, displaced, visible,
                 spent, faults>>

Validate(w) ==
  /\ \/ /\ Acceptable(w, dir.target)
        /\ Go(w, "validate", "claim")
        /\ observed' = [observed EXCEPT ![w] = dir.target]
     \/ /\ ~Acceptable(w, dir.target)
        /\ Go(w, "validate", "release")
        /\ UNCHANGED observed
  /\ UNCHANGED <<dir, snapshots, lock, want, outcome, displaced, visible,
                 spent, faults>>

\* The intent is created with O_EXCL; an error to create it is FailUnclaimed.
Claim(w) ==
  /\ dir.journal = Nobody
  /\ Go(w, "claim", "intent")
  /\ Change([dir EXCEPT !.journal = w])
  /\ UNCHANGED <<lock, want, observed, outcome, displaced, visible, spent,
                 faults>>

WriteIntent(w) ==
  /\ Go(w, "intent", "syncIntent")
  /\ UNCHANGED <<dir, snapshots, lock, want, observed, outcome, displaced,
                 visible, spent, faults>>

SyncIntent(w) ==
  /\ Go(w, "syncIntent", "create")
  /\ Persist
  /\ UNCHANGED <<lock, want, observed, outcome, displaced, visible, spent,
                 faults>>

CreateTemporary(w) ==
  /\ Go(w, "create", "fill")
  /\ \E i \in FreeInos :
       Change([dir EXCEPT !.temp[w] = [ino |-> i, data |-> Torn, synced |-> FALSE]])
  /\ UNCHANGED <<lock, want, observed, outcome, displaced, visible, spent,
                 faults>>

\* write, flush, fchmod and fsync of the candidate.
FillTemporary(w) ==
  /\ Go(w, "fill", "publish")
  /\ Change([dir EXCEPT !.temp[w] = [@ EXCEPT !.data = w, !.synced = TRUE]])
  /\ UNCHANGED <<lock, want, observed, outcome, displaced, visible, spent,
                 faults>>

\* RENAME_NOREPLACE fails when a file appeared at the target meanwhile.
PublishNew(w) ==
  /\ observed[w] = Missing
  /\ \/ /\ dir.target = Missing
        /\ Go(w, "publish", "syncPublished")
        /\ Change([dir EXCEPT !.target = dir.temp[w], !.temp[w] = Missing])
        /\ visible' = visible \cup {w}
        /\ Report(w, Told(outcome[w], "published"))
     \/ /\ dir.target # Missing
        /\ Go(w, "publish", "discard")
        /\ UNCHANGED <<dir, snapshots, visible, outcome>>
  /\ UNCHANGED <<lock, want, observed, displaced, spent, faults>>

\* RENAME_EXCHANGE swaps the two entries whatever the target is by now, and
\* fails when the target disappeared.
PublishExchange(w) ==
  /\ observed[w] # Missing
  /\ \/ /\ dir.target # Missing
        /\ Go(w, "publish", "revalidate")
        /\ Change([dir EXCEPT !.target = dir.temp[w], !.temp[w] = dir.target])
        /\ displaced' = [displaced EXCEPT ![w] = dir.target]
        /\ visible' = visible \cup {w}
     \/ /\ dir.target = Missing
        /\ Go(w, "publish", "discard")
        /\ UNCHANGED <<dir, snapshots, visible, displaced>>
  /\ UNCHANGED <<lock, want, observed, outcome, spent, faults>>

\* Mutant: only the identity of the displaced entry is compared.
UndisturbedIdentity(w, f) == f.ino = observed[w].ino

\* validate_entry(temporary, observed): the displaced entry is still the file
\* that was validated under the lock.
Undisturbed(w, f) ==
  /\ f.ino = observed[w].ino
  /\ f.data \notin Special
  /\ want[w] = Anything \/ Expects(w, f)

Revalidate(w) ==
  /\ \/ /\ Go(w, "revalidate", "syncPublished")
        /\ Undisturbed(w, dir.temp[w])
        /\ Report(w, Told(outcome[w], "published"))
     \/ /\ Go(w, "revalidate", "syncUnsure")
        /\ ~Undisturbed(w, dir.temp[w])
        /\ Report(w, Told(outcome[w], "indeterminate"))
  /\ UNCHANGED <<dir, snapshots, lock, want, observed, displaced, visible,
                 spent, faults>>

\* Mutant: the displaced file is removed before the exchange is made durable.
SyncPublishedLate(w) ==
  /\ Go(w, "syncPublished",
        IF dir.temp[w] = Missing THEN "syncUnlinked" ELSE "unlinkDisplaced")
  /\ UNCHANGED <<dir, snapshots, lock, want, observed, outcome, displaced,
                 visible, spent, faults>>

\* sync_directory of each phase, when it succeeds.
SyncPublished(w) ==
  /\ Go(w, "syncPublished",
        IF dir.temp[w] = Missing THEN "syncUnlinked" ELSE "unlinkDisplaced")
  /\ Persist
  /\ UNCHANGED <<lock, want, observed, outcome, displaced, visible, spent,
                 faults>>

UnlinkDisplaced(w) ==
  /\ Go(w, "unlinkDisplaced", "syncUnlinked")
  /\ Change([dir EXCEPT !.temp[w] = Missing])
  /\ UNCHANGED <<lock, want, observed, outcome, displaced, visible, spent,
                 faults>>

SyncUnlinked(w) ==
  /\ Go(w, "syncUnlinked", "unlinkIntent")
  /\ Persist
  /\ UNCHANGED <<lock, want, observed, outcome, displaced, visible, spent,
                 faults>>

UnlinkIntent(w) ==
  /\ Go(w, "unlinkIntent", "syncFinal")
  /\ Change([dir EXCEPT !.journal = Nobody])
  /\ UNCHANGED <<lock, want, observed, outcome, displaced, visible, spent,
                 faults>>

SyncFinal(w) ==
  /\ Go(w, "syncFinal", "release")
  /\ Persist
  /\ UNCHANGED <<lock, want, observed, outcome, displaced, visible, spent,
                 faults>>

SyncUnsure(w) ==
  /\ Go(w, "syncUnsure", "release")
  /\ Persist
  /\ UNCHANGED <<lock, want, observed, outcome, displaced, visible, spent,
                 faults>>

\* The finally block of a transaction that published nothing: remove the
\* candidate, then the intent.
Discard(w) ==
  /\ Go(w, "discard", "unclaim")
  /\ IF dir.temp[w] = Missing
       THEN UNCHANGED <<dir, snapshots>>
       ELSE Change([dir EXCEPT !.temp[w] = Missing])
  /\ UNCHANGED <<lock, want, observed, outcome, displaced, visible, spent,
                 faults>>

Unclaim(w) ==
  /\ Go(w, "unclaim", "release")
  /\ Change([dir EXCEPT !.journal = Nobody])
  /\ UNCHANGED <<lock, want, observed, outcome, displaced, visible, spent,
                 faults>>

\* Mutant: a return path that does not unlock.
ReleaseStillLocked(w) ==
  /\ Go(w, "release", "done")
  /\ UNCHANGED <<dir, snapshots, lock, want, observed, outcome, displaced,
                 visible, spent, faults>>

Release(w) ==
  /\ Go(w, "release", "done")
  /\ lock' = Nobody
  /\ UNCHANGED <<dir, snapshots, want, observed, outcome, displaced, visible,
                 spent, faults>>

-----------------------------------------------------------------------------
\* I/O errors, by the except clause that meets them.

\* Before the intent exists there is nothing to clean up.
FailUnclaimed(w) ==
  /\ pc[w] \in {"journal", "validate", "claim"}
  /\ Go(w, pc[w], "release")
  /\ Fault
  /\ UNCHANGED <<dir, snapshots, lock, want, observed, outcome, displaced,
                 visible, spent>>

\* Between the claim and the rename the transaction is withdrawn.
FailClaimed(w) ==
  /\ pc[w] \in {"intent", "syncIntent", "create", "fill", "publish"}
  /\ Go(w, pc[w], "discard")
  /\ Fault
  /\ UNCHANGED <<dir, snapshots, lock, want, observed, outcome, displaced,
                 visible, spent>>

\* Mutant: an error after the exchange is cleaned up like one before it.
FailRevalidateDiscards(w) ==
  /\ Go(w, "revalidate", "discard")
  /\ Fault
  /\ UNCHANGED <<dir, snapshots, lock, want, observed, outcome, displaced,
                 visible, spent>>

\* The displaced entry cannot be examined: the publication is indeterminate.
FailRevalidate(w) ==
  /\ Go(w, "revalidate", "syncUnsure")
  /\ Report(w, Told(outcome[w], "indeterminate"))
  /\ Fault
  /\ UNCHANGED <<dir, snapshots, lock, want, observed, displaced, visible, spent>>

\* sync_directory fails: the invocation returns with a durability warning.
FailSync(w) ==
  /\ pc[w] \in {"syncPublished", "syncUnlinked", "syncFinal", "syncUnsure"}
  /\ Go(w, pc[w], "release")
  /\ Report(w, Warned(outcome[w]))
  /\ Fault
  /\ UNCHANGED <<dir, snapshots, lock, want, observed, displaced, visible, spent>>

\* An unlink after publication fails: cleanup_warning, entries retained.
FailCleanup(w) ==
  /\ pc[w] \in {"unlinkDisplaced", "unlinkIntent"}
  /\ Go(w, pc[w], "release")
  /\ Fault
  /\ UNCHANGED <<dir, snapshots, lock, want, observed, outcome, displaced,
                 visible, spent>>

\* Mutant: the retained intent is not reported to the caller.
FailDiscardSilently(w) ==
  /\ \/ pc[w] = "discard" /\ dir.temp[w] # Missing
     \/ pc[w] = "unclaim"
  /\ Go(w, pc[w], "release")
  /\ Fault
  /\ UNCHANGED <<dir, snapshots, lock, want, observed, outcome, displaced,
                 visible, spent>>

\* An unlink of the finally block fails: the intent stays and is reported.
FailDiscard(w) ==
  /\ \/ pc[w] = "discard" /\ dir.temp[w] # Missing
     \/ pc[w] = "unclaim"
  /\ Go(w, pc[w], "release")
  /\ Report(w, Blocked(outcome[w]))
  /\ Fault
  /\ UNCHANGED <<dir, snapshots, lock, want, observed, displaced, visible, spent>>

-----------------------------------------------------------------------------
\* A process dies; the kernel drops its flock.
Crash(w) ==
  /\ pc[w] \in Transaction \cup {"lock"}
  /\ pc' = [pc EXCEPT ![w] = "dead"]
  /\ lock' = IF lock = w THEN Nobody ELSE lock
  /\ UNCHANGED <<dir, snapshots, want, observed, outcome, displaced, visible,
                 spent, faults>>

\* An unsynced file loses its bytes.
Settled(f) == IF f = Missing \/ f.synced THEN f ELSE [f EXCEPT !.data = Torn, !.synced = TRUE]

\* The machine stops: every running writer dies and the directory is one that
\* the file system's journal may replay to.
PowerLoss ==
  /\ \E s \in snapshots :
       dir' = [s EXCEPT !.target = Settled(@),
                        !.temp = [w \in Writers |-> Settled(s.temp[w])]]
  /\ snapshots' = {dir'}
  /\ pc' = [w \in Writers |-> IF pc[w] \in Transaction \cup {"lock"} THEN "dead" ELSE pc[w]]
  /\ lock' = Nobody
  /\ Fault
  /\ UNCHANGED <<want, observed, outcome, displaced, visible, spent>>

\* A program that ignores the protocol (a shell command of the same worker)
\* puts a new file at the target, writes the target in place, or removes it.
ForeignWrite ==
  \E d \in Foreign \ spent :
    /\ spent' = spent \cup {d}
    /\ \/ \E i \in FreeInos :
            Change([dir EXCEPT !.target = [ino |-> i, data |-> d, synced |-> TRUE]])
       \/ /\ dir.target # Missing /\ d \notin Special /\ dir.target.data \notin Special
          /\ Change([dir EXCEPT !.target = [@ EXCEPT !.data = d]])
       \/ /\ dir.target # Missing
          /\ Change([dir EXCEPT !.target = Missing])
    /\ UNCHANGED <<pc, lock, want, observed, outcome, displaced, visible, faults>>

Next ==
  \/ \E w \in Writers :
       \/ Begin(w) \/ Acquire(w) \/ Busy(w) \/ CheckJournal(w) \/ Validate(w)
       \/ Claim(w) \/ WriteIntent(w) \/ SyncIntent(w) \/ CreateTemporary(w)
       \/ FillTemporary(w) \/ PublishNew(w) \/ PublishExchange(w)
       \/ Revalidate(w) \/ SyncPublished(w) \/ UnlinkDisplaced(w)
       \/ SyncUnlinked(w) \/ UnlinkIntent(w) \/ SyncFinal(w) \/ SyncUnsure(w)
       \/ Discard(w) \/ Unclaim(w) \/ Release(w)
       \/ FailUnclaimed(w) \/ FailClaimed(w) \/ FailRevalidate(w)
       \/ FailSync(w) \/ FailCleanup(w) \/ FailDiscard(w) \/ Crash(w)
  \/ PowerLoss
  \/ ForeignWrite

Spec == Init /\ [][Next]_vars

-----------------------------------------------------------------------------
\* A caller that is told "not published" and not told to refrain from a retry
\* may retry: the invocation never put its bytes at the target, and the directory
\* it returns with holds neither its candidate nor its intent.
\* (publish_bytes: publication_state, no_auto_retry and the finally block.)
RetryableMeansUntouched ==
  \A w \in Writers :
    /\ outcome[w].state = "not_published" /\ pc[w] \in {"release", "done"}
         => w \notin visible
    /\ pc[w] = "release" /\ ~outcome[w].noAutoRetry
         => dir.journal # w /\ dir.temp[w] = Missing

\* What such a caller finds after a power loss.  The finally block does not
\* sync its unlinks, so candidate and intent may come back; but the target of no
\* survivor has the bytes of the refused invocation, and where its candidate is
\* back so is the intent, which makes the next invocation report the leftover
\* instead of publishing over it.
RefusalIsHarmless ==
  \A w \in Writers :
    outcome[w].state = "not_published" /\ pc[w] \in {"release", "done"} =>
      \A s \in snapshots :
        /\ s.target # Missing => s.target.data # w
        /\ s.temp[w] # Missing => s.journal = w

\* A power loss may still bring back what the exchange of w displaced.
MayBeUndone(w) ==
  \E t \in snapshots : t.target # Missing /\ t.target.data = displaced[w].data

\* Until the displaced file is validated and the exchange is durable, the file
\* is kept under the temporary name and the intent exists, wherever the new
\* bytes are at the target after a crash or a power loss.  So an exchange that
\* hit a concurrent change, could not be examined, could not be made durable or
\* was cut short never destroys data.  (publish_bytes: "Keep both evidence and
\* intent", and the sync_directory before the unlink of the displaced file.)
ExchangeKeepsBothCopies ==
  \A w \in visible : \A s \in snapshots :
    /\ displaced[w] # Missing
    /\ outcome[w].state # "published" \/ MayBeUndone(w)
    /\ s.target # Missing /\ s.target.data = w
    => s.journal = w /\ s.temp[w] # Missing /\ s.temp[w].data = displaced[w].data

\* A temporary, candidate or displaced file, never outlives the intent that
\* names it, even across a power loss: the intent is removed last.
NoOrphanTemporary ==
  \A s \in snapshots : \A w \in Writers : s.temp[w] # Missing => s.journal = w

\* A publication reported without a durability warning is not undone by a power
\* loss: what it displaced does not come back.  (directory_fsync of the outcome
\* and the sync_directory that precedes the unlink of the displaced file.)
DurablePublication ==
  \A w \in Writers : \A s \in snapshots :
    /\ pc[w] = "done" /\ outcome[w].state = "published"
    /\ ~outcome[w].durabilityWarning
    /\ displaced[w] # Missing /\ s.target # Missing
    => s.target.data # displaced[w].data

\* An edit that reports published replaced exactly the file its caller read,
\* whatever other programs did to the target in between: no update is lost
\* silently.  A write that expected no file displaced none.
EditSupersedesItsBasis ==
  \A w \in Writers :
    outcome[w].state = "published" /\ want[w] # Anything =>
      IF want[w] = Missing
        THEN displaced[w] = Missing
        ELSE displaced[w] # Missing /\ displaced[w].data = want[w].data

-----------------------------------------------------------------------------
\* The inductive invariant behind RetryableMeansUntouched and NoOrphanTemporary.
BeforeClaim == {"idle", "lock", "journal", "validate", "claim"}
Claimed == {"intent", "syncIntent", "create", "fill", "publish", "revalidate",
            "syncPublished", "unlinkDisplaced", "syncUnlinked", "unlinkIntent",
            "syncUnsure", "discard", "unclaim"}
Unpublished == BeforeClaim \cup {"intent", "syncIntent", "create", "fill",
                                "publish", "discard", "unclaim"}

OneTransaction == \A w \in Writers : pc[w] \in Transaction <=> lock = w

NothingBeforeClaim ==
  \A w \in Writers : pc[w] \in BeforeClaim =>
    \A s \in snapshots : s.journal # w /\ s.temp[w] = Missing

ClaimHeld ==
  \A w \in Writers :
    /\ pc[w] \in Claimed => dir.journal = w
    /\ pc[w] = "fill" => dir.temp[w] # Missing
    /\ pc[w] \in {"intent", "syncIntent", "create", "unclaim", "syncUnlinked",
                  "unlinkIntent"} => dir.temp[w] = Missing

TruthfulOutcome ==
  \A w \in Writers :
    /\ pc[w] \in Unpublished => w \notin visible /\ outcome[w].state = "not_published"
    /\ w \in visible /\ pc[w] \notin {"revalidate", "dead"} => outcome[w].state # "not_published"
    /\ pc[w] \in {"syncPublished", "unlinkDisplaced", "syncUnlinked", "unlinkIntent",
                  "syncFinal", "syncUnsure"} => outcome[w].noAutoRetry

Inv ==
  /\ TypeOK
  /\ dir \in snapshots
  /\ OneTransaction
  /\ NothingBeforeClaim
  /\ ClaimHeld
  /\ TruthfulOutcome
  /\ NoOrphanTemporary
  /\ RetryableMeansUntouched

-----------------------------------------------------------------------------
\* Among cooperating writers publication implements ConditionalFile.
DataAt(d) == IF d.target = Missing THEN Missing ELSE d.target.data

Phase(w) ==
  CASE pc[w] = "idle" -> "idle"
    [] pc[w] = "dead" -> "dead"
    [] pc[w] = "done" -> IF outcome[w].state = "not_published" THEN "refused" ELSE outcome[w].state
    [] OTHER -> IF w \in visible THEN "written" ELSE "open"

Survivors == {DataAt(s) : s \in snapshots}
Phases == [w \in Writers |-> Phase(w)]
Warnings == {w \in Writers : pc[w] = "done" /\ outcome[w].durabilityWarning}
Bases == [w \in Writers |-> IF want[w] \in File THEN want[w].data ELSE want[w]]
Unresolved == IF dir.journal \in visible THEN dir.journal ELSE Nobody

Register == INSTANCE ConditionalFile WITH
  value <- DataAt(dir), survivors <- Survivors, phase <- Phases,
  warning <- Warnings, basis <- Bases, unresolved <- Unresolved

\* Every step of a writer is a step of the register or leaves it alone: the
\* exchange is the instant at which a conditional write takes effect, at most
\* one write is unresolved, and only a durable one returns without a warning.
ImplementsConditionalFile == Register!Spec
=============================================================================

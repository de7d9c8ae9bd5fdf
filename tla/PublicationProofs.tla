------------------------ MODULE PublicationProofs ------------------------
(***************************************************************************)
(* Proofs about Publication, for any writers, inode numbers, foreign bytes *)
(* and bound on faults, in three layers.  Inv is inductive: each action of *)
(* a writer leaves the other writers' part of Inv alone because of what    *)
(* Local says about it, and re-establishes its own part (Own).  CustodyInv *)
(* adds what each exchange took off the target: where it is, and which     *)
(* survivors of a power loss may still show it.  CooperatingInv adds what  *)
(* holds where no foreign program writes the target, and with it every     *)
(* step is a step of ConditionalFile or leaves its variables alone.        *)
(***************************************************************************)
EXTENDS Publication, TLAPS

\* Inv, writer by writer.
Own(w) ==
  /\ pc[w] \in Transaction <=> lock = w
  /\ pc[w] \in BeforeClaim => \A s \in snapshots : s.journal # w /\ s.temp[w] = Missing
  /\ pc[w] \in Claimed => dir.journal = w
  /\ pc[w] = "fill" => dir.temp[w] # Missing
  /\ pc[w] \in {"intent", "syncIntent", "create", "unclaim", "syncUnlinked",
                "unlinkIntent"} => dir.temp[w] = Missing
  /\ pc[w] \in Unpublished => w \notin visible /\ outcome[w].state = "not_published"
  /\ w \in visible /\ pc[w] \notin {"revalidate", "dead"} => outcome[w].state # "not_published"
  /\ pc[w] \in {"syncPublished", "unlinkDisplaced", "syncUnlinked", "unlinkIntent",
                "syncFinal", "syncUnsure"} => outcome[w].noAutoRetry
  /\ \A s \in snapshots : s.temp[w] # Missing => s.journal = w
  /\ outcome[w].state = "not_published" /\ pc[w] \in {"release", "done"} => w \notin visible
  /\ pc[w] = "release" /\ ~outcome[w].noAutoRetry => dir.journal # w /\ dir.temp[w] = Missing

\* The invariant is a fact about the directory and one about each writer.
LEMMA InvByWriter ==
  Inv <=> TypeOK /\ dir \in snapshots /\ \A w \in Writers : Own(w)
BY DEF Inv, Own, OneTransaction, NothingBeforeClaim, ClaimHeld, TruthfulOutcome,
       NoOrphanTemporary, RetryableMeansUntouched

\* What an action of w may do to what the other writers rely on.
Local(w) ==
  /\ dir' \in snapshots' /\ snapshots' \subseteq snapshots \cup {dir'}
  /\ lock' = lock \/ {lock, lock'} \subseteq {w, Nobody}
  /\ dir'.journal = dir.journal \/ {dir.journal, dir'.journal} \subseteq {w, Nobody}
  /\ \A v \in Writers \ {w} :
       /\ pc'[v] = pc[v]
       /\ dir'.temp[v] = dir.temp[v]
       /\ outcome'[v] = outcome[v]
       /\ v \in visible' <=> v \in visible

WriterStep(w) ==
  \/ Begin(w) \/ Acquire(w) \/ Busy(w) \/ CheckJournal(w) \/ Validate(w)
  \/ Claim(w) \/ WriteIntent(w) \/ SyncIntent(w) \/ CreateTemporary(w)
  \/ FillTemporary(w) \/ PublishNew(w) \/ PublishExchange(w)
  \/ Revalidate(w) \/ SyncPublished(w) \/ UnlinkDisplaced(w)
  \/ SyncUnlinked(w) \/ UnlinkIntent(w) \/ SyncFinal(w) \/ SyncUnsure(w)
  \/ Discard(w) \/ Unclaim(w) \/ Release(w)
  \/ FailUnclaimed(w) \/ FailClaimed(w) \/ FailRevalidate(w)
  \/ FailSync(w) \/ FailCleanup(w) \/ FailDiscard(w) \/ Crash(w)

\* What each action of w is to establish.
Good(w) == TypeOK' /\ Local(w) /\ Own(w)'

\* A step of w keeps the invariant when it is good for w and leaves the others alone.
LEMMA InvByWriterNext ==
  Inv' <=> TypeOK' /\ dir' \in snapshots' /\ \A w \in Writers : Own(w)'
BY DEF Inv, Own, OneTransaction, NothingBeforeClaim, ClaimHeld, TruthfulOutcome,
       NoOrphanTemporary, RetryableMeansUntouched

\* Every step is a step of one writer, a power loss or a foreign write.
LEMMA NextCases ==
  ASSUME [Next]_vars
  PROVE  (\E w \in Writers : WriterStep(w)) \/ PowerLoss \/ ForeignWrite \/ UNCHANGED vars
BY DEF Next, WriterStep

-----------------------------------------------------------------------------
(* Updates of the directory and of an outcome.                             *)

\* The fields of a directory have their types.
LEMMA TempType ==
  ASSUME NEW d \in Directory
  PROVE  /\ d.target \in File \cup {Missing}
         /\ d.journal \in Writers \cup {Nobody}
         /\ \A w \in Writers : d.temp[w] \in File \cup {Missing}
BY DEF Directory

\* Replacing the intent of a directory gives a directory and keeps the rest.
LEMMA SetJournal ==
  ASSUME NEW d \in Directory, NEW j \in Writers \cup {Nobody}
  PROVE  /\ [d EXCEPT !.journal = j] \in Directory
         /\ [d EXCEPT !.journal = j].journal = j
         /\ [d EXCEPT !.journal = j].temp = d.temp
         /\ [d EXCEPT !.journal = j].target = d.target
BY DEF Directory

\* Replacing the target of a directory gives a directory and keeps the rest.
LEMMA SetTarget ==
  ASSUME NEW d \in Directory, NEW f \in File \cup {Missing}
  PROVE  /\ [d EXCEPT !.target = f] \in Directory
         /\ [d EXCEPT !.target = f].journal = d.journal
         /\ [d EXCEPT !.target = f].temp = d.temp
         /\ [d EXCEPT !.target = f].target = f
BY DEF Directory

\* Replacing one writer's temporary gives a directory and keeps the rest.
LEMMA SetTemp ==
  ASSUME NEW d \in Directory, NEW w \in Writers, NEW f \in File \cup {Missing}
  PROVE  /\ [d EXCEPT !.temp[w] = f] \in Directory
         /\ [d EXCEPT !.temp[w] = f].journal = d.journal
         /\ [d EXCEPT !.temp[w] = f].temp[w] = f
         /\ [d EXCEPT !.temp[w] = f].target = d.target
         /\ \A v \in Writers \ {w} : [d EXCEPT !.temp[w] = f].temp[v] = d.temp[v]
BY DEF Directory

\* A change of the intent keeps the types of dir and of the snapshots.
LEMMA JournalUpdate ==
  ASSUME Inv, NEW j \in Writers \cup {Nobody}, Change([dir EXCEPT !.journal = j])
  PROVE  /\ dir' \in Directory /\ snapshots' = snapshots \cup {dir'}
         /\ dir'.journal = j /\ dir'.temp = dir.temp /\ dir'.target = dir.target
BY SetJournal DEF Change, Inv, TypeOK

\* A change of the target keeps the types of dir and of the snapshots.
LEMMA TargetUpdate ==
  ASSUME Inv, NEW f \in File \cup {Missing}, Change([dir EXCEPT !.target = f])
  PROVE  /\ dir' \in Directory /\ snapshots' = snapshots \cup {dir'}
         /\ dir'.journal = dir.journal /\ dir'.temp = dir.temp /\ dir'.target = f
BY SetTarget DEF Change, Inv, TypeOK

\* A change of a temporary keeps the types of dir and of the snapshots.
LEMMA TempUpdate ==
  ASSUME Inv, NEW w \in Writers, NEW f \in File \cup {Missing},
         Change([dir EXCEPT !.temp[w] = f])
  PROVE  /\ dir' \in Directory /\ snapshots' = snapshots \cup {dir'}
         /\ dir'.journal = dir.journal /\ dir'.temp[w] = f /\ dir'.target = dir.target
         /\ \A v \in Writers \ {w} : dir'.temp[v] = dir.temp[v]
BY SetTemp DEF Change, Inv, TypeOK

\* The rename, which moves the target and a temporary at once, keeps the types.
LEMMA BothUpdate ==
  ASSUME Inv, NEW w \in Writers, NEW f \in File \cup {Missing},
         NEW g \in File \cup {Missing},
         Change([dir EXCEPT !.target = f, !.temp[w] = g])
  PROVE  /\ dir' \in Directory /\ snapshots' = snapshots \cup {dir'}
         /\ dir'.journal = dir.journal /\ dir'.temp[w] = g /\ dir'.target = f
         /\ \A v \in Writers \ {w} : dir'.temp[v] = dir.temp[v]
<1> DEFINE d == [dir EXCEPT !.target = f, !.temp[w] = g]
<1>1. /\ d \in Directory /\ d.journal = dir.journal /\ d.temp[w] = g /\ d.target = f
      /\ \A v \in Writers \ {w} : d.temp[v] = dir.temp[v]
  BY DEF Inv, TypeOK, Directory
<1>2. dir' = d /\ snapshots' = snapshots \cup {d}
  BY DEF Change
<1> HIDE DEF d
<1> QED
  BY <1>1, <1>2

\* The operators on an outcome yield an outcome with the fields they set.
LEMMA OutcomeSet ==
  ASSUME NEW o \in Outcome
  PROVE  /\ Blocked(o) \in Outcome
         /\ Blocked(o).state = o.state
         /\ Blocked(o).noAutoRetry
         /\ Blocked(o).durabilityWarning = o.durabilityWarning
         /\ Warned(o) \in Outcome
         /\ Warned(o).state = o.state
         /\ Warned(o).noAutoRetry = o.noAutoRetry
         /\ Warned(o).durabilityWarning
         /\ \A r \in {"published", "indeterminate"} :
              /\ Told(o, r) \in Outcome
              /\ Told(o, r).state = r
              /\ Told(o, r).noAutoRetry
              /\ Told(o, r).durabilityWarning = o.durabilityWarning
BY DEF Outcome, Told, Blocked, Warned

\* Reporting w's outcome leaves the others' outcomes as they were.
LEMMA ReportUpdate ==
  ASSUME Inv, NEW w \in Writers, NEW o \in Outcome, Report(w, o)
  PROVE  /\ outcome' \in [Writers -> Outcome] /\ outcome'[w] = o
         /\ \A v \in Writers \ {w} : outcome'[v] = outcome[v]
BY DEF Report, Inv, TypeOK

\* What a power loss leaves of a file is a file.
LEMMA SettledType ==
  ASSUME NEW f \in File \cup {Missing}
  PROVE  Settled(f) \in File \cup {Missing} /\ (Settled(f) = Missing <=> f = Missing)
BY PublicationAssumption DEF Settled, File, Data

-----------------------------------------------------------------------------
(* The other writers.                                                      *)

\* A step of the holder of the lock leaves every other writer as good as it was.
LEMMA OthersKeepInv ==
  ASSUME Inv, TypeOK', NEW w \in Writers, Local(w), NEW v \in Writers, v # w
  PROVE  Own(v)'
BY InvByWriter, PublicationAssumption DEF Local, Own, TypeOK

-----------------------------------------------------------------------------
(* The acting writer.                                                      *)

\* The steps of a writer that touch neither intent nor entries.
LEMMA QuietStep ==
  ASSUME Inv, NEW w \in Writers,
         Begin(w) \/ Acquire(w) \/ Busy(w) \/ Validate(w) \/
         WriteIntent(w) \/ SyncIntent(w) \/ SyncPublished(w) \/ SyncUnlinked(w) \/ SyncFinal(w)
         \/ SyncUnsure(w) \/ Release(w) \/ FailUnclaimed(w) \/ FailClaimed(w) \/ FailCleanup(w) \/ Crash(w)
  PROVE  Good(w)
<1>0. Own(w) /\ TypeOK /\ dir \in snapshots
  BY InvByWriter
<1> USE <1>0, PublicationAssumption DEF TypeOK, Go, Places, Transaction
<1>1. CASE Begin(w)
  <2>1. TypeOK'
    BY <1>1, TempType DEF Begin
  <2>2. Local(w)
    BY <1>1 DEF Begin, Local, Own
  <2>3. Own(w)'
    BY <1>1 DEF Begin, Own, Claimed, BeforeClaim, Unpublished
  <2> QED
    BY <2>1, <2>2, <2>3 DEF Good
<1>2. CASE Acquire(w)
  <2>1. TypeOK'
    BY <1>2 DEF Acquire
  <2>2. Local(w)
    BY <1>2 DEF Acquire, Local, Own
  <2>3. Own(w)'
    BY <1>2 DEF Acquire, Own, Claimed, BeforeClaim, Unpublished
  <2> QED
    BY <2>1, <2>2, <2>3 DEF Good
<1>3. CASE Busy(w)
  <2>1. TypeOK'
    BY <1>3 DEF Busy
  <2>2. Local(w)
    BY <1>3 DEF Busy, Local, Own
  <2>3. Own(w)'
    BY <1>3 DEF Busy, Own, Claimed, BeforeClaim, Unpublished
  <2> QED
    BY <2>1, <2>2, <2>3 DEF Good
<1>4. CASE Validate(w)
  <2>1. TypeOK'
    BY <1>4, TempType DEF Validate
  <2>2. Local(w)
    BY <1>4 DEF Validate, Local, Own
  <2>3. Own(w)'
    BY <1>4 DEF Validate, Own, Claimed, BeforeClaim, Unpublished
  <2> QED
    BY <2>1, <2>2, <2>3 DEF Good
<1>5. CASE WriteIntent(w)
  <2>1. TypeOK'
    BY <1>5 DEF WriteIntent
  <2>2. Local(w)
    BY <1>5 DEF WriteIntent, Local, Own
  <2>3. Own(w)'
    BY <1>5 DEF WriteIntent, Own, Claimed, BeforeClaim, Unpublished
  <2> QED
    BY <2>1, <2>2, <2>3 DEF Good
<1>6. CASE SyncIntent(w)
  <2>1. TypeOK'
    BY <1>6 DEF SyncIntent, Persist
  <2>2. Local(w)
    BY <1>6 DEF SyncIntent, Persist, Local, Own
  <2>3. Own(w)'
    BY <1>6 DEF SyncIntent, Persist, Own, Claimed, BeforeClaim, Unpublished
  <2> QED
    BY <2>1, <2>2, <2>3 DEF Good
<1>7. CASE SyncPublished(w)
  <2>1. TypeOK'
    BY <1>7 DEF SyncPublished, Persist
  <2>2. Local(w)
    BY <1>7 DEF SyncPublished, Persist, Local, Own
  <2>3. Own(w)'
    BY <1>7 DEF SyncPublished, Persist, Own, Claimed, BeforeClaim, Unpublished
  <2> QED
    BY <2>1, <2>2, <2>3 DEF Good
<1>8. CASE SyncUnlinked(w)
  <2>1. TypeOK'
    BY <1>8 DEF SyncUnlinked, Persist
  <2>2. Local(w)
    BY <1>8 DEF SyncUnlinked, Persist, Local, Own
  <2>3. Own(w)'
    BY <1>8 DEF SyncUnlinked, Persist, Own, Claimed, BeforeClaim, Unpublished
  <2> QED
    BY <2>1, <2>2, <2>3 DEF Good
<1>9. CASE SyncFinal(w)
  <2>1. TypeOK'
    BY <1>9 DEF SyncFinal, Persist
  <2>2. Local(w)
    BY <1>9 DEF SyncFinal, Persist, Local, Own
  <2>3. Own(w)'
    BY <1>9 DEF SyncFinal, Persist, Own, Claimed, BeforeClaim, Unpublished
  <2> QED
    BY <2>1, <2>2, <2>3 DEF Good
<1>10. CASE SyncUnsure(w)
  <2>1. TypeOK'
    BY <1>10 DEF SyncUnsure, Persist
  <2>2. Local(w)
    BY <1>10 DEF SyncUnsure, Persist, Local, Own
  <2>3. Own(w)'
    BY <1>10 DEF SyncUnsure, Persist, Own, Claimed, BeforeClaim, Unpublished
  <2> QED
    BY <2>1, <2>2, <2>3 DEF Good
<1>11. CASE Release(w)
  <2>1. TypeOK'
    BY <1>11 DEF Release
  <2>2. Local(w)
    BY <1>11 DEF Release, Local, Own
  <2>3. Own(w)'
    BY <1>11 DEF Release, Own, Claimed, BeforeClaim, Unpublished
  <2> QED
    BY <2>1, <2>2, <2>3 DEF Good
<1>12. CASE FailUnclaimed(w)
  <2>1. TypeOK'
    BY <1>12 DEF FailUnclaimed, Fault
  <2>2. Local(w)
    BY <1>12 DEF FailUnclaimed, Fault, Local, Own
  <2>3. Own(w)'
    BY <1>12 DEF FailUnclaimed, Fault, Own, Claimed, BeforeClaim, Unpublished
  <2> QED
    BY <2>1, <2>2, <2>3 DEF Good
<1>13. CASE FailClaimed(w)
  <2>1. TypeOK'
    BY <1>13 DEF FailClaimed, Fault
  <2>2. Local(w)
    BY <1>13 DEF FailClaimed, Fault, Local, Own
  <2>3. Own(w)'
    BY <1>13 DEF FailClaimed, Fault, Own, Claimed, BeforeClaim, Unpublished
  <2> QED
    BY <2>1, <2>2, <2>3 DEF Good
<1>14. CASE FailCleanup(w)
  <2>1. TypeOK'
    BY <1>14 DEF FailCleanup, Fault
  <2>2. Local(w)
    BY <1>14 DEF FailCleanup, Fault, Local, Own
  <2>3. Own(w)'
    BY <1>14 DEF FailCleanup, Fault, Own, Claimed, BeforeClaim, Unpublished
  <2> QED
    BY <2>1, <2>2, <2>3 DEF Good
<1>15. CASE Crash(w)
  <2>1. TypeOK'
    BY <1>15 DEF Crash
  <2>2. Local(w)
    BY <1>15 DEF Crash, Local, Own
  <2>3. Own(w)'
    BY <1>15 DEF Crash, Own, Claimed, BeforeClaim, Unpublished
  <2> QED
    BY <2>1, <2>2, <2>3 DEF Good
<1> QED
  BY <1>1, <1>2, <1>3, <1>4, <1>5, <1>6, <1>7, <1>8, <1>9, <1>10, <1>11, <1>12, <1>13, <1>14, <1>15

\* O_EXCL creation of the intent.
LEMMA ClaimStep ==
  ASSUME Inv, NEW w \in Writers, Claim(w)
  PROVE  Good(w)
<1>0. Own(w) /\ TypeOK /\ dir \in snapshots
  BY InvByWriter
<1>1. /\ dir' \in Directory /\ snapshots' = snapshots \cup {dir'}
      /\ dir'.journal = w /\ dir'.temp[w] = dir.temp[w]
      /\ \A v \in Writers \ {w} : dir'.temp[v] = dir.temp[v]
  BY JournalUpdate DEF Claim
<1>2. TypeOK'
  BY <1>0, <1>1, PublicationAssumption DEF Claim, TypeOK, Go, Places, Transaction, Fault
<1>3. Local(w)
  BY <1>0, <1>1, PublicationAssumption DEF Claim, TypeOK, Go, Places, Transaction, Local, Own, Claimed
<1>4. Own(w)'
  BY <1>0, <1>1, PublicationAssumption DEF Claim, TypeOK, Go, Places, Transaction, Own, Claimed, BeforeClaim, Unpublished
<1> QED
  BY <1>2, <1>3, <1>4 DEF Good

\* O_EXCL creation of the candidate.
LEMMA CreateTemporaryStep ==
  ASSUME Inv, NEW w \in Writers, CreateTemporary(w)
  PROVE  Good(w)
<1>0. Own(w) /\ TypeOK /\ dir \in snapshots
  BY InvByWriter
<1>1. \E f \in File : Change([dir EXCEPT !.temp[w] = f])
  BY DEF CreateTemporary, FreeInos, File, Data
<1>2. /\ dir' \in Directory /\ snapshots' = snapshots \cup {dir'}
      /\ dir'.journal = dir.journal /\ dir'.temp[w] \in File
      /\ \A v \in Writers \ {w} : dir'.temp[v] = dir.temp[v]
  BY <1>1, TempUpdate
<1>3. TypeOK'
  BY <1>0, <1>1, <1>2, PublicationAssumption DEF CreateTemporary, TypeOK, Go, Places, Transaction, Fault
<1>4. Local(w)
  BY <1>0, <1>1, <1>2, PublicationAssumption DEF CreateTemporary, TypeOK, Go, Places, Transaction, Local, Own, Claimed
<1>5. Own(w)'
  BY <1>0, <1>1, <1>2, PublicationAssumption DEF CreateTemporary, TypeOK, Go, Places, Transaction, Own, Claimed, BeforeClaim, Unpublished
<1> QED
  BY <1>3, <1>4, <1>5 DEF Good

\* The candidate gets its bytes.
LEMMA FillTemporaryStep ==
  ASSUME Inv, NEW w \in Writers, FillTemporary(w)
  PROVE  Good(w)
<1>0. Own(w) /\ TypeOK /\ dir \in snapshots
  BY InvByWriter
<1>1. dir.temp[w] \in File
  BY <1>0, TempType DEF FillTemporary, Go, Own, TypeOK
<1>2. [dir.temp[w] EXCEPT !.data = w, !.synced = TRUE] \in File
  BY <1>1 DEF File, Data
<1>3. /\ dir' \in Directory /\ snapshots' = snapshots \cup {dir'}
      /\ dir'.journal = dir.journal /\ dir'.temp[w] \in File
      /\ \A v \in Writers \ {w} : dir'.temp[v] = dir.temp[v]
  BY <1>2, TempUpdate DEF FillTemporary
<1>4. TypeOK'
  BY <1>0, <1>1, <1>2, <1>3, PublicationAssumption DEF FillTemporary, TypeOK, Go, Places, Transaction, Fault
<1>5. Local(w)
  BY <1>0, <1>1, <1>2, <1>3, PublicationAssumption DEF FillTemporary, TypeOK, Go, Places, Transaction, Local, Own, Claimed
<1>6. Own(w)'
  BY <1>0, <1>1, <1>2, <1>3, PublicationAssumption DEF FillTemporary, TypeOK, Go, Places, Transaction, Own, Claimed, BeforeClaim, Unpublished
<1> QED
  BY <1>4, <1>5, <1>6 DEF Good

\* The look at an earlier intent.
LEMMA CheckJournalStep ==
  ASSUME Inv, NEW w \in Writers, CheckJournal(w)
  PROVE  Good(w)
<1>0. Own(w) /\ TypeOK /\ dir \in snapshots
  BY InvByWriter
<1>1. outcome[w] \in Outcome
  BY <1>0 DEF TypeOK
<1>2. CASE dir.journal = Nobody
  <2>1. UNCHANGED outcome
    BY <1>2 DEF CheckJournal
  <2>2. TypeOK'
    BY <1>0, <1>1, <1>2, <2>1, PublicationAssumption DEF CheckJournal, TypeOK, Go, Places, Transaction, Fault
  <2>3. Local(w)
    BY <1>0, <1>1, <1>2, <2>1, PublicationAssumption DEF CheckJournal, TypeOK, Go, Places, Transaction, Local, Own, Claimed
  <2>4. Own(w)'
    BY <1>0, <1>1, <1>2, <2>1, PublicationAssumption DEF CheckJournal, TypeOK, Go, Places, Transaction, Own, Claimed, BeforeClaim, Unpublished
  <2> QED
    BY <2>2, <2>3, <2>4 DEF Good
<1>3. CASE dir.journal # Nobody
  <2>1. /\ outcome' \in [Writers -> Outcome] /\ outcome'[w].state = outcome[w].state /\ outcome'[w].noAutoRetry
        /\ \A v \in Writers \ {w} : outcome'[v] = outcome[v]
    BY <1>3, <1>1, OutcomeSet, ReportUpdate DEF CheckJournal
  <2>2. TypeOK'
    BY <1>0, <1>1, <1>3, <2>1, PublicationAssumption DEF CheckJournal, TypeOK, Go, Places, Transaction, Fault
  <2>3. Local(w)
    BY <1>0, <1>1, <1>3, <2>1, PublicationAssumption DEF CheckJournal, TypeOK, Go, Places, Transaction, Local, Own, Claimed
  <2>4. Own(w)'
    BY <1>0, <1>1, <1>3, <2>1, PublicationAssumption DEF CheckJournal, TypeOK, Go, Places, Transaction, Own, Claimed, BeforeClaim, Unpublished
  <2> QED
    BY <2>2, <2>3, <2>4 DEF Good
<1> QED
  BY <1>2, <1>3

\* RENAME_NOREPLACE, done or refused.
LEMMA PublishNewStep ==
  ASSUME Inv, NEW w \in Writers, PublishNew(w)
  PROVE  Good(w)
<1>0. Own(w) /\ TypeOK /\ dir \in snapshots
  BY InvByWriter
<1>1. outcome[w] \in Outcome
  BY <1>0 DEF TypeOK
<1>2. dir.temp[w] \in File \cup {Missing} /\ dir.target \in File \cup {Missing}
  BY <1>0, TempType DEF TypeOK
<1>3. CASE dir.target = Missing
  <2>1. /\ Change([dir EXCEPT !.target = dir.temp[w], !.temp[w] = Missing])
        /\ Report(w, Told(outcome[w], "published"))
    BY <1>3 DEF PublishNew
  <2>2. /\ dir' \in Directory /\ snapshots' = snapshots \cup {dir'}
        /\ dir'.journal = dir.journal /\ dir'.temp[w] = Missing
        /\ \A v \in Writers \ {w} : dir'.temp[v] = dir.temp[v]
    BY <2>1, <1>2, BothUpdate
  <2>3. /\ outcome' \in [Writers -> Outcome] /\ outcome'[w].state = "published" /\ outcome'[w].noAutoRetry
        /\ \A v \in Writers \ {w} : outcome'[v] = outcome[v]
    BY <2>1, <1>1, OutcomeSet, ReportUpdate
  <2>4. TypeOK'
    BY <1>0, <1>1, <1>2, <1>3, <2>1, <2>2, <2>3, PublicationAssumption DEF PublishNew, TypeOK, Go, Places, Transaction, Fault
  <2>5. Local(w)
    BY <1>0, <1>1, <1>2, <1>3, <2>1, <2>2, <2>3, PublicationAssumption DEF PublishNew, TypeOK, Go, Places, Transaction, Local, Own, Claimed
  <2>6. Own(w)'
    BY <1>0, <1>1, <1>2, <1>3, <2>1, <2>2, <2>3, PublicationAssumption DEF PublishNew, TypeOK, Go, Places, Transaction, Own, Claimed, BeforeClaim, Unpublished
  <2> QED
    BY <2>4, <2>5, <2>6 DEF Good
<1>4. CASE dir.target # Missing
  <2>1. UNCHANGED <<dir, snapshots, outcome>>
    BY <1>4 DEF PublishNew
  <2>2. TypeOK'
    BY <1>0, <1>1, <1>2, <1>4, <2>1, PublicationAssumption DEF PublishNew, TypeOK, Go, Places, Transaction, Fault
  <2>3. Local(w)
    BY <1>0, <1>1, <1>2, <1>4, <2>1, PublicationAssumption DEF PublishNew, TypeOK, Go, Places, Transaction, Local, Own, Claimed
  <2>4. Own(w)'
    BY <1>0, <1>1, <1>2, <1>4, <2>1, PublicationAssumption DEF PublishNew, TypeOK, Go, Places, Transaction, Own, Claimed, BeforeClaim, Unpublished
  <2> QED
    BY <2>2, <2>3, <2>4 DEF Good
<1> QED
  BY <1>3, <1>4

\* RENAME_EXCHANGE, done or refused.
LEMMA PublishExchangeStep ==
  ASSUME Inv, NEW w \in Writers, PublishExchange(w)
  PROVE  Good(w)
<1>0. Own(w) /\ TypeOK /\ dir \in snapshots
  BY InvByWriter
<1>1. dir.temp[w] \in File \cup {Missing} /\ dir.target \in File \cup {Missing}
  BY <1>0, TempType DEF TypeOK
<1>2. CASE dir.target # Missing
  <2>1. Change([dir EXCEPT !.target = dir.temp[w], !.temp[w] = dir.target])
    BY <1>2 DEF PublishExchange
  <2>2. /\ dir' \in Directory /\ snapshots' = snapshots \cup {dir'}
        /\ dir'.journal = dir.journal /\ dir'.temp[w] = dir.target
        /\ \A v \in Writers \ {w} : dir'.temp[v] = dir.temp[v]
    BY <2>1, <1>1, BothUpdate
  <2>3. TypeOK'
    BY <1>0, <1>1, <1>2, <2>1, <2>2, PublicationAssumption DEF PublishExchange, TypeOK, Go, Places, Transaction, Fault
  <2>4. Local(w)
    BY <1>0, <1>1, <1>2, <2>1, <2>2, PublicationAssumption DEF PublishExchange, TypeOK, Go, Places, Transaction, Local, Own, Claimed
  <2>5. Own(w)'
    BY <1>0, <1>1, <1>2, <2>1, <2>2, PublicationAssumption DEF PublishExchange, TypeOK, Go, Places, Transaction, Own, Claimed, BeforeClaim, Unpublished
  <2> QED
    BY <2>3, <2>4, <2>5 DEF Good
<1>3. CASE dir.target = Missing
  <2>1. UNCHANGED <<dir, snapshots, outcome>>
    BY <1>3 DEF PublishExchange
  <2>2. TypeOK'
    BY <1>0, <1>1, <1>3, <2>1, PublicationAssumption DEF PublishExchange, TypeOK, Go, Places, Transaction, Fault
  <2>3. Local(w)
    BY <1>0, <1>1, <1>3, <2>1, PublicationAssumption DEF PublishExchange, TypeOK, Go, Places, Transaction, Local, Own, Claimed
  <2>4. Own(w)'
    BY <1>0, <1>1, <1>3, <2>1, PublicationAssumption DEF PublishExchange, TypeOK, Go, Places, Transaction, Own, Claimed, BeforeClaim, Unpublished
  <2> QED
    BY <2>2, <2>3, <2>4 DEF Good
<1> QED
  BY <1>2, <1>3

\* The validation of the displaced entry.
LEMMA RevalidateStep ==
  ASSUME Inv, NEW w \in Writers, Revalidate(w)
  PROVE  Good(w)
<1>0. Own(w) /\ TypeOK /\ dir \in snapshots
  BY InvByWriter
<1>1. outcome[w] \in Outcome
  BY <1>0 DEF TypeOK
<1>2. CASE Undisturbed(w, dir.temp[w])
  <2>1. /\ outcome' \in [Writers -> Outcome] /\ outcome'[w].state = "published" /\ outcome'[w].noAutoRetry
        /\ \A v \in Writers \ {w} : outcome'[v] = outcome[v]
    BY <1>2, <1>1, OutcomeSet, ReportUpdate DEF Revalidate
  <2>2. TypeOK'
    BY <1>0, <1>1, <1>2, <2>1, PublicationAssumption DEF Revalidate, TypeOK, Go, Places, Transaction, Fault
  <2>3. Local(w)
    BY <1>0, <1>1, <1>2, <2>1, PublicationAssumption DEF Revalidate, TypeOK, Go, Places, Transaction, Local, Own, Claimed
  <2>4. Own(w)'
    BY <1>0, <1>1, <1>2, <2>1, PublicationAssumption DEF Revalidate, TypeOK, Go, Places, Transaction, Own, Claimed, BeforeClaim, Unpublished
  <2> QED
    BY <2>2, <2>3, <2>4 DEF Good
<1>3. CASE ~Undisturbed(w, dir.temp[w])
  <2>1. /\ outcome' \in [Writers -> Outcome] /\ outcome'[w].state = "indeterminate" /\ outcome'[w].noAutoRetry
        /\ \A v \in Writers \ {w} : outcome'[v] = outcome[v]
    BY <1>3, <1>1, OutcomeSet, ReportUpdate DEF Revalidate
  <2>2. TypeOK'
    BY <1>0, <1>1, <1>3, <2>1, PublicationAssumption DEF Revalidate, TypeOK, Go, Places, Transaction, Fault
  <2>3. Local(w)
    BY <1>0, <1>1, <1>3, <2>1, PublicationAssumption DEF Revalidate, TypeOK, Go, Places, Transaction, Local, Own, Claimed
  <2>4. Own(w)'
    BY <1>0, <1>1, <1>3, <2>1, PublicationAssumption DEF Revalidate, TypeOK, Go, Places, Transaction, Own, Claimed, BeforeClaim, Unpublished
  <2> QED
    BY <2>2, <2>3, <2>4 DEF Good
<1> QED
  BY <1>2, <1>3

\* The displaced entry is removed after the exchange.
LEMMA UnlinkDisplacedStep ==
  ASSUME Inv, NEW w \in Writers, UnlinkDisplaced(w)
  PROVE  Good(w)
<1>0. Own(w) /\ TypeOK /\ dir \in snapshots
  BY InvByWriter
<1>1. /\ dir' \in Directory /\ snapshots' = snapshots \cup {dir'}
      /\ dir'.journal = dir.journal /\ dir'.temp[w] = Missing
      /\ \A v \in Writers \ {w} : dir'.temp[v] = dir.temp[v]
  BY TempUpdate DEF UnlinkDisplaced
<1>2. TypeOK'
  BY <1>0, <1>1, PublicationAssumption DEF UnlinkDisplaced, TypeOK, Go, Places, Transaction, Fault
<1>3. Local(w)
  BY <1>0, <1>1, PublicationAssumption DEF UnlinkDisplaced, TypeOK, Go, Places, Transaction, Local, Own, Claimed
<1>4. Own(w)'
  BY <1>0, <1>1, PublicationAssumption DEF UnlinkDisplaced, TypeOK, Go, Places, Transaction, Own, Claimed, BeforeClaim, Unpublished
<1> QED
  BY <1>2, <1>3, <1>4 DEF Good

\* The intent is removed once no temporary is left.
LEMMA UnlinkIntentStep ==
  ASSUME Inv, NEW w \in Writers, UnlinkIntent(w)
  PROVE  Good(w)
<1>0. Own(w) /\ TypeOK /\ dir \in snapshots
  BY InvByWriter
<1>1. /\ dir' \in Directory /\ snapshots' = snapshots \cup {dir'}
      /\ dir'.journal = Nobody /\ dir'.temp[w] = dir.temp[w]
      /\ \A v \in Writers \ {w} : dir'.temp[v] = dir.temp[v]
  BY JournalUpdate DEF UnlinkIntent
<1>2. TypeOK'
  BY <1>0, <1>1, PublicationAssumption DEF UnlinkIntent, TypeOK, Go, Places, Transaction, Fault
<1>3. Local(w)
  BY <1>0, <1>1, PublicationAssumption DEF UnlinkIntent, TypeOK, Go, Places, Transaction, Local, Own, Claimed
<1>4. Own(w)'
  BY <1>0, <1>1, PublicationAssumption DEF UnlinkIntent, TypeOK, Go, Places, Transaction, Own, Claimed, BeforeClaim, Unpublished
<1> QED
  BY <1>2, <1>3, <1>4 DEF Good

\* The finally block removes the candidate.
LEMMA DiscardStep ==
  ASSUME Inv, NEW w \in Writers, Discard(w)
  PROVE  Good(w)
<1>0. Own(w) /\ TypeOK /\ dir \in snapshots
  BY InvByWriter
<1>1. CASE dir.temp[w] = Missing
  <2>1. UNCHANGED <<dir, snapshots>>
    BY <1>1 DEF Discard
  <2>2. TypeOK'
    BY <1>0, <1>1, <2>1, PublicationAssumption DEF Discard, TypeOK, Go, Places, Transaction, Fault
  <2>3. Local(w)
    BY <1>0, <1>1, <2>1, PublicationAssumption DEF Discard, TypeOK, Go, Places, Transaction, Local, Own, Claimed
  <2>4. Own(w)'
    BY <1>0, <1>1, <2>1, PublicationAssumption DEF Discard, TypeOK, Go, Places, Transaction, Own, Claimed, BeforeClaim, Unpublished
  <2> QED
    BY <2>2, <2>3, <2>4 DEF Good
<1>2. CASE dir.temp[w] # Missing
  <2>1. /\ dir' \in Directory /\ snapshots' = snapshots \cup {dir'}
        /\ dir'.journal = dir.journal /\ dir'.temp[w] = Missing
        /\ \A v \in Writers \ {w} : dir'.temp[v] = dir.temp[v]
    BY <1>2, TempUpdate DEF Discard
  <2>2. TypeOK'
    BY <1>0, <1>2, <2>1, PublicationAssumption DEF Discard, TypeOK, Go, Places, Transaction, Fault
  <2>3. Local(w)
    BY <1>0, <1>2, <2>1, PublicationAssumption DEF Discard, TypeOK, Go, Places, Transaction, Local, Own, Claimed
  <2>4. Own(w)'
    BY <1>0, <1>2, <2>1, PublicationAssumption DEF Discard, TypeOK, Go, Places, Transaction, Own, Claimed, BeforeClaim, Unpublished
  <2> QED
    BY <2>2, <2>3, <2>4 DEF Good
<1> QED
  BY <1>1, <1>2

\* The finally block removes the intent.
LEMMA UnclaimStep ==
  ASSUME Inv, NEW w \in Writers, Unclaim(w)
  PROVE  Good(w)
<1>0. Own(w) /\ TypeOK /\ dir \in snapshots
  BY InvByWriter
<1>1. /\ dir' \in Directory /\ snapshots' = snapshots \cup {dir'}
      /\ dir'.journal = Nobody /\ dir'.temp[w] = dir.temp[w]
      /\ \A v \in Writers \ {w} : dir'.temp[v] = dir.temp[v]
  BY JournalUpdate DEF Unclaim
<1>2. TypeOK'
  BY <1>0, <1>1, PublicationAssumption DEF Unclaim, TypeOK, Go, Places, Transaction, Fault
<1>3. Local(w)
  BY <1>0, <1>1, PublicationAssumption DEF Unclaim, TypeOK, Go, Places, Transaction, Local, Own, Claimed
<1>4. Own(w)'
  BY <1>0, <1>1, PublicationAssumption DEF Unclaim, TypeOK, Go, Places, Transaction, Own, Claimed, BeforeClaim, Unpublished
<1> QED
  BY <1>2, <1>3, <1>4 DEF Good

\* The displaced entry cannot be examined.
LEMMA FailRevalidateStep ==
  ASSUME Inv, NEW w \in Writers, FailRevalidate(w)
  PROVE  Good(w)
<1>0. Own(w) /\ TypeOK /\ dir \in snapshots
  BY InvByWriter
<1>1. outcome[w] \in Outcome
  BY <1>0 DEF TypeOK
<1>2. /\ outcome' \in [Writers -> Outcome] /\ outcome'[w].state = "indeterminate" /\ outcome'[w].noAutoRetry
      /\ \A v \in Writers \ {w} : outcome'[v] = outcome[v]
  BY <1>1, OutcomeSet, ReportUpdate DEF FailRevalidate
<1>3. TypeOK'
  BY <1>0, <1>1, <1>2, PublicationAssumption DEF FailRevalidate, TypeOK, Go, Places, Transaction, Fault
<1>4. Local(w)
  BY <1>0, <1>1, <1>2, PublicationAssumption DEF FailRevalidate, TypeOK, Go, Places, Transaction, Local, Own, Claimed
<1>5. Own(w)'
  BY <1>0, <1>1, <1>2, PublicationAssumption DEF FailRevalidate, TypeOK, Go, Places, Transaction, Own, Claimed, BeforeClaim, Unpublished
<1> QED
  BY <1>3, <1>4, <1>5 DEF Good

\* An fsync of the directory fails after publication.
LEMMA FailSyncStep ==
  ASSUME Inv, NEW w \in Writers, FailSync(w)
  PROVE  Good(w)
<1>0. Own(w) /\ TypeOK /\ dir \in snapshots
  BY InvByWriter
<1>1. outcome[w] \in Outcome
  BY <1>0 DEF TypeOK
<1>2. /\ outcome' \in [Writers -> Outcome] /\ outcome'[w].state = outcome[w].state
      /\ outcome'[w].noAutoRetry = outcome[w].noAutoRetry
      /\ \A v \in Writers \ {w} : outcome'[v] = outcome[v]
  BY <1>1, OutcomeSet, ReportUpdate DEF FailSync
<1>3. TypeOK'
  BY <1>0, <1>1, <1>2, PublicationAssumption DEF FailSync, TypeOK, Go, Places, Transaction, Fault
<1>4. Local(w)
  BY <1>0, <1>1, <1>2, PublicationAssumption DEF FailSync, TypeOK, Go, Places, Transaction, Local, Own, Claimed
<1>5. Own(w)'
  BY <1>0, <1>1, <1>2, PublicationAssumption DEF FailSync, TypeOK, Go, Places, Transaction, Own, Claimed, BeforeClaim, Unpublished
<1> QED
  BY <1>3, <1>4, <1>5 DEF Good

\* An unlink of the finally block fails.
LEMMA FailDiscardStep ==
  ASSUME Inv, NEW w \in Writers, FailDiscard(w)
  PROVE  Good(w)
<1>0. Own(w) /\ TypeOK /\ dir \in snapshots
  BY InvByWriter
<1>1. outcome[w] \in Outcome
  BY <1>0 DEF TypeOK
<1>2. /\ outcome' \in [Writers -> Outcome] /\ outcome'[w].state = outcome[w].state /\ outcome'[w].noAutoRetry
      /\ \A v \in Writers \ {w} : outcome'[v] = outcome[v]
  BY <1>1, OutcomeSet, ReportUpdate DEF FailDiscard
<1>3. TypeOK'
  BY <1>0, <1>1, <1>2, PublicationAssumption DEF FailDiscard, TypeOK, Go, Places, Transaction, Fault
<1>4. Local(w)
  BY <1>0, <1>1, <1>2, PublicationAssumption DEF FailDiscard, TypeOK, Go, Places, Transaction, Local, Own, Claimed
<1>5. Own(w)'
  BY <1>0, <1>1, <1>2, PublicationAssumption DEF FailDiscard, TypeOK, Go, Places, Transaction, Own, Claimed, BeforeClaim, Unpublished
<1> QED
  BY <1>3, <1>4, <1>5 DEF Good

\* Every step of a writer is good for it.
LEMMA WriterStepIsGood ==
  ASSUME Inv, NEW w \in Writers, WriterStep(w)
  PROVE  Good(w)
BY QuietStep, CheckJournalStep, ClaimStep, CreateTemporaryStep, FillTemporaryStep, PublishNewStep,
    PublishExchangeStep, RevalidateStep, UnlinkDisplacedStep, UnlinkIntentStep,
    DiscardStep, UnclaimStep, FailRevalidateStep, FailSyncStep, FailDiscardStep
   DEF WriterStep

-----------------------------------------------------------------------------
(* The environment.                                                        *)

\* The fault counter stays in its range.
LEMMA FaultBounded ==
  ASSUME Inv, Fault
  PROVE  faults' \in 0 .. MaxFaults
BY PublicationAssumption DEF Inv, TypeOK, Fault

\* A power loss keeps the invariant: each survivor is one of the snapshots.
LEMMA PowerLossKeepsInv ==
  ASSUME Inv, PowerLoss
  PROVE  Inv'
<1> USE PublicationAssumption
<1> PICK s \in snapshots :
      dir' = [s EXCEPT !.target = Settled(@),
                       !.temp = [w \in Writers |-> Settled(s.temp[w])]]
  BY DEF PowerLoss
<1>1. s \in Directory
  BY DEF Inv, TypeOK
<1>2. /\ dir' \in Directory
      /\ dir'.journal = s.journal
      /\ \A w \in Writers : dir'.temp[w] = Missing <=> s.temp[w] = Missing
  BY <1>1, SettledType, TempType DEF Directory
<1>3. TypeOK'
  <2>1. pc' \in [Writers -> Places]
    BY DEF PowerLoss, Inv, TypeOK, Places
  <2>2. lock' = Nobody /\ snapshots' = {dir'} /\ Fault
    BY DEF PowerLoss
  <2>3. UNCHANGED <<want, observed, outcome, displaced, visible, spent>>
    BY DEF PowerLoss
  <2>4. TypeOK
    BY DEF Inv
  <2> QED
    <3>1. snapshots' \subseteq Directory /\ lock' \in Writers \cup {Nobody}
      BY <1>2, <2>2
    <3>2. faults' \in 0 .. MaxFaults
      BY <2>2, FaultBounded
    <3> QED
      BY <1>2, <2>1, <2>3, <2>4, <3>1, <3>2 DEF TypeOK
<1>4. ASSUME NEW w \in Writers PROVE Own(w)'
  <2>1. Own(w)
    BY InvByWriter
  <2>2. pc'[w] = IF pc[w] \in Transaction \cup {"lock"} THEN "dead" ELSE pc[w]
    BY DEF PowerLoss, Inv, TypeOK
  <2>3. /\ lock' = Nobody /\ snapshots' = {dir'} /\ UNCHANGED <<outcome, visible>>
    BY DEF PowerLoss
  <2>4. /\ pc'[w] \in {"dead", "idle", "done"}
        /\ pc'[w] # "dead" => pc'[w] = pc[w]
    BY <2>2 DEF Inv, TypeOK, Places, Transaction
  <2>5. /\ dir'.temp[w] # Missing => dir'.journal = w
        /\ pc[w] = "idle" => dir'.journal # w /\ dir'.temp[w] = Missing
    BY <1>2, <2>1 DEF Own, BeforeClaim
  <2> HIDE DEF PowerLoss
  <2> QED
    BY <2>1, <2>3, <2>4, <2>5 DEF Own, Transaction, BeforeClaim, Claimed, Unpublished
<1> QED
  BY <1>3, <1>4, InvByWriterNext DEF PowerLoss

\* A foreign write changes the target only.
LEMMA ForeignWriteKeepsInv ==
  ASSUME Inv, ForeignWrite
  PROVE  Inv'
<1>0. dir.target \in File \cup {Missing}
  BY TempType DEF Inv, TypeOK
<1> PICK f \in File \cup {Missing} : Change([dir EXCEPT !.target = f])
  <2> PICK d \in Foreign \ spent :
        \/ \E i \in FreeInos :
             Change([dir EXCEPT !.target = [ino |-> i, data |-> d, synced |-> TRUE]])
        \/ dir.target # Missing /\ Change([dir EXCEPT !.target = [@ EXCEPT !.data = d]])
        \/ Change([dir EXCEPT !.target = Missing])
    BY DEF ForeignWrite
  <2>1. \A i \in FreeInos : [ino |-> i, data |-> d, synced |-> TRUE] \in File
    BY DEF FreeInos, File, Data
  <2>2. dir.target # Missing => [dir.target EXCEPT !.data = d] \in File
    BY <1>0 DEF File, Data
  <2> QED
    BY <2>1, <2>2
<1>1. /\ dir' \in Directory /\ snapshots' = snapshots \cup {dir'}
      /\ dir'.journal = dir.journal /\ dir'.temp = dir.temp
  BY TargetUpdate
<1>2. TypeOK'
  BY <1>1 DEF ForeignWrite, Inv, TypeOK
<1>3. ASSUME NEW w \in Writers PROVE Own(w)'
  <2>1. Own(w) /\ dir \in snapshots
    BY InvByWriter
  <2> QED
    BY <1>1, <2>1 DEF Own, ForeignWrite
<1> QED
  BY <1>1, <1>2, <1>3, InvByWriterNext

-----------------------------------------------------------------------------
\* The invariant holds initially.
LEMMA InvInit == Init => Inv
<1> SUFFICES ASSUME Init PROVE Inv
  OBVIOUS
<1> USE PublicationAssumption
<1>0. PICK f \in File \cup {Missing} :
        dir = [target |-> f, temp |-> [w \in Writers |-> Missing], journal |-> Nobody]
  BY DEF Init, File, Data
<1>1. /\ dir \in Directory /\ dir.journal = Nobody
      /\ \A w \in Writers : dir.temp[w] = Missing
  BY <1>0 DEF Directory
<1>2. TypeOK
  BY <1>1 DEF Init, TypeOK, Places, Outcome
<1>3. ASSUME NEW w \in Writers PROVE Own(w)
  BY <1>1 DEF Init, Own, Transaction, BeforeClaim, Claimed, Unpublished
<1> QED
  BY <1>2, <1>3, InvByWriter DEF Init

\* The invariant is inductive.
LEMMA InvNext == Inv /\ [Next]_vars => Inv'
<1> SUFFICES ASSUME Inv, [Next]_vars PROVE Inv'
  OBVIOUS
<1>1. ASSUME NEW w \in Writers, WriterStep(w) PROVE Inv'
  <2>1. TypeOK' /\ Local(w) /\ Own(w)'
    BY <1>1, WriterStepIsGood DEF Good
  <2>2. \A v \in Writers : Own(v)'
    BY <2>1, OthersKeepInv
  <2> QED
    BY <2>1, <2>2, InvByWriterNext DEF Local
<1>2. CASE UNCHANGED vars
  BY <1>2 DEF vars, Inv, TypeOK, OneTransaction, NothingBeforeClaim, ClaimHeld,
     TruthfulOutcome, NoOrphanTemporary, RetryableMeansUntouched
<1> QED
  BY <1>1, <1>2, NextCases, PowerLossKeepsInv, ForeignWriteKeepsInv

\* The inductive invariant holds for every instance of publish_bytes.
THEOREM InvHolds == Spec => []Inv
BY InvInit, InvNext, PTL DEF Spec

\* Types are respected.
THEOREM TypeCorrect == Spec => []TypeOK
BY InvHolds, PTL DEF Inv

\* The flock on the directory gives mutual exclusion: only the holder is between
\* the lock and the unlock of publish_bytes.
THEOREM MutualExclusion == Spec => []OneTransaction
BY InvHolds, PTL DEF Inv

\* A temporary never outlives its intent, in any directory that a crash or a
\* power loss may leave.
THEOREM TemporariesAreJournaled == Spec => []NoOrphanTemporary
BY InvHolds, PTL DEF Inv

-----------------------------------------------------------------------------
(* The displaced file.                                                      *)

Validated == {"claim", "intent", "syncIntent", "create", "fill", "publish"}
Finishing == {"syncPublished", "unlinkDisplaced", "syncUnlinked", "unlinkIntent",
              "syncFinal"}

\* The publication of w is beyond the reach of a power loss.
Durable(w) ==
  \/ pc[w] \in Finishing \ {"syncPublished"}
  \/ /\ pc[w] \in {"release", "done"}
     /\ outcome[w].state = "published" /\ ~outcome[w].durabilityWarning

\* Bytes that have been at the target: none of them is put there again.
Known == visible \cup spent \cup {Original}

\* The target of directory d has bytes x.
Shows(d, x) == d.target # Missing /\ d.target.data = x

\* A file at the target is durable.
Stored ==
  \A s \in snapshots : s.target # Missing => s.target.synced /\ s.target.data \in Known

\* What w put at the target and what it took off it, on the way and afterwards.
Custody(w) ==
  /\ w \notin visible => displaced[w] = Missing
  /\ displaced[w] # Missing => displaced[w].synced /\ displaced[w].data \in Known \ {w}
  /\ pc[w] = "publish" =>
       dir.temp[w] # Missing /\ dir.temp[w].data = w /\ dir.temp[w].synced
  /\ pc[w] \in {"create", "fill", "publish"} => \A s \in snapshots : s.journal = w
  /\ pc[w] \in Validated => IF observed[w] = Missing THEN want[w] \in {Missing, Anything}
                                                     ELSE want[w] # Missing
  /\ pc[w] = "revalidate" =>
       /\ displaced[w] # Missing /\ dir.temp[w] = displaced[w] /\ want[w] # Missing
       /\ outcome[w].state = "not_published"
  /\ pc[w] \in Finishing => outcome[w].state = "published"
  /\ pc[w] = "syncUnsure" => outcome[w].state = "indeterminate"
  /\ w \in visible /\ displaced[w] # Missing
     /\ (outcome[w].state # "published" \/ MayBeUndone(w)) =>
       \A s \in snapshots : s.journal = w /\ (Shows(s, w) => s.temp[w] = displaced[w])
  /\ outcome[w].state = "published" /\ want[w] # Anything =>
       IF want[w] = Missing
         THEN displaced[w] = Missing
         ELSE displaced[w] # Missing /\ displaced[w].data = want[w].data
  /\ pc[w] \in {"revalidate", "syncPublished"} /\ displaced[w] # Missing =>
       ~Shows(dir, displaced[w].data)
  /\ Durable(w) /\ displaced[w] # Missing =>
       \A s \in snapshots : ~Shows(s, displaced[w].data)

CustodyInv == Inv /\ Stored /\ \A w \in Writers : Custody(w)

\* What a step of w may do to the target and to the history of the others.
Frame(w) ==
  /\ spent' = spent
  /\ visible \subseteq visible'
  /\ \A v \in Writers \ {w} :
       want'[v] = want[v] /\ observed'[v] = observed[v] /\ displaced'[v] = displaced[v]
  /\ \/ dir'.target = dir.target
     \/ /\ pc[w] = "publish"
        /\ Shows(dir', w) /\ dir'.target.synced /\ w \in visible' \ visible

\* What each action of w is to establish about the displaced files.
Careful(w) == Frame(w) /\ Stored' /\ Custody(w)'

\* A step of w keeps what the other writers displaced as it was.
LEMMA OthersKeepCustody ==
  ASSUME CustodyInv, TypeOK', NEW w \in Writers, Local(w), Frame(w), NEW v \in Writers, v # w
  PROVE  Custody(v)'
<1>1. Custody(v) /\ TypeOK /\ dir \in snapshots /\ Own(v)
  BY InvByWriter DEF CustodyInv
<1>2. /\ pc'[v] = pc[v] /\ outcome'[v] = outcome[v] /\ want'[v] = want[v]
      /\ observed'[v] = observed[v] /\ displaced'[v] = displaced[v]
      /\ dir'.temp[v] = dir.temp[v] /\ (v \in visible' <=> v \in visible)
      /\ dir.journal = v => dir'.journal = v
      /\ snapshots' \subseteq snapshots \cup {dir'}
      /\ Known \subseteq Known'
  BY PublicationAssumption DEF Local, Frame, Known
<1>3. \A x \in Known \cup {v} : Shows(dir', x) => dir'.target = dir.target /\ Shows(dir, x)
  BY PublicationAssumption DEF Frame, Shows, Known, CustodyInv, Inv, TypeOK
<1>4. Durable(v)' <=> Durable(v)
  BY <1>2 DEF Durable
<1>5. ASSUME v \in visible, outcome[v].state # "published" \/ MayBeUndone(v)',
             displaced[v] # Missing, NEW s \in snapshots'
      PROVE  s.journal = v /\ (Shows(s, v) => s.temp[v] = displaced[v])
  <2>1. displaced[v].data \in Known
    BY <1>1, <1>5 DEF Custody
  <2>2. outcome[v].state # "published" \/ MayBeUndone(v)
    BY <1>1, <1>2, <1>3, <1>5, <2>1 DEF MayBeUndone, Shows
  <2> QED
    BY <1>1, <1>2, <1>3, <1>5, <2>2 DEF Custody
<1>6. ASSUME Durable(v), displaced[v] # Missing, NEW s \in snapshots'
      PROVE  ~Shows(s, displaced[v].data)
  BY <1>1, <1>2, <1>3, <1>6 DEF Custody
<1> QED
  <2> USE <1>1, <1>2, <1>3
  <2>1. /\ v \notin visible' => displaced'[v] = Missing
        /\ displaced'[v] # Missing => displaced'[v].synced /\ displaced'[v].data \in Known' \ {v}
    BY DEF Custody
  <2>2. /\ pc'[v] = "publish" =>
             dir'.temp[v] # Missing /\ dir'.temp[v].data = v /\ dir'.temp[v].synced
        /\ pc'[v] \in {"create", "fill", "publish"} => \A s \in snapshots' : s.journal = v
        /\ pc'[v] = "revalidate" =>
             /\ displaced'[v] # Missing /\ dir'.temp[v] = displaced'[v] /\ want'[v] # Missing
             /\ outcome'[v].state = "not_published"
    BY DEF Custody
  <2>3. /\ pc'[v] \in {"revalidate", "syncPublished"} /\ displaced'[v] # Missing =>
             ~Shows(dir', displaced'[v].data)
    BY DEF Custody
  <2>4. /\ v \in visible' /\ displaced'[v] # Missing
           /\ (outcome'[v].state # "published" \/ MayBeUndone(v)') =>
             \A s \in snapshots' : s.journal = v /\ (Shows(s, v) => s.temp[v] = displaced'[v])
    BY <1>5
  <2>5. Durable(v)' /\ displaced'[v] # Missing =>
          \A s \in snapshots' : ~Shows(s, displaced'[v].data)
    BY <1>4, <1>6
  <2> QED
    BY <2>1, <2>2, <2>3, <2>4, <2>5 DEF Custody

\* The steps that touch neither entries nor the intent nor an outcome.
LEMMA QuietStepIsCareful ==
  ASSUME CustodyInv, NEW w \in Writers,
         Begin(w) \/ Acquire(w) \/ Busy(w) \/ Validate(w) \/
         WriteIntent(w) \/ SyncIntent(w) \/ SyncPublished(w) \/ SyncUnlinked(w) \/ SyncFinal(w)
         \/ SyncUnsure(w) \/ Release(w) \/ FailUnclaimed(w) \/ FailClaimed(w) \/ FailCleanup(w) \/ Crash(w)
  PROVE  Careful(w)
<1>0. Own(w) /\ Custody(w) /\ Stored /\ TypeOK /\ dir \in snapshots
  BY InvByWriter DEF CustodyInv
<1> USE <1>0, PublicationAssumption DEF TypeOK, Go, Validated, Finishing, Durable, Known,
    BeforeClaim, Claimed, Unpublished, MayBeUndone, Shows
<1>1. CASE Begin(w)
  <2>1. Frame(w) /\ Stored'
    BY <1>1 DEF Begin, Frame, Stored
  <2>2. Custody(w)'
    BY <1>1 DEF Begin, Own, Custody
  <2> QED
    BY <2>1, <2>2 DEF Careful
<1>2. CASE Acquire(w)
  <2>1. Frame(w) /\ Stored'
    BY <1>2 DEF Acquire, Frame, Stored
  <2>2. Custody(w)'
    BY <1>2 DEF Acquire, Own, Custody
  <2> QED
    BY <2>1, <2>2 DEF Careful
<1>3. CASE Busy(w)
  <2>1. Frame(w) /\ Stored'
    BY <1>3 DEF Busy, Frame, Stored
  <2>2. Custody(w)'
    BY <1>3 DEF Busy, Own, Custody
  <2> QED
    BY <2>1, <2>2 DEF Careful
<1>4. CASE Validate(w)
  <2>1. Frame(w) /\ Stored'
    BY <1>4 DEF Validate, Frame, Stored
  <2>2. Custody(w)'
    BY <1>4 DEF Validate, Own, Custody, Acceptable, Expects
  <2> QED
    BY <2>1, <2>2 DEF Careful
<1>5. CASE WriteIntent(w)
  <2>1. Frame(w) /\ Stored'
    BY <1>5 DEF WriteIntent, Frame, Stored
  <2>2. Custody(w)'
    BY <1>5 DEF WriteIntent, Own, Custody
  <2> QED
    BY <2>1, <2>2 DEF Careful
<1>6. CASE SyncIntent(w)
  <2>1. Frame(w) /\ Stored'
    BY <1>6 DEF SyncIntent, Persist, Frame, Stored
  <2>2. Custody(w)'
    BY <1>6 DEF SyncIntent, Persist, Own, Custody
  <2> QED
    BY <2>1, <2>2 DEF Careful
<1>7. CASE SyncPublished(w)
  <2>1. Frame(w) /\ Stored'
    BY <1>7 DEF SyncPublished, Persist, Frame, Stored
  <2>2. Custody(w)'
    BY <1>7 DEF SyncPublished, Persist, Own, Custody
  <2> QED
    BY <2>1, <2>2 DEF Careful
<1>8. CASE SyncUnlinked(w)
  <2>1. Frame(w) /\ Stored'
    BY <1>8 DEF SyncUnlinked, Persist, Frame, Stored
  <2>2. Custody(w)'
    BY <1>8 DEF SyncUnlinked, Persist, Own, Custody
  <2> QED
    BY <2>1, <2>2 DEF Careful
<1>9. CASE SyncFinal(w)
  <2>1. Frame(w) /\ Stored'
    BY <1>9 DEF SyncFinal, Persist, Frame, Stored
  <2>2. Custody(w)'
    BY <1>9 DEF SyncFinal, Persist, Own, Custody
  <2> QED
    BY <2>1, <2>2 DEF Careful
<1>10. CASE SyncUnsure(w)
  <2>1. Frame(w) /\ Stored'
    BY <1>10 DEF SyncUnsure, Persist, Frame, Stored
  <2>2. Custody(w)'
    BY <1>10 DEF SyncUnsure, Persist, Own, Custody
  <2> QED
    BY <2>1, <2>2 DEF Careful
<1>11. CASE Release(w)
  <2>1. Frame(w) /\ Stored'
    BY <1>11 DEF Release, Frame, Stored
  <2>2. Custody(w)'
    BY <1>11 DEF Release, Own, Custody
  <2> QED
    BY <2>1, <2>2 DEF Careful
<1>12. CASE FailUnclaimed(w)
  <2>1. Frame(w) /\ Stored'
    BY <1>12 DEF FailUnclaimed, Fault, Frame, Stored
  <2>2. Custody(w)'
    BY <1>12 DEF FailUnclaimed, Fault, Own, Custody
  <2> QED
    BY <2>1, <2>2 DEF Careful
<1>13. CASE FailClaimed(w)
  <2>1. Frame(w) /\ Stored'
    BY <1>13 DEF FailClaimed, Fault, Frame, Stored
  <2>2. Custody(w)'
    BY <1>13 DEF FailClaimed, Fault, Own, Custody
  <2> QED
    BY <2>1, <2>2 DEF Careful
<1>14. CASE FailCleanup(w)
  <2>1. Frame(w) /\ Stored'
    BY <1>14 DEF FailCleanup, Fault, Frame, Stored
  <2>2. Custody(w)'
    BY <1>14 DEF FailCleanup, Fault, Own, Custody
  <2> QED
    BY <2>1, <2>2 DEF Careful
<1>15. CASE Crash(w)
  <2>1. Frame(w) /\ Stored'
    BY <1>15 DEF Crash, Frame, Stored
  <2>2. Custody(w)'
    BY <1>15 DEF Crash, Own, Custody
  <2> QED
    BY <2>1, <2>2 DEF Careful
<1> QED
  BY <1>1, <1>2, <1>3, <1>4, <1>5, <1>6, <1>7, <1>8, <1>9, <1>10, <1>11, <1>12, <1>13, <1>14, <1>15

\* The look at an earlier intent.
LEMMA CheckJournalStepIsCareful ==
  ASSUME CustodyInv, NEW w \in Writers, CheckJournal(w)
  PROVE  Careful(w)
<1>0. Own(w) /\ Custody(w) /\ Stored /\ TypeOK /\ dir \in snapshots /\ outcome[w] \in Outcome
  BY InvByWriter DEF CustodyInv, Inv, TypeOK
<1> USE <1>0, PublicationAssumption DEF TypeOK, Go, Validated, Finishing, Durable, Known,
    BeforeClaim, Claimed, Unpublished, MayBeUndone, Shows
<1>1. CASE dir.journal = Nobody
  <2>1. UNCHANGED outcome
    BY <1>1 DEF CheckJournal
  <2>2. Frame(w) /\ Stored'
    BY <1>1, <2>1 DEF CheckJournal, Frame, Stored
  <2>3. Custody(w)'
    BY <1>1, <2>1 DEF CheckJournal, Own, Custody
  <2> QED
    BY <2>2, <2>3 DEF Careful
<1>2. CASE dir.journal # Nobody
  <2>1. /\ outcome'[w].state = outcome[w].state
        /\ outcome'[w].durabilityWarning = outcome[w].durabilityWarning
    BY <1>2, OutcomeSet, ReportUpdate DEF CheckJournal, CustodyInv
  <2>2. Frame(w) /\ Stored'
    BY <1>2, <2>1 DEF CheckJournal, Frame, Stored
  <2>3. Custody(w)'
    BY <1>2, <2>1 DEF CheckJournal, Own, Custody
  <2> QED
    BY <2>2, <2>3 DEF Careful
<1> QED
  BY <1>1, <1>2

\* The validation of the displaced entry.
LEMMA RevalidateStepIsCareful ==
  ASSUME CustodyInv, NEW w \in Writers, Revalidate(w)
  PROVE  Careful(w)
<1>0. Own(w) /\ Custody(w) /\ Stored /\ TypeOK /\ dir \in snapshots /\ outcome[w] \in Outcome
  BY InvByWriter DEF CustodyInv, Inv, TypeOK
<1> USE <1>0, PublicationAssumption DEF TypeOK, Go, Validated, Finishing, Durable, Known,
    BeforeClaim, Claimed, Unpublished, MayBeUndone, Shows
<1>1. CASE Undisturbed(w, dir.temp[w])
  <2>1. /\ outcome'[w].state = "published"
        /\ outcome'[w].durabilityWarning = outcome[w].durabilityWarning
    BY <1>1, OutcomeSet, ReportUpdate DEF Revalidate, CustodyInv
  <2>2. Frame(w) /\ Stored'
    BY <1>1, <2>1 DEF Revalidate, Frame, Stored
  <2>3. Custody(w)'
    BY <1>1, <2>1 DEF Revalidate, Own, Custody, Undisturbed, Expects
  <2> QED
    BY <2>2, <2>3 DEF Careful
<1>2. CASE ~Undisturbed(w, dir.temp[w])
  <2>1. /\ outcome'[w].state = "indeterminate"
        /\ outcome'[w].durabilityWarning = outcome[w].durabilityWarning
    BY <1>2, OutcomeSet, ReportUpdate DEF Revalidate, CustodyInv
  <2>2. Frame(w) /\ Stored'
    BY <1>2, <2>1 DEF Revalidate, Frame, Stored
  <2>3. Custody(w)'
    BY <1>2, <2>1 DEF Revalidate, Own, Custody
  <2> QED
    BY <2>2, <2>3 DEF Careful
<1> QED
  BY <1>1, <1>2

\* The displaced entry cannot be examined.
LEMMA FailRevalidateStepIsCareful ==
  ASSUME CustodyInv, NEW w \in Writers, FailRevalidate(w)
  PROVE  Careful(w)
<1>0. Own(w) /\ Custody(w) /\ Stored /\ TypeOK /\ dir \in snapshots /\ outcome[w] \in Outcome
  BY InvByWriter DEF CustodyInv, Inv, TypeOK
<1> USE <1>0, PublicationAssumption DEF TypeOK, Go, Validated, Finishing, Durable, Known,
    BeforeClaim, Claimed, Unpublished, MayBeUndone, Shows
<1>1. /\ outcome'[w].state = "indeterminate"
      /\ outcome'[w].durabilityWarning = outcome[w].durabilityWarning
  BY OutcomeSet, ReportUpdate DEF FailRevalidate, CustodyInv
<1>2. Frame(w) /\ Stored'
  BY <1>1 DEF FailRevalidate, Frame, Stored
<1>3. Custody(w)'
  BY <1>1 DEF FailRevalidate, Own, Custody
<1> QED
  BY <1>2, <1>3 DEF Careful

\* An fsync of the directory fails.
LEMMA FailSyncStepIsCareful ==
  ASSUME CustodyInv, NEW w \in Writers, FailSync(w)
  PROVE  Careful(w)
<1>0. Own(w) /\ Custody(w) /\ Stored /\ TypeOK /\ dir \in snapshots /\ outcome[w] \in Outcome
  BY InvByWriter DEF CustodyInv, Inv, TypeOK
<1> USE <1>0, PublicationAssumption DEF TypeOK, Go, Validated, Finishing, Durable, Known,
    BeforeClaim, Claimed, Unpublished, MayBeUndone, Shows
<1>1. /\ outcome'[w].state = outcome[w].state
      /\ outcome'[w].durabilityWarning
  BY OutcomeSet, ReportUpdate DEF FailSync, CustodyInv
<1>2. Frame(w) /\ Stored'
  BY <1>1 DEF FailSync, Frame, Stored
<1>3. Custody(w)'
  BY <1>1 DEF FailSync, Own, Custody
<1> QED
  BY <1>2, <1>3 DEF Careful

\* An unlink of the finally block fails.
LEMMA FailDiscardStepIsCareful ==
  ASSUME CustodyInv, NEW w \in Writers, FailDiscard(w)
  PROVE  Careful(w)
<1>0. Own(w) /\ Custody(w) /\ Stored /\ TypeOK /\ dir \in snapshots /\ outcome[w] \in Outcome
  BY InvByWriter DEF CustodyInv, Inv, TypeOK
<1> USE <1>0, PublicationAssumption DEF TypeOK, Go, Validated, Finishing, Durable, Known,
    BeforeClaim, Claimed, Unpublished, MayBeUndone, Shows
<1>1. /\ outcome'[w].state = outcome[w].state
      /\ outcome'[w].durabilityWarning = outcome[w].durabilityWarning
  BY OutcomeSet, ReportUpdate DEF FailDiscard, CustodyInv
<1>2. Frame(w) /\ Stored'
  BY <1>1 DEF FailDiscard, Frame, Stored
<1>3. Custody(w)'
  BY <1>1 DEF FailDiscard, Own, Custody
<1> QED
  BY <1>2, <1>3 DEF Careful

\* O_EXCL creation of the intent.
LEMMA ClaimStepIsCareful ==
  ASSUME CustodyInv, NEW w \in Writers, Claim(w)
  PROVE  Careful(w)
<1>0. Own(w) /\ Custody(w) /\ Stored /\ TypeOK /\ dir \in snapshots /\ outcome[w] \in Outcome
  BY InvByWriter DEF CustodyInv, Inv, TypeOK
<1> USE <1>0, PublicationAssumption DEF TypeOK, Go, Validated, Finishing, Durable, Known,
    BeforeClaim, Claimed, Unpublished, MayBeUndone, Shows
<1>1. /\ snapshots' = snapshots \cup {dir'} /\ dir'.journal = w
      /\ dir'.temp = dir.temp /\ dir'.target = dir.target
  BY JournalUpdate DEF Claim, CustodyInv
<1>2. Frame(w) /\ Stored'
  BY <1>1 DEF Claim, Frame, Stored
<1>3. Custody(w)'
  BY <1>1 DEF Claim, Own, Custody
<1> QED
  BY <1>2, <1>3 DEF Careful

\* The intent is removed once no temporary is left.
LEMMA UnlinkIntentStepIsCareful ==
  ASSUME CustodyInv, NEW w \in Writers, UnlinkIntent(w)
  PROVE  Careful(w)
<1>0. Own(w) /\ Custody(w) /\ Stored /\ TypeOK /\ dir \in snapshots /\ outcome[w] \in Outcome
  BY InvByWriter DEF CustodyInv, Inv, TypeOK
<1> USE <1>0, PublicationAssumption DEF TypeOK, Go, Validated, Finishing, Durable, Known,
    BeforeClaim, Claimed, Unpublished, MayBeUndone, Shows
<1>1. /\ snapshots' = snapshots \cup {dir'} /\ dir'.journal = Nobody
      /\ dir'.temp = dir.temp /\ dir'.target = dir.target
  BY JournalUpdate DEF UnlinkIntent, CustodyInv
<1>2. Frame(w) /\ Stored'
  BY <1>1 DEF UnlinkIntent, Frame, Stored
<1>3. Custody(w)'
  BY <1>1 DEF UnlinkIntent, Own, Custody, Shows
<1> QED
  BY <1>2, <1>3 DEF Careful

\* The finally block removes the intent.
LEMMA UnclaimStepIsCareful ==
  ASSUME CustodyInv, NEW w \in Writers, Unclaim(w)
  PROVE  Careful(w)
<1>0. Own(w) /\ Custody(w) /\ Stored /\ TypeOK /\ dir \in snapshots /\ outcome[w] \in Outcome
  BY InvByWriter DEF CustodyInv, Inv, TypeOK
<1> USE <1>0, PublicationAssumption DEF TypeOK, Go, Validated, Finishing, Durable, Known,
    BeforeClaim, Claimed, Unpublished, MayBeUndone, Shows
<1>1. /\ snapshots' = snapshots \cup {dir'} /\ dir'.journal = Nobody
      /\ dir'.temp = dir.temp /\ dir'.target = dir.target
  BY JournalUpdate DEF Unclaim, CustodyInv
<1>2. Frame(w) /\ Stored'
  BY <1>1 DEF Unclaim, Frame, Stored
<1>3. Custody(w)'
  BY <1>1 DEF Unclaim, Own, Custody
<1> QED
  BY <1>2, <1>3 DEF Careful

\* O_EXCL creation of the candidate.
LEMMA CreateTemporaryStepIsCareful ==
  ASSUME CustodyInv, NEW w \in Writers, CreateTemporary(w)
  PROVE  Careful(w)
<1>0. Own(w) /\ Custody(w) /\ Stored /\ TypeOK /\ dir \in snapshots /\ outcome[w] \in Outcome
  BY InvByWriter DEF CustodyInv, Inv, TypeOK
<1> USE <1>0, PublicationAssumption DEF TypeOK, Go, Validated, Finishing, Durable, Known,
    BeforeClaim, Claimed, Unpublished, MayBeUndone, Shows
<1>1. PICK f \in File : Change([dir EXCEPT !.temp[w] = f])
  BY DEF CreateTemporary, FreeInos, File, Data
<1>2. /\ snapshots' = snapshots \cup {dir'} /\ dir'.journal = dir.journal
      /\ dir'.target = dir.target
  BY <1>1, TempUpdate DEF CustodyInv
<1>3. Frame(w) /\ Stored'
  BY <1>2 DEF CreateTemporary, Frame, Stored
<1>4. Custody(w)'
  BY <1>2 DEF CreateTemporary, Own, Custody
<1> QED
  BY <1>3, <1>4 DEF Careful

\* The candidate gets its bytes.
LEMMA FillTemporaryStepIsCareful ==
  ASSUME CustodyInv, NEW w \in Writers, FillTemporary(w)
  PROVE  Careful(w)
<1>0. Own(w) /\ Custody(w) /\ Stored /\ TypeOK /\ dir \in snapshots /\ outcome[w] \in Outcome
  BY InvByWriter DEF CustodyInv, Inv, TypeOK
<1> USE <1>0, PublicationAssumption DEF TypeOK, Go, Validated, Finishing, Durable, Known,
    BeforeClaim, Claimed, Unpublished, MayBeUndone, Shows
<1>1. dir.temp[w] \in File
  BY TempType DEF FillTemporary, Own
<1> DEFINE f == [dir.temp[w] EXCEPT !.data = w, !.synced = TRUE]
<1>2. f \in File /\ f.data = w /\ f.synced
  BY <1>1 DEF File, Data
<1>3. Change([dir EXCEPT !.temp[w] = f])
  BY DEF FillTemporary
<1>4. /\ snapshots' = snapshots \cup {dir'} /\ dir'.journal = dir.journal
      /\ dir'.temp[w] = f /\ dir'.target = dir.target
  <2> HIDE DEF f
  <2> QED
    BY <1>2, <1>3, TempUpdate DEF CustodyInv
<1> HIDE DEF f
<1>5. Frame(w) /\ Stored'
  BY <1>4 DEF FillTemporary, Frame, Stored
<1>6. Custody(w)'
  BY <1>2, <1>4 DEF FillTemporary, Own, Custody
<1> QED
  BY <1>5, <1>6 DEF Careful

\* The displaced entry is removed after the exchange.
LEMMA UnlinkDisplacedStepIsCareful ==
  ASSUME CustodyInv, NEW w \in Writers, UnlinkDisplaced(w)
  PROVE  Careful(w)
<1>0. Own(w) /\ Custody(w) /\ Stored /\ TypeOK /\ dir \in snapshots /\ outcome[w] \in Outcome
  BY InvByWriter DEF CustodyInv, Inv, TypeOK
<1> USE <1>0, PublicationAssumption DEF TypeOK, Go, Validated, Finishing, Durable, Known,
    BeforeClaim, Claimed, Unpublished, MayBeUndone, Shows
<1>1. /\ snapshots' = snapshots \cup {dir'} /\ dir'.journal = dir.journal
      /\ dir'.target = dir.target
  BY TempUpdate DEF UnlinkDisplaced, CustodyInv
<1>2. Frame(w) /\ Stored'
  BY <1>1 DEF UnlinkDisplaced, Frame, Stored
<1>3. Custody(w)'
  BY <1>1 DEF UnlinkDisplaced, Own, Custody, Shows
<1> QED
  BY <1>2, <1>3 DEF Careful

\* The finally block removes the candidate.
LEMMA DiscardStepIsCareful ==
  ASSUME CustodyInv, NEW w \in Writers, Discard(w)
  PROVE  Careful(w)
<1>0. Own(w) /\ Custody(w) /\ Stored /\ TypeOK /\ dir \in snapshots /\ outcome[w] \in Outcome
  BY InvByWriter DEF CustodyInv, Inv, TypeOK
<1> USE <1>0, PublicationAssumption DEF TypeOK, Go, Validated, Finishing, Durable, Known,
    BeforeClaim, Claimed, Unpublished, MayBeUndone, Shows
<1>1. CASE dir.temp[w] = Missing
  <2>1. UNCHANGED <<dir, snapshots>>
    BY <1>1 DEF Discard
  <2>2. Frame(w) /\ Stored'
    BY <1>1, <2>1 DEF Discard, Frame, Stored
  <2>3. Custody(w)'
    BY <1>1, <2>1 DEF Discard, Own, Custody
  <2> QED
    BY <2>2, <2>3 DEF Careful
<1>2. CASE dir.temp[w] # Missing
  <2>1. /\ snapshots' = snapshots \cup {dir'} /\ dir'.journal = dir.journal
        /\ dir'.target = dir.target
    BY <1>2, TempUpdate DEF Discard, CustodyInv
  <2>2. Frame(w) /\ Stored'
    BY <1>2, <2>1 DEF Discard, Frame, Stored
  <2>3. Custody(w)'
    BY <1>2, <2>1 DEF Discard, Own, Custody
  <2> QED
    BY <2>2, <2>3 DEF Careful
<1> QED
  BY <1>1, <1>2

\* RENAME_NOREPLACE, done or refused.
LEMMA PublishNewStepIsCareful ==
  ASSUME CustodyInv, NEW w \in Writers, PublishNew(w)
  PROVE  Careful(w)
<1>0. Own(w) /\ Custody(w) /\ Stored /\ TypeOK /\ dir \in snapshots /\ outcome[w] \in Outcome
  BY InvByWriter DEF CustodyInv, Inv, TypeOK
<1> USE <1>0, PublicationAssumption DEF TypeOK, Go, Validated, Finishing, Durable, Known,
    BeforeClaim, Claimed, Unpublished, MayBeUndone, Shows
<1>1. dir.temp[w] \in File \cup {Missing} /\ dir.target \in File \cup {Missing}
  BY TempType
<1>2. CASE dir.target = Missing
  <2>1. /\ Change([dir EXCEPT !.target = dir.temp[w], !.temp[w] = Missing])
        /\ Report(w, Told(outcome[w], "published"))
    BY <1>2 DEF PublishNew
  <2>2. /\ snapshots' = snapshots \cup {dir'} /\ dir'.journal = dir.journal
        /\ dir'.target = dir.temp[w] /\ visible' = visible \cup {w}
    BY <2>1, <1>1, <1>2, BothUpdate DEF CustodyInv, PublishNew
  <2>3. /\ outcome'[w].state = "published"
        /\ outcome'[w].durabilityWarning = outcome[w].durabilityWarning
    BY <2>1, OutcomeSet, ReportUpdate DEF CustodyInv
  <2>4. Frame(w) /\ Stored'
    BY <1>2, <2>2 DEF PublishNew, Frame, Stored, Own, Custody, Shows
  <2>5. Custody(w)'
    BY <1>2, <2>2, <2>3 DEF PublishNew, Own, Custody
  <2> QED
    BY <2>4, <2>5 DEF Careful
<1>3. CASE dir.target # Missing
  <2>1. UNCHANGED <<dir, snapshots, visible, outcome>>
    BY <1>3 DEF PublishNew
  <2>2. Frame(w) /\ Stored'
    BY <1>3, <2>1 DEF PublishNew, Frame, Stored
  <2>3. Custody(w)'
    BY <1>3, <2>1 DEF PublishNew, Own, Custody
  <2> QED
    BY <2>2, <2>3 DEF Careful
<1> QED
  BY <1>2, <1>3

\* RENAME_EXCHANGE, done or refused.
LEMMA PublishExchangeStepIsCareful ==
  ASSUME CustodyInv, NEW w \in Writers, PublishExchange(w)
  PROVE  Careful(w)
<1>0. Own(w) /\ Custody(w) /\ Stored /\ TypeOK /\ dir \in snapshots /\ outcome[w] \in Outcome
  BY InvByWriter DEF CustodyInv, Inv, TypeOK
<1> USE <1>0, PublicationAssumption DEF TypeOK, Go, Validated, Finishing, Durable, Known,
    BeforeClaim, Claimed, Unpublished, MayBeUndone, Shows
<1>1. dir.temp[w] \in File \cup {Missing} /\ dir.target \in File \cup {Missing}
  BY TempType
<1>2. CASE dir.target # Missing
  <2>1. /\ Change([dir EXCEPT !.target = dir.temp[w], !.temp[w] = dir.target])
        /\ pc[w] = "publish" /\ pc'[w] = "revalidate" /\ observed[w] # Missing
    BY <1>2 DEF PublishExchange
  <2>2. /\ snapshots' = snapshots \cup {dir'} /\ dir'.journal = dir.journal
        /\ dir'.target = dir.temp[w] /\ dir'.temp[w] = dir.target
    BY <2>1, <1>1, BothUpdate DEF CustodyInv
  <2>3. /\ visible' = visible \cup {w} /\ displaced'[w] = dir.target
        /\ UNCHANGED <<want, observed, outcome, spent>>
    BY <1>2 DEF PublishExchange
  <2>4. /\ w \notin visible /\ outcome[w].state = "not_published" /\ dir.journal = w
        /\ dir.temp[w] # Missing /\ dir.temp[w].data = w /\ dir.temp[w].synced
        /\ want[w] # Missing
    BY <2>1 DEF Own, Custody
  <2>5. Frame(w) /\ Stored'
    BY <1>2, <2>1, <2>2, <2>3, <2>4 DEF PublishExchange, Frame, Stored, Shows
  <2>6. dir.target.synced /\ dir.target.data \in Known \ {w}
    BY <1>2, <2>4 DEF Stored
  <2>7. \A s \in snapshots' : s.journal = w /\ (Shows(s, w) => s.temp[w] = displaced'[w])
    <3>1. \A s \in snapshots : s.journal = w
      BY <2>1 DEF Custody
    <3>2. \A s \in snapshots : ~Shows(s, w)
      BY <2>4 DEF Stored, Shows
    <3> QED
      BY <2>2, <2>3, <2>4, <3>1, <3>2
  <2>8. ~Shows(dir', displaced'[w].data)
    BY <2>2, <2>3, <2>4, <2>6 DEF Shows
  <2>9. Custody(w)'
    BY <1>2, <2>1, <2>2, <2>3, <2>4, <2>6, <2>7, <2>8 DEF Custody
  <2> QED
    BY <2>5, <2>9 DEF Careful
<1>3. CASE dir.target = Missing
  <2>1. UNCHANGED <<dir, snapshots, visible, displaced>>
    BY <1>3 DEF PublishExchange
  <2>2. Frame(w) /\ Stored'
    BY <1>3, <2>1 DEF PublishExchange, Frame, Stored
  <2>3. Custody(w)'
    BY <1>3, <2>1 DEF PublishExchange, Own, Custody
  <2> QED
    BY <2>2, <2>3 DEF Careful
<1> QED
  BY <1>2, <1>3

\* Every step of a writer respects the displaced files.
LEMMA WriterStepIsCareful ==
  ASSUME CustodyInv, NEW w \in Writers, WriterStep(w)
  PROVE  Careful(w)
BY QuietStepIsCareful, CheckJournalStepIsCareful, ClaimStepIsCareful,
   CreateTemporaryStepIsCareful, FillTemporaryStepIsCareful, PublishNewStepIsCareful,
   PublishExchangeStepIsCareful, RevalidateStepIsCareful, UnlinkDisplacedStepIsCareful,
   UnlinkIntentStepIsCareful, DiscardStepIsCareful, UnclaimStepIsCareful,
   FailRevalidateStepIsCareful, FailSyncStepIsCareful, FailDiscardStepIsCareful
   DEF WriterStep

\* A power loss brings back a snapshot whose target, if any, is durable, and so
\* is the displaced file beside it.
LEMMA PowerLossKeepsCustody ==
  ASSUME CustodyInv, PowerLoss
  PROVE  Stored' /\ \A w \in Writers : Custody(w)'
<1> PICK s \in snapshots :
      dir' = [s EXCEPT !.target = Settled(@),
                       !.temp = [w \in Writers |-> Settled(s.temp[w])]]
  BY DEF PowerLoss
<1>1. TypeOK /\ Stored /\ s \in Directory
  BY DEF CustodyInv, Inv, TypeOK
<1>2. /\ dir'.target = s.target /\ dir'.journal = s.journal
      /\ \A w \in Writers : s.temp[w] # Missing /\ s.temp[w].synced => dir'.temp[w] = s.temp[w]
  BY <1>1 DEF Directory, Settled, Stored
<1>3. /\ snapshots' = {dir'}
      /\ UNCHANGED <<want, observed, outcome, displaced, visible, spent>>
  BY DEF PowerLoss
<1>4. Stored' /\ Known' = Known
  BY <1>1, <1>2, <1>3 DEF Stored, Known
<1>5. ASSUME NEW w \in Writers PROVE Custody(w)'
  <2>1. Custody(w)
    BY DEF CustodyInv
  <2>2. /\ pc'[w] \in {"dead", "idle", "done"}
        /\ pc'[w] # "dead" => pc'[w] = pc[w]
    BY <1>1 DEF PowerLoss, TypeOK, Places, Transaction
  <2>3. w \in visible /\ displaced[w] # Missing
        /\ (outcome[w].state # "published" \/ MayBeUndone(w)') =>
          dir'.journal = w /\ (Shows(dir', w) => dir'.temp[w] = displaced[w])
    <3>1. MayBeUndone(w)' => MayBeUndone(w)
      BY <1>2, <1>3 DEF MayBeUndone
    <3> QED
      BY <1>2, <2>1, <3>1 DEF Custody, Shows
  <2>4. Durable(w)' /\ displaced[w] # Missing => ~Shows(dir', displaced[w].data)
    BY <1>2, <1>3, <2>1, <2>2 DEF Custody, Durable, Finishing, Shows
  <2> QED
    BY <1>3, <1>4, <2>1, <2>2, <2>3, <2>4 DEF Custody, Validated, Finishing
<1> QED
  BY <1>4, <1>5

\* A foreign program leaves a durable file with new bytes at the target, or none.
LEMMA ForeignWriteKeepsCustody ==
  ASSUME CustodyInv, ForeignWrite
  PROVE  Stored' /\ \A w \in Writers : Custody(w)'
<1>0. /\ TypeOK /\ dir \in snapshots /\ Stored /\ dir.target \in File \cup {Missing}
  BY TempType DEF CustodyInv, Inv, TypeOK
<1> PICK d \in Foreign \ spent, f \in File \cup {Missing} :
      /\ spent' = spent \cup {d}
      /\ f # Missing => f.synced /\ f.data = d
      /\ Change([dir EXCEPT !.target = f])
  <2> PICK d \in Foreign \ spent :
        /\ spent' = spent \cup {d}
        /\ \/ \E i \in FreeInos :
                Change([dir EXCEPT !.target = [ino |-> i, data |-> d, synced |-> TRUE]])
           \/ dir.target # Missing /\ Change([dir EXCEPT !.target = [@ EXCEPT !.data = d]])
           \/ Change([dir EXCEPT !.target = Missing])
    BY DEF ForeignWrite
  <2>1. \A i \in FreeInos : [ino |-> i, data |-> d, synced |-> TRUE] \in File
    BY DEF FreeInos, File, Data
  <2>2. dir.target # Missing =>
          /\ [dir.target EXCEPT !.data = d] \in File
          /\ [dir.target EXCEPT !.data = d].data = d
          /\ [dir.target EXCEPT !.data = d].synced
    BY <1>0 DEF File, Data, Stored
  <2> QED
    BY <2>1, <2>2
<1>1. /\ snapshots' = snapshots \cup {dir'} /\ dir'.target = f
      /\ dir'.journal = dir.journal /\ dir'.temp = dir.temp
  BY TargetUpdate DEF CustodyInv
<1>2. UNCHANGED <<pc, want, observed, outcome, displaced, visible>>
  BY DEF ForeignWrite
<1>3. Stored' /\ Known \subseteq Known' /\ d \notin Known \cup Writers
  BY <1>0, <1>1, <1>2, PublicationAssumption DEF Stored, Known, TypeOK
<1>4. ASSUME NEW w \in Writers PROVE Custody(w)'
  <2>1. Custody(w) /\ (Durable(w)' <=> Durable(w))
    BY <1>2 DEF CustodyInv, Durable
  <2>2. \A x \in Known \cup {w} : ~Shows(dir', x)
    BY <1>1, <1>3 DEF Shows
  <2>3. w \in visible /\ displaced[w] # Missing
        /\ (outcome[w].state # "published" \/ MayBeUndone(w)') =>
          \A s \in snapshots' : s.journal = w /\ (Shows(s, w) => s.temp[w] = displaced[w])
    <3>1. displaced[w] # Missing /\ MayBeUndone(w)' => MayBeUndone(w)
      BY <1>1, <1>2, <2>1, <2>2 DEF Custody, MayBeUndone, Shows
    <3> QED
      BY <1>0, <1>1, <1>2, <2>1, <2>2, <3>1 DEF Custody
  <2> QED
    BY <1>0, <1>1, <1>2, <1>3, <2>1, <2>2, <2>3 DEF Custody
<1> QED
  BY <1>3, <1>4

\* Nothing is displaced and nothing was published at the start.
LEMMA CustodyInit == Init => CustodyInv
<1> SUFFICES ASSUME Init PROVE CustodyInv
  OBVIOUS
<1>1. Stored
  <2> PICK f \in {Missing} \cup [ino : Inos, data : {Original}, synced : {TRUE}] :
        dir = [target |-> f, temp |-> [w \in Writers |-> Missing], journal |-> Nobody]
    BY DEF Init
  <2>1. dir.target = f /\ (f # Missing => f.synced /\ f.data = Original) /\ snapshots = {dir}
    BY DEF Init
  <2> QED
    BY <2>1 DEF Stored, Known
<1>2. ASSUME NEW w \in Writers PROVE Custody(w)
  BY <1>1 DEF Init, Custody, Validated, Finishing, Durable
<1> QED
  BY <1>1, <1>2, InvInit DEF CustodyInv

\* The custody of displaced files is inductive.
LEMMA CustodyNext == CustodyInv /\ [Next]_vars => CustodyInv'
<1> SUFFICES ASSUME CustodyInv, [Next]_vars PROVE CustodyInv'
  OBVIOUS
<1>0. Inv'
  BY InvNext DEF CustodyInv
<1>1. ASSUME NEW w \in Writers, WriterStep(w) PROVE Stored' /\ \A v \in Writers : Custody(v)'
  <2>1. TypeOK' /\ Local(w) /\ Frame(w) /\ Stored' /\ Custody(w)'
    BY <1>1, WriterStepIsGood, WriterStepIsCareful DEF Good, Careful, CustodyInv
  <2> QED
    BY <2>1, OthersKeepCustody
<1>2. CASE UNCHANGED vars
  BY <1>0, <1>2 DEF vars, CustodyInv, Stored, Custody, Known, Durable, Shows, MayBeUndone
<1> QED
  BY <1>0, <1>1, <1>2, NextCases, PowerLossKeepsCustody, ForeignWriteKeepsCustody
     DEF CustodyInv

\* Displaced files stay in custody, whatever happens.
LEMMA CustodyHolds == Spec => []CustodyInv
BY CustodyInit, CustodyNext, PTL DEF Spec

\* An edit that reports published replaced exactly the file its caller read, and
\* a write that expected no file displaced none.
THEOREM EditsLoseNoUpdate == Spec => []EditSupersedesItsBasis
<1>1. CustodyInv => EditSupersedesItsBasis
  BY DEF CustodyInv, Custody, EditSupersedesItsBasis
<1> QED
  BY <1>1, CustodyHolds, PTL

\* An invocation that reports "not published" never had its bytes at the target,
\* in no directory that a power loss may leave either; without no_auto_retry it
\* returns with neither candidate nor intent in the directory, and a power loss
\* that undoes their removal brings the candidate back only with its intent.
THEOREM RetryIsSafe == Spec => [](RetryableMeansUntouched /\ RefusalIsHarmless)
<1>1. CustodyInv => RetryableMeansUntouched /\ RefusalIsHarmless
  <2> SUFFICES ASSUME CustodyInv, NEW w \in Writers, NEW s \in snapshots,
                      outcome[w].state = "not_published", pc[w] \in {"release", "done"}
               PROVE  /\ s.target # Missing => s.target.data # w
                      /\ s.temp[w] # Missing => s.journal = w
    BY DEF CustodyInv, Inv, RefusalIsHarmless
  <2>1. Own(w) /\ TypeOK /\ Stored
    BY InvByWriter DEF CustodyInv
  <2>2. w \notin Known
    BY <2>1, PublicationAssumption DEF Own, Known, TypeOK
  <2> QED
    BY <2>1, <2>2 DEF Stored, Own
<1> QED
  BY <1>1, CustodyHolds, PTL

\* Until an exchange is validated and durable both files and the intent are on
\* disk, in every state that a crash or a power loss may leave.
THEOREM ExchangeKeepsBothFiles == Spec => []ExchangeKeepsBothCopies
<1>1. CustodyInv => ExchangeKeepsBothCopies
  <2> SUFFICES ASSUME CustodyInv, NEW w \in visible, NEW s \in snapshots,
                      outcome[w].state # "published" \/ MayBeUndone(w),
                      displaced[w] # Missing, Shows(s, w)
               PROVE  s.journal = w /\ s.temp[w] # Missing /\ s.temp[w].data = displaced[w].data
    BY DEF ExchangeKeepsBothCopies, Shows
  <2> QED
    BY DEF CustodyInv, Custody, Inv, TypeOK
<1> QED
  BY <1>1, CustodyHolds, PTL

\* What a durable publication displaced is never back at the target.
THEOREM PublicationIsDurable == Spec => []DurablePublication
<1>1. CustodyInv => DurablePublication
  BY DEF CustodyInv, Custody, Durable, Shows, DurablePublication
<1> QED
  BY <1>1, CustodyHolds, PTL

-----------------------------------------------------------------------------
(* Among cooperating writers publication implements ConditionalFile.        *)

\* What nobody else changes while w holds the lock.
Undisputed(w) ==
  /\ pc[w] \in Validated =>
       /\ observed[w] = Missing <=> dir.target = Missing
       /\ want[w] \in File => Shows(dir, want[w].data)
  /\ pc[w] \in Transaction /\ w \in visible => Shows(dir, w)
  /\ pc[w] \in Finishing \cup {"revalidate", "syncUnsure"} => w \in visible
  /\ pc[w] = "release" /\ outcome[w].state # "not_published" => w \in visible
  /\ pc[w] = "release" /\ outcome[w].state = "indeterminate" => dir.journal = w
  /\ pc[w] # "done" /\ Durable(w) => \A s \in snapshots : Shows(s, w)
  /\ outcome[w].state = "not_published" => ~outcome[w].durabilityWarning

CooperatingInv == CustodyInv /\ \A w \in Writers : Undisputed(w)

\* While a writer is in a transaction the others leave directory and target alone.
LEMMA OthersKeepUndisputed ==
  ASSUME CooperatingInv, TypeOK', NEW w \in Writers, Local(w), Frame(w), NEW v \in Writers, v # w
  PROVE  Undisputed(v)'
<1>1. Undisputed(v) /\ TypeOK /\ dir \in snapshots /\ Own(v) /\ Own(w)
  BY InvByWriter DEF CooperatingInv, CustodyInv
<1>2. /\ pc'[v] = pc[v] /\ outcome'[v] = outcome[v] /\ want'[v] = want[v]
      /\ observed'[v] = observed[v] /\ (v \in visible' <=> v \in visible)
      /\ dir.journal = v => dir'.journal = v
      /\ snapshots' \subseteq snapshots \cup {dir'}
  BY PublicationAssumption DEF Local, Frame
<1>3. pc[v] \in Transaction => dir'.target = dir.target
  BY <1>1, PublicationAssumption DEF Own, Frame, Transaction
<1>4. pc[v] # "done" /\ Durable(v) => pc[v] \in Transaction
  BY DEF Durable, Finishing, Transaction
<1>5. Durable(v)' <=> Durable(v)
  BY <1>2 DEF Durable
<1> QED
  BY <1>1, <1>2, <1>3, <1>4, <1>5 DEF Undisputed, Shows, Validated, Transaction

\* A step of w keeps what w relies on.
LEMMA ActorKeepsUndisputed ==
  ASSUME CooperatingInv, NEW w \in Writers, WriterStep(w)
  PROVE  Undisputed(w)'
<1>0. /\ Undisputed(w) /\ Own(w) /\ Custody(w) /\ TypeOK /\ dir \in snapshots
      /\ outcome[w] \in Outcome /\ Inv
  BY InvByWriter DEF CooperatingInv, CustodyInv, Inv, TypeOK
<1> USE <1>0, PublicationAssumption
    DEF TypeOK, Go, Validated, Finishing, Durable, BeforeClaim, Claimed, Unpublished, Transaction
<1>1. CASE Begin(w)
  BY <1>1 DEF Begin, Own, Undisputed
<1>2. CASE Acquire(w)
  BY <1>2 DEF Acquire, Own, Undisputed
<1>3. CASE Busy(w)
  BY <1>3 DEF Busy, Own, Undisputed
<1>4. CASE Validate(w)
  BY <1>4 DEF Validate, Own, Undisputed, Acceptable, Expects, Shows
<1>5. CASE WriteIntent(w)
  BY <1>5 DEF WriteIntent, Own, Undisputed
<1>6. CASE SyncIntent(w)
  BY <1>6 DEF SyncIntent, Own, Undisputed, Persist
<1>7. CASE SyncPublished(w)
  BY <1>7 DEF SyncPublished, Own, Undisputed, Persist
<1>8. CASE SyncUnlinked(w)
  BY <1>8 DEF SyncUnlinked, Own, Undisputed, Persist
<1>9. CASE SyncFinal(w)
  BY <1>9 DEF SyncFinal, Own, Undisputed, Persist, Custody
<1>10. CASE SyncUnsure(w)
  BY <1>10 DEF SyncUnsure, Own, Undisputed, Persist
<1>11. CASE Release(w)
  BY <1>11 DEF Release, Own, Undisputed
<1>12. CASE FailUnclaimed(w)
  BY <1>12 DEF FailUnclaimed, Own, Undisputed, Fault
<1>13. CASE FailClaimed(w)
  BY <1>13 DEF FailClaimed, Own, Undisputed, Fault
<1>14. CASE FailCleanup(w)
  BY <1>14 DEF FailCleanup, Own, Undisputed, Fault
<1>15. CASE Crash(w)
  BY <1>15 DEF Crash, Own, Undisputed
<1>16. CASE CheckJournal(w)
  <2>1. /\ outcome'[w].state = outcome[w].state
        /\ outcome'[w].durabilityWarning = outcome[w].durabilityWarning
    <3>1. CASE dir.journal = Nobody
      BY <1>16, <3>1 DEF CheckJournal
    <3>2. CASE dir.journal # Nobody
      BY <1>16, <3>2, OutcomeSet, ReportUpdate DEF CheckJournal
    <3> QED
      BY <3>1, <3>2
  <2> QED
    BY <1>16, <2>1 DEF CheckJournal, Own, Undisputed
<1>17. CASE Revalidate(w)
  <2>1. outcome'[w].state # "not_published" /\ pc'[w] \in {"syncPublished", "syncUnsure"}
    <3>1. CASE Undisturbed(w, dir.temp[w])
      BY <1>17, <3>1, OutcomeSet, ReportUpdate DEF Revalidate
    <3>2. CASE ~Undisturbed(w, dir.temp[w])
      BY <1>17, <3>2, OutcomeSet, ReportUpdate DEF Revalidate
    <3> QED
      BY <3>1, <3>2
  <2> QED
    BY <1>17, <2>1 DEF Revalidate, Own, Undisputed
<1>18. CASE FailRevalidate(w)
  <2>1. /\ outcome'[w].state = "indeterminate"
        /\ outcome'[w].durabilityWarning = outcome[w].durabilityWarning
    BY <1>18, OutcomeSet, ReportUpdate DEF FailRevalidate
  <2> QED
    BY <1>18, <2>1 DEF FailRevalidate, Own, Undisputed
<1>19. CASE FailSync(w)
  <2>1. outcome'[w].state = outcome[w].state /\ outcome'[w].durabilityWarning
    BY <1>19, OutcomeSet, ReportUpdate DEF FailSync
  <2> QED
    BY <1>19, <2>1 DEF FailSync, Own, Undisputed, Custody
<1>20. CASE FailDiscard(w)
  <2>1. /\ outcome'[w].state = outcome[w].state
        /\ outcome'[w].durabilityWarning = outcome[w].durabilityWarning
    BY <1>20, OutcomeSet, ReportUpdate DEF FailDiscard
  <2> QED
    BY <1>20, <2>1 DEF FailDiscard, Own, Undisputed
<1>21. CASE Claim(w)
  <2>1. /\ snapshots' = snapshots \cup {dir'} /\ dir'.journal = w
        /\ dir'.temp = dir.temp /\ dir'.target = dir.target
    BY <1>21, JournalUpdate DEF Claim
  <2> QED
    BY <1>21, <2>1 DEF Claim, Own, Undisputed, Shows
<1>22. CASE UnlinkIntent(w)
  <2>1. /\ snapshots' = snapshots \cup {dir'} /\ dir'.journal = Nobody
        /\ dir'.temp = dir.temp /\ dir'.target = dir.target
    BY <1>22, JournalUpdate DEF UnlinkIntent
  <2> QED
    BY <1>22, <2>1 DEF UnlinkIntent, Own, Undisputed, Shows
<1>23. CASE Unclaim(w)
  <2>1. /\ snapshots' = snapshots \cup {dir'} /\ dir'.journal = Nobody
        /\ dir'.temp = dir.temp /\ dir'.target = dir.target
    BY <1>23, JournalUpdate DEF Unclaim
  <2> QED
    BY <1>23, <2>1 DEF Unclaim, Own, Undisputed
<1>24. CASE CreateTemporary(w)
  <2>1. PICK f \in File : Change([dir EXCEPT !.temp[w] = f])
    BY <1>24 DEF CreateTemporary, FreeInos, File, Data
  <2>2. /\ snapshots' = snapshots \cup {dir'} /\ dir'.journal = dir.journal
        /\ dir'.target = dir.target
    BY <2>1, TempUpdate
  <2> QED
    BY <1>24, <2>2 DEF CreateTemporary, Own, Undisputed, Shows
<1>25. CASE FillTemporary(w)
  <2>1. dir.temp[w] \in File
    BY <1>25, TempType DEF FillTemporary, Own
  <2>2. [dir.temp[w] EXCEPT !.data = w, !.synced = TRUE] \in File
    BY <2>1 DEF File, Data
  <2>3. /\ snapshots' = snapshots \cup {dir'} /\ dir'.journal = dir.journal
        /\ dir'.target = dir.target
    BY <1>25, <2>2, TempUpdate DEF FillTemporary
  <2> QED
    BY <1>25, <2>3 DEF FillTemporary, Own, Undisputed, Shows
<1>26. CASE UnlinkDisplaced(w)
  <2>1. /\ snapshots' = snapshots \cup {dir'} /\ dir'.journal = dir.journal
        /\ dir'.target = dir.target
    BY <1>26, TempUpdate DEF UnlinkDisplaced
  <2> QED
    BY <1>26, <2>1 DEF UnlinkDisplaced, Own, Undisputed, Shows
<1>27. CASE Discard(w)
  <2>1. dir'.target = dir.target
    <3>1. CASE dir.temp[w] = Missing
      BY <1>27, <3>1 DEF Discard
    <3>2. CASE dir.temp[w] # Missing
      BY <1>27, <3>2, TempUpdate DEF Discard
    <3> QED
      BY <3>1, <3>2
  <2> QED
    BY <1>27, <2>1 DEF Discard, Own, Undisputed
<1>28. CASE PublishNew(w)
  <2>1. CASE dir.target = Missing
    <3>1. /\ Change([dir EXCEPT !.target = dir.temp[w], !.temp[w] = Missing])
          /\ visible' = visible \cup {w} /\ pc'[w] = "syncPublished" /\ pc[w] = "publish"
      BY <1>28, <2>1 DEF PublishNew
    <3>2. dir.temp[w] \in File \cup {Missing} /\ dir.target \in File \cup {Missing}
      BY TempType
    <3>3. dir'.target = dir.temp[w]
      BY <3>1, <3>2, BothUpdate
    <3>4. outcome'[w].state = "published"
      BY <1>28, <2>1, OutcomeSet, ReportUpdate DEF PublishNew
    <3> QED
      BY <3>1, <3>3, <3>4 DEF Custody, Undisputed, Shows
  <2>2. CASE dir.target # Missing
    BY <1>28, <2>2 DEF PublishNew, Own, Undisputed
  <2> QED
    BY <2>1, <2>2
<1>29. CASE PublishExchange(w)
  <2>1. CASE dir.target # Missing
    <3>1. /\ Change([dir EXCEPT !.target = dir.temp[w], !.temp[w] = dir.target])
          /\ visible' = visible \cup {w} /\ pc'[w] = "revalidate" /\ pc[w] = "publish"
          /\ UNCHANGED outcome
      BY <1>29, <2>1 DEF PublishExchange
    <3>2. dir.temp[w] \in File \cup {Missing} /\ dir.target \in File \cup {Missing}
      BY TempType
    <3>3. dir'.target = dir.temp[w]
      BY <3>1, <3>2, BothUpdate
    <3> QED
      BY <3>1, <3>3 DEF Custody, Undisputed, Shows
  <2>2. CASE dir.target = Missing
    BY <1>29, <2>2 DEF PublishExchange, Own, Undisputed
  <2> QED
    BY <2>1, <2>2
<1> QED
  BY <1>1, <1>2, <1>3, <1>4, <1>5, <1>6, <1>7, <1>8, <1>9, <1>10, <1>11, <1>12, <1>13, <1>14, <1>15, <1>16, <1>17, <1>18, <1>19, <1>20, <1>21, <1>22, <1>23, <1>24, <1>25, <1>26, <1>27, <1>28, <1>29
     DEF WriterStep

\* Without foreign programs the target is the holder's own.
LEMMA PowerLossKeepsUndisputed ==
  ASSUME CooperatingInv, PowerLoss, NEW w \in Writers
  PROVE  Undisputed(w)'
<1>1. TypeOK /\ Undisputed(w)
  BY DEF CooperatingInv, CustodyInv, Inv
<1>2. pc'[w] \in {"dead", "idle", "done"} /\ UNCHANGED outcome
  BY <1>1 DEF PowerLoss, TypeOK, Places, Transaction
<1> QED
  BY <1>1, <1>2 DEF Undisputed, Validated, Finishing, Transaction, Durable

\* Among cooperating writers the invariant is inductive.
LEMMA CooperatingNext ==
  ASSUME Foreign = {}, CooperatingInv, [Next]_vars
  PROVE  CooperatingInv'
<1>0. CustodyInv'
  BY CustodyNext DEF CooperatingInv
<1>1. ASSUME NEW w \in Writers, WriterStep(w) PROVE \A v \in Writers : Undisputed(v)'
  <2>1. TypeOK' /\ Local(w) /\ Frame(w) /\ Undisputed(w)'
    BY <1>1, WriterStepIsGood, WriterStepIsCareful, ActorKeepsUndisputed
       DEF Good, Careful, CooperatingInv, CustodyInv
  <2> QED
    BY <2>1, OthersKeepUndisputed
<1>2. ~ForeignWrite
  BY DEF ForeignWrite
<1>3. ASSUME UNCHANGED vars PROVE \A v \in Writers : Undisputed(v)'
  BY <1>3 DEF vars, CooperatingInv, Undisputed, Durable, Shows
<1>4. \A v \in Writers : Undisputed(v)'
  <2>1. CASE PowerLoss
    BY <2>1, PowerLossKeepsUndisputed
  <2> QED
    BY <1>1, <1>2, <1>3, <2>1, NextCases DEF CooperatingInv
<1> QED
  BY <1>0, <1>4 DEF CooperatingInv

\* Among cooperating writers nobody else touches what the holder relies on.
LEMMA CooperatingHolds ==
  ASSUME Foreign = {}
  PROVE  Spec => []CooperatingInv
<1>1. Init => CooperatingInv
  <2> SUFFICES ASSUME Init, NEW w \in Writers PROVE Undisputed(w)
    BY CustodyInit DEF CooperatingInv
  <2> QED
    BY DEF Init, Undisputed, Validated, Finishing, Transaction, Durable
<1>2. CooperatingInv /\ [Next]_vars => CooperatingInv'
  BY CooperatingNext
<1> QED
  BY <1>1, <1>2, PTL DEF Spec

\* An invocation that its caller waits for.
Pending == Transaction \cup {"lock"}

\* While its caller waits an invocation is open until its bytes are at the target.
LEMMA PendingPhase ==
  ASSUME NEW w \in Writers, pc[w] \in Pending
  PROVE  Phase(w) = (IF w \in visible THEN "written" ELSE "open") /\ w \notin Warnings
BY DEF Pending, Transaction, Phase, Warnings

\* The same after a step.
LEMMA PendingPhaseNext ==
  ASSUME NEW w \in Writers, pc'[w] \in Pending
  PROVE  Phase(w)' = (IF w \in visible' THEN "written" ELSE "open") /\ w \notin Warnings'
BY DEF Pending, Transaction, Phase, Warnings

\* A step of w changes no other invocation's phase.
LEMMA OthersPhases ==
  ASSUME NEW w \in Writers, Local(w)
  PROVE  /\ Phases' = [Phases EXCEPT ![w] = Phase(w)']
         /\ \A v \in Writers \ {w} : v \in Warnings' <=> v \in Warnings
<1>1. \A v \in Writers \ {w} : Phase(v)' = Phase(v)
  BY DEF Local, Phase
<1>2. \A v \in Writers \ {w} : v \in Warnings' <=> v \in Warnings
  BY DEF Local, Warnings
<1> QED
  BY <1>1, <1>2 DEF Phases

\* The value of the register is the data at the target.
LEMMA ValueOfTarget ==
  ASSUME NEW d, dir'.target = d.target
  PROVE  DataAt(dir)' = DataAt(d) /\ DataAt(dir') = DataAt(d)
BY DEF DataAt

\* The steps that no caller sees, and the fsyncs of the directory.
LEMMA HiddenStep ==
  ASSUME CooperatingInv, NEW w \in Writers, Local(w), pc[w] \in Pending, pc'[w] \in Pending,
         UNCHANGED <<want, visible>>, dir'.target = dir.target,
         dir'.journal = dir.journal \/ w \notin visible,
         snapshots' = snapshots \cup {dir'} \/ snapshots' = {dir'}
  PROVE  [Register!Next]_Register!vars
<1>0. dir \in snapshots /\ visible \subseteq Writers /\ DataAt(dir)' = DataAt(dir)
  BY ValueOfTarget DEF CooperatingInv, CustodyInv, Inv, TypeOK
<1>1. Phases' = Phases
  <2>1. Phase(w)' = Phases[w]
    BY PendingPhase, PendingPhaseNext DEF Phases
  <2> QED
    BY <2>1, OthersPhases DEF Phases
<1>2. Warnings' = Warnings
  BY PendingPhase, PendingPhaseNext, OthersPhases DEF Warnings
<1>3. Bases' = Bases
  BY DEF Bases
<1>4. Unresolved' = Unresolved
  BY <1>0, PublicationAssumption DEF Unresolved, Local
<1>5. Survivors' = Survivors \/ Survivors' = {DataAt(dir)}
  BY <1>0, ValueOfTarget DEF Survivors
<1> QED
  BY <1>0, <1>1, <1>2, <1>3, <1>4, <1>5 DEF Register!Next, Register!Persist, Register!vars

\* Putting the candidate at the target is the instant of the write.
LEMMA WriteStep ==
  ASSUME CooperatingInv, NEW w \in Writers, Local(w), pc[w] = "publish", pc'[w] \in Pending,
         UNCHANGED want, visible' = visible \cup {w},
         dir'.target = dir.temp[w], dir'.journal = dir.journal, snapshots' = snapshots \cup {dir'},
         want[w] \in File \/ want[w] = Anything \/ (want[w] = Missing /\ dir.target = Missing)
  PROVE  Register!Write(w)
<1>0. /\ Own(w) /\ Custody(w) /\ Undisputed(w)
      /\ w \notin visible /\ dir.journal = w
      /\ dir.temp[w] # Missing /\ dir.temp[w].data = w
  BY InvByWriter DEF CooperatingInv, CustodyInv, Own, Custody, Unpublished, Claimed
<1>1. pc[w] \in Pending
  BY DEF Pending, Transaction
<1>2. Phases[w] = "open" /\ Phases' = [Phases EXCEPT ![w] = "written"]
  BY <1>0, <1>1, PendingPhase, PendingPhaseNext, OthersPhases DEF Phases
<1>3. Warnings' = Warnings
  BY <1>1, PendingPhase, PendingPhaseNext, OthersPhases DEF Warnings
<1>4. Bases' = Bases
  BY DEF Bases
<1>5. Unresolved = Nobody /\ Unresolved' = w
  BY <1>0 DEF Unresolved
<1>6. DataAt(dir)' = w /\ DataAt(dir') = w
  BY <1>0 DEF DataAt
<1>7. Survivors' = Survivors \cup {w}
  BY <1>6 DEF Survivors
<1>8. Bases[w] \in {Anything, DataAt(dir)}
  BY <1>0, PublicationAssumption DEF Bases, Undisputed, Validated, Shows, DataAt
<1> QED
  BY <1>2, <1>3, <1>4, <1>5, <1>6, <1>7, <1>8 DEF Register!Write, Register!To

\* RENAME_NOREPLACE and RENAME_EXCHANGE write the register or do nothing.
LEMMA PublishSteps ==
  ASSUME CooperatingInv, NEW w \in Writers, Local(w), PublishNew(w) \/ PublishExchange(w)
  PROVE  Register!Write(w) \/ [Register!Next]_Register!vars
<1>0. /\ Inv /\ TypeOK /\ Custody(w) /\ Undisputed(w) /\ dir \in snapshots
      /\ dir.temp[w] \in File \cup {Missing} /\ dir.target \in File \cup {Missing}
      /\ want[w] \in File \cup {Missing, Anything}
  BY TempType DEF CooperatingInv, CustodyInv, Inv, TypeOK
<1>1. CASE PublishNew(w) /\ dir.target = Missing
  <2>1. Change([dir EXCEPT !.target = dir.temp[w], !.temp[w] = Missing])
    BY <1>1 DEF PublishNew
  <2>2. /\ dir'.target = dir.temp[w] /\ dir'.journal = dir.journal
        /\ snapshots' = snapshots \cup {dir'}
    BY <1>0, <2>1, BothUpdate
  <2>3. /\ pc[w] = "publish" /\ pc'[w] \in Pending /\ UNCHANGED want
        /\ visible' = visible \cup {w} /\ observed[w] = Missing
    BY <1>0, <1>1 DEF PublishNew, Go, TypeOK, Pending, Transaction
  <2>4. want[w] \in {Missing, Anything}
    BY <1>0, <2>3 DEF Custody, Validated
  <2> QED
    BY <1>1, <2>2, <2>3, <2>4, WriteStep
<1>2. CASE PublishExchange(w) /\ dir.target # Missing
  <2>1. Change([dir EXCEPT !.target = dir.temp[w], !.temp[w] = dir.target])
    BY <1>2 DEF PublishExchange
  <2>2. /\ dir'.target = dir.temp[w] /\ dir'.journal = dir.journal
        /\ snapshots' = snapshots \cup {dir'}
    BY <1>0, <2>1, BothUpdate
  <2>3. /\ pc[w] = "publish" /\ pc'[w] \in Pending /\ UNCHANGED want
        /\ visible' = visible \cup {w} /\ observed[w] # Missing
    BY <1>0, <1>2 DEF PublishExchange, Go, TypeOK, Pending, Transaction
  <2>4. want[w] \in File \/ want[w] = Anything
    BY <1>0, <2>3 DEF Custody, Validated
  <2> QED
    BY <2>2, <2>3, <2>4, WriteStep
<1>3. CASE \/ PublishNew(w) /\ dir.target # Missing
           \/ PublishExchange(w) /\ dir.target = Missing
  <2>1. /\ pc[w] \in Pending /\ pc'[w] \in Pending
        /\ UNCHANGED <<dir, snapshots, want, visible>>
    BY <1>0, <1>3 DEF PublishNew, PublishExchange, Go, TypeOK, Pending, Transaction
  <2>2. snapshots' = snapshots \cup {dir'}
    BY <1>0, <2>1
  <2> QED
    BY <2>1, <2>2, HiddenStep
<1> QED
  BY <1>1, <1>2, <1>3

\* The caller reads the target and starts an invocation.
LEMMA BeginStep ==
  ASSUME CooperatingInv, NEW w \in Writers, Local(w), Begin(w)
  PROVE  Register!Read(w)
<1>0. TypeOK /\ Own(w) /\ dir.target \in File \cup {Missing}
  BY InvByWriter, TempType DEF CooperatingInv, CustodyInv, TypeOK
<1>1. /\ pc[w] = "idle" /\ pc'[w] = "lock" /\ w \notin visible
      /\ UNCHANGED <<dir, snapshots, outcome, visible>>
  BY <1>0 DEF Begin, Go, TypeOK, Own, Unpublished, BeforeClaim
<1>2. Phases[w] = "idle" /\ Phases' = [Phases EXCEPT ![w] = "open"]
  BY <1>1, PendingPhaseNext, OthersPhases DEF Phases, Phase, Pending
<1>3. Warnings' = Warnings
  BY <1>1, OthersPhases DEF Warnings
<1>4. DataAt(dir)' = DataAt(dir) /\ Survivors' = Survivors /\ Unresolved' = Unresolved
  BY <1>1 DEF DataAt, Survivors, Unresolved
<1>5. PICK e \in {Anything, dir.target} : want' = [want EXCEPT ![w] = e]
  BY DEF Begin
<1>6. Bases' = [Bases EXCEPT ![w] = IF e \in File THEN e.data ELSE e]
  BY <1>0, <1>5 DEF Bases, TypeOK
<1>7. (IF e \in File THEN e.data ELSE e) \in {Anything, DataAt(dir)}
  BY <1>0, PublicationAssumption DEF DataAt
<1> QED
  BY <1>2, <1>3, <1>4, <1>6, <1>7 DEF Register!Read, Register!To

\* A writer that does not get the lock is refused.
LEMMA BusyStep ==
  ASSUME CooperatingInv, NEW w \in Writers, Local(w), Busy(w)
  PROVE  Register!Refuse(w)
<1>0. TypeOK /\ Own(w) /\ Undisputed(w)
  BY InvByWriter DEF CooperatingInv, CustodyInv, TypeOK
<1>1. /\ pc[w] = "lock" /\ pc'[w] = "done" /\ w \notin visible
      /\ outcome[w].state = "not_published" /\ ~outcome[w].durabilityWarning
      /\ UNCHANGED <<dir, snapshots, outcome, visible, want>>
  BY <1>0 DEF Busy, Go, TypeOK, Own, Unpublished, BeforeClaim, Undisputed
<1>2. Phases[w] = "open" /\ Phases' = [Phases EXCEPT ![w] = "refused"]
  BY <1>1, PendingPhase, OthersPhases DEF Phases, Phase, Pending
<1>3. Warnings' = Warnings
  BY <1>1, OthersPhases DEF Warnings
<1>4. UNCHANGED <<DataAt(dir), Survivors, Bases, Unresolved>>
  BY <1>1 DEF DataAt, Survivors, Bases, Unresolved
<1> QED
  BY <1>2, <1>3, <1>4 DEF Register!Refuse, Register!To

\* The return of publish_bytes refuses, acknowledges or leaves the write in doubt.
LEMMA ReleaseStep ==
  ASSUME CooperatingInv, NEW w \in Writers, Local(w), Release(w)
  PROVE  Register!Refuse(w) \/ Register!Acknowledge(w) \/ Register!Doubt(w)
<1>0. TypeOK /\ Own(w) /\ Undisputed(w) /\ outcome[w] \in Outcome /\ dir \in snapshots
  BY InvByWriter DEF CooperatingInv, CustodyInv, TypeOK
<1>1. /\ pc[w] = "release" /\ pc'[w] = "done" /\ pc[w] \in Pending
      /\ UNCHANGED <<dir, snapshots, outcome, visible, want>>
  BY <1>0 DEF Release, Go, TypeOK, Pending, Transaction
<1>2. /\ Phases[w] = IF w \in visible THEN "written" ELSE "open"
      /\ Phases' = [Phases EXCEPT ![w] = IF outcome[w].state = "not_published"
                                           THEN "refused" ELSE outcome[w].state]
  BY <1>1, PendingPhase, OthersPhases DEF Phases, Phase
<1>3. Warnings' = IF outcome[w].durabilityWarning THEN Warnings \cup {w} ELSE Warnings
  BY <1>1, OthersPhases DEF Warnings
<1>4. UNCHANGED <<DataAt(dir), Survivors, Bases, Unresolved>>
  BY <1>1 DEF DataAt, Survivors, Bases, Unresolved
<1>5. CASE outcome[w].state = "not_published"
  <2>1. w \notin visible /\ ~outcome[w].durabilityWarning
    BY <1>0, <1>1, <1>5 DEF Own, Undisputed
  <2> QED
    BY <1>2, <1>3, <1>4, <1>5, <2>1 DEF Register!Refuse, Register!To
<1>6. CASE outcome[w].state = "published"
  <2>1. w \in visible /\ Shows(dir, w)
    BY <1>0, <1>1, <1>6 DEF Undisputed, Transaction
  <2>2. DataAt(dir) = w
    BY <2>1 DEF Shows, DataAt
  <2>3. ~outcome[w].durabilityWarning => \A s \in snapshots : Shows(s, w)
    BY <1>0, <1>1, <1>6 DEF Undisputed, Durable
  <2>4. ~outcome[w].durabilityWarning => Survivors = {w}
    BY <1>0, <2>3 DEF Survivors, Shows, DataAt
  <2> QED
    BY <1>2, <1>3, <1>4, <1>6, <2>1, <2>2, <2>4 DEF Register!Acknowledge, Register!To
<1>7. CASE outcome[w].state = "indeterminate"
  <2>1. w \in visible /\ Unresolved = w
    BY <1>0, <1>1, <1>7 DEF Undisputed, Unresolved
  <2> QED
    BY <1>2, <1>3, <1>4, <1>7, <2>1 DEF Register!Doubt, Register!To
<1> QED
  BY <1>0, <1>5, <1>6, <1>7 DEF Outcome

\* Removing the intent resolves the write.
LEMMA UnlinkIntentResolves ==
  ASSUME CooperatingInv, NEW w \in Writers, Local(w), UnlinkIntent(w)
  PROVE  Register!Resolve(w)
<1>0. TypeOK /\ Own(w) /\ Undisputed(w) /\ dir \in snapshots /\ Inv
  BY InvByWriter DEF CooperatingInv, CustodyInv, TypeOK
<1>1. /\ pc[w] = "unlinkIntent" /\ pc'[w] = "syncFinal"
      /\ pc[w] \in Pending /\ pc'[w] \in Pending
      /\ UNCHANGED <<outcome, visible, want>>
  BY <1>0 DEF UnlinkIntent, Go, TypeOK, Pending, Transaction
<1>2. w \in visible /\ dir.journal = w
  BY <1>0, <1>1 DEF Own, Undisputed, Finishing, Claimed
<1>3. /\ snapshots' = snapshots \cup {dir'} /\ dir'.journal = Nobody
      /\ dir'.target = dir.target
  BY <1>0, JournalUpdate DEF UnlinkIntent
<1>4. DataAt(dir)' = DataAt(dir) /\ Survivors' = Survivors
  BY <1>0, <1>3, ValueOfTarget DEF Survivors
<1>5. Phases[w] = "written" /\ Phases' = Phases
  <2>1. Phases[w] = "written" /\ Phase(w)' = "written"
    BY <1>1, <1>2, PendingPhase, PendingPhaseNext DEF Phases
  <2> QED
    BY <2>1, OthersPhases DEF Phases
<1>6. Warnings' = Warnings
  BY <1>1, PendingPhase, PendingPhaseNext, OthersPhases DEF Warnings
<1>7. Unresolved = w /\ Unresolved' = Nobody /\ Bases' = Bases
  BY <1>0, <1>1, <1>2, <1>3, PublicationAssumption DEF Unresolved, Bases, TypeOK
<1> QED
  BY <1>4, <1>5, <1>6, <1>7 DEF Register!Resolve

\* A killed writer is dead for its caller.
LEMMA CrashStep ==
  ASSUME CooperatingInv, NEW w \in Writers, Local(w), Crash(w)
  PROVE  Register!Die(w)
<1>0. TypeOK
  BY DEF CooperatingInv, CustodyInv, Inv
<1>1. /\ pc[w] \in Pending /\ pc'[w] = "dead"
      /\ UNCHANGED <<dir, snapshots, outcome, visible, want>>
  BY <1>0 DEF Crash, TypeOK, Pending
<1>2. /\ Phases[w] \in {"open", "written"} /\ Phases' = [Phases EXCEPT ![w] = "dead"]
  BY <1>1, PendingPhase, OthersPhases DEF Phases, Phase
<1>3. Warnings' = Warnings
  BY <1>1, PendingPhase, OthersPhases DEF Warnings
<1>4. UNCHANGED <<DataAt(dir), Survivors, Bases, Unresolved>>
  BY <1>1 DEF DataAt, Survivors, Bases, Unresolved
<1> QED
  BY <1>2, <1>3, <1>4 DEF Register!Die, Register!To

\* A power loss leaves one of the survivors.
LEMMA PowerLossStep ==
  ASSUME CooperatingInv, PowerLoss
  PROVE  Register!PowerLoss
<1> PICK s \in snapshots :
      dir' = [s EXCEPT !.target = Settled(@),
                       !.temp = [w \in Writers |-> Settled(s.temp[w])]]
  BY DEF PowerLoss
<1>0. TypeOK /\ Stored /\ s \in Directory
  BY DEF CooperatingInv, CustodyInv, Inv, TypeOK
<1>1. /\ dir'.target = s.target /\ snapshots' = {dir'}
      /\ UNCHANGED <<want, outcome, visible>>
  BY <1>0 DEF PowerLoss, Directory, Settled, Stored
<1>2. /\ DataAt(dir)' = DataAt(s) /\ DataAt(dir') = DataAt(s)
      /\ DataAt(s) \in Survivors /\ Survivors' = {DataAt(s)}
  <2>1. DataAt(dir)' = DataAt(s) /\ DataAt(dir') = DataAt(s)
    BY <1>1, ValueOfTarget
  <2>2. DataAt(s) \in Survivors /\ Survivors' = {DataAt(dir')}
    BY <1>1 DEF Survivors
  <2> QED
    BY <2>1, <2>2
<1>3. \A w \in Writers : pc'[w] = IF pc[w] \in Pending THEN "dead" ELSE pc[w]
  BY DEF PowerLoss, Pending
<1>4. ASSUME NEW w \in Writers
      PROVE  Phase(w)' = IF Phases[w] \in {"open", "written"} THEN "dead" ELSE Phases[w]
  <2>1. CASE pc[w] \in Pending
    BY <1>3, <2>1, PendingPhase DEF Phases, Phase
  <2>2. CASE pc[w] \in {"idle", "dead", "done"}
    BY <1>0, <1>1, <1>3, <2>2 DEF Phases, Phase, Pending, Transaction, TypeOK, Outcome
  <2> QED
    BY <1>0, <2>1, <2>2 DEF TypeOK, Places, Pending
<1>5. Phases' = [w \in Writers |-> IF Phases[w] \in {"open", "written"} THEN "dead" ELSE Phases[w]]
  BY <1>4 DEF Phases
<1>6. Warnings' = Warnings
  BY <1>1, <1>3 DEF Warnings, Pending, Transaction
<1>7. Bases' = Bases /\ Unresolved' \in Writers \cup {Nobody}
  BY <1>0, <1>1 DEF Bases, Unresolved, TypeOK
<1> QED
  BY <1>2, <1>5, <1>6, <1>7 DEF Register!PowerLoss

\* Every step of a writer is a step of the register or leaves it alone.
LEMMA WriterStepsRefine ==
  ASSUME CooperatingInv, NEW w \in Writers, WriterStep(w)
  PROVE  [Register!Next]_Register!vars
<1>0. /\ Inv /\ TypeOK /\ Own(w) /\ dir \in snapshots /\ Good(w) /\ Local(w)
      /\ dir.temp[w] \in File \cup {Missing}
  BY InvByWriter, TempType, WriterStepIsGood DEF CooperatingInv, CustodyInv, Good, TypeOK
<1>1. CASE \/ Acquire(w) \/ CheckJournal(w) \/ Validate(w) \/ WriteIntent(w)
           \/ FailUnclaimed(w) \/ FailClaimed(w) \/ FailRevalidate(w) \/ FailSync(w)
           \/ FailCleanup(w) \/ FailDiscard(w) \/ Revalidate(w)
  <2>1. /\ pc[w] \in Pending /\ pc'[w] \in Pending
        /\ UNCHANGED <<dir, snapshots, want, visible>>
    BY <1>0, <1>1 DEF Acquire, CheckJournal, Validate, WriteIntent, FailUnclaimed, FailClaimed,
       FailRevalidate, FailSync, FailCleanup, FailDiscard, Revalidate, Go, TypeOK, Pending, Transaction
  <2>2. snapshots' = snapshots \cup {dir'}
    BY <1>0, <2>1
  <2> QED
    BY <1>0, <2>1, <2>2, HiddenStep
<1>2. CASE SyncIntent(w) \/ SyncPublished(w) \/ SyncUnlinked(w) \/ SyncFinal(w) \/ SyncUnsure(w)
  <2>1. /\ pc[w] \in Pending /\ pc'[w] \in Pending
        /\ UNCHANGED <<dir, want, visible>> /\ snapshots' = {dir'}
    BY <1>0, <1>2 DEF SyncIntent, SyncPublished, SyncUnlinked, SyncFinal, SyncUnsure, Persist,
       Go, TypeOK, Pending, Transaction
  <2> QED
    BY <1>0, <2>1, HiddenStep
<1>3. CASE Claim(w) \/ Unclaim(w)
  <2>1. /\ pc[w] \in Pending /\ pc'[w] \in Pending /\ UNCHANGED <<want, visible>>
        /\ w \notin visible
    BY <1>0, <1>3 DEF Claim, Unclaim, Go, TypeOK, Pending, Transaction, Own, Unpublished, BeforeClaim
  <2>2. dir'.target = dir.target /\ snapshots' = snapshots \cup {dir'}
    BY <1>0, <1>3, JournalUpdate DEF Claim, Unclaim
  <2> QED
    BY <1>0, <2>1, <2>2, HiddenStep
<1>4. CASE CreateTemporary(w) \/ FillTemporary(w) \/ UnlinkDisplaced(w) \/ Discard(w)
  <2>1. /\ pc[w] \in Pending /\ pc'[w] \in Pending /\ UNCHANGED <<want, visible>>
    BY <1>0, <1>4 DEF CreateTemporary, FillTemporary, UnlinkDisplaced, Discard, Go, TypeOK,
       Pending, Transaction
  <2>2. \/ UNCHANGED <<dir, snapshots>>
        \/ \E f \in File \cup {Missing} : Change([dir EXCEPT !.temp[w] = f])
    <3>1. \A i \in FreeInos : [ino |-> i, data |-> Torn, synced |-> FALSE] \in File
      BY DEF FreeInos, File, Data
    <3>2. dir.temp[w] # Missing => [dir.temp[w] EXCEPT !.data = w, !.synced = TRUE] \in File
      BY <1>0 DEF File, Data
    <3>3. FillTemporary(w) => dir.temp[w] # Missing
      BY <1>0 DEF FillTemporary, Go, Own
    <3> QED
      BY <1>4, <3>1, <3>2, <3>3 DEF CreateTemporary, FillTemporary, UnlinkDisplaced, Discard
  <2>3. /\ dir'.target = dir.target /\ dir'.journal = dir.journal
        /\ snapshots' = snapshots \cup {dir'}
    BY <1>0, <2>2, TempUpdate
  <2> QED
    BY <1>0, <2>1, <2>3, HiddenStep
<1>5. CASE \/ Begin(w) \/ Busy(w) \/ PublishNew(w) \/ PublishExchange(w) \/ UnlinkIntent(w)
           \/ Release(w) \/ Crash(w)
  <2>1. \/ [Register!Next]_Register!vars
        \/ Register!Read(w) \/ Register!Write(w) \/ Register!Resolve(w) \/ Register!Acknowledge(w)
        \/ Register!Doubt(w) \/ Register!Refuse(w) \/ Register!Die(w)
    BY <1>0, <1>5, BeginStep, BusyStep, PublishSteps, UnlinkIntentResolves, ReleaseStep, CrashStep
  <2> QED
    BY <2>1 DEF Register!Next
<1> QED
  BY <1>1, <1>2, <1>3, <1>4, <1>5 DEF WriterStep

\* The register starts with what is at the target.
LEMMA RegisterInit == Init => Register!Init
<1> SUFFICES ASSUME Init PROVE Register!Init
  OBVIOUS
<1> PICK f \in {Missing} \cup [ino : Inos, data : {Original}, synced : {TRUE}] :
      dir = [target |-> f, temp |-> [w \in Writers |-> Missing], journal |-> Nobody]
  BY DEF Init
<1>1. dir.target = f /\ (f # Missing => f.data = Original) /\ dir.journal = Nobody
  OBVIOUS
<1>2. DataAt(dir) \in {Original, Missing} /\ Survivors = {DataAt(dir)}
  BY <1>1 DEF Init, DataAt, Survivors
<1>3. Phases = [w \in Writers |-> "idle"] /\ Warnings = {}
  BY DEF Init, Phases, Phase, Warnings
<1>4. Bases = [w \in Writers |-> Anything] /\ Unresolved = Nobody
  BY <1>1, PublicationAssumption DEF Init, Bases, Unresolved
<1> QED
  BY <1>2, <1>3, <1>4 DEF Register!Init

\* Where every program that writes the target cooperates, publish_bytes is the
\* conditional write of ConditionalFile: it takes effect at one instant, on the
\* state its caller relied on, and what it acknowledges without a warning stays.
THEOREM PublicationIsConditionalWrite ==
  ASSUME Foreign = {}
  PROVE  Spec => ImplementsConditionalFile
<1>1. CooperatingInv /\ [Next]_vars => [Register!Next]_Register!vars
  <2> SUFFICES ASSUME CooperatingInv, [Next]_vars PROVE [Register!Next]_Register!vars
    OBVIOUS
  <2>1. ~ForeignWrite
    BY DEF ForeignWrite
  <2>2. PowerLoss => Register!Next
    BY PowerLossStep DEF Register!Next
  <2>3. UNCHANGED vars => UNCHANGED Register!vars
    BY DEF vars, Register!vars, DataAt, Survivors, Phases, Phase, Warnings, Bases, Unresolved
  <2> QED
    BY <2>1, <2>2, <2>3, NextCases, WriterStepsRefine
<1>2. Spec => Register!Init /\ [][Register!Next]_Register!vars
  BY <1>1, RegisterInit, CooperatingHolds, PTL DEF Spec
<1> QED
  BY <1>2 DEF ImplementsConditionalFile, Register!Spec
============================================================================

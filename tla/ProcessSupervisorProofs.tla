---------------------- MODULE ProcessSupervisorProofs ----------------------
(***************************************************************************)
(* For any number of processes and of last rounds: what the supervisor may *)
(* say of processes it knows only from readings of /proc, and what the     *)
(* runner may conclude from it.                                            *)
(*                                                                         *)
(* The argument is an account.  A scan lists what was born before it; of   *)
(* what it listed, everything that lives is read and found, because a      *)
(* living process is found by a living parent that is older, and was read  *)
(* before, unless a reading fails.  So whoever is overlooked was forked    *)
(* during the scan or cost a failure, and of the scans that come before    *)
(* the verdict each costs one, as long as somebody is alive who has no     *)
(* SIGKILL.                                                                *)
(***************************************************************************)
EXTENDS ProcessSupervisor, TLAPS, WellFoundedInduction

Lives == {"unborn", "alive", "dying", "zombie", "gone"}

\* Births are in order, and a living process has a living parent that is older,
\* or is the supervisor's own.
Tree ==
  /\ \A p, q \in Procs : life[p] # "unborn" /\ q < p => life[q] # "unborn"
  /\ \A p \in Living : parent[p] # Above => parent[p] < p /\ parent[p] \in Living
  /\ \A p \in Procs : life[p] = "unborn" => forks < p
  /\ sup \in {"none", "setup", "launch"} =>
       \A p \in Procs : life[p] = "unborn" /\ parent[p] = Above

Free == \E p \in Procs : life[p] = "alive"

Cost == forks + failures

\* The scans before this one, from the last one for the kills on: each of them
\* overlooked or spared somebody.
Missed == CASE phase \in {"kill", "kills"} -> 0
            [] phase = "final" -> 1
            [] phase = "verdict" -> 2
            [] OTHER -> 0

\* A reading has failed, and in this scan when somebody is free.
Excused == failures > 0 /\ (Free => Cost >= Missed + 1)

\* seen is what the scan under way has listed: what is born later costs a fork,
\* and nothing else is overlooked without a failure.
Listed(seen) ==
  /\ seen \subseteq Procs /\ todo \subseteq seen
  /\ \A p \in seen : life[p] # "unborn" /\ \A q \in Procs : q < p => q \in seen
  /\ (\A p \in Living \cap seen : p \in todo \cup found) \/ Excused
  /\ Living \subseteq seen \/ Cost >= Missed + 1

Scanning == sup \in {"read", "decide"} => \E seen \in SUBSET Procs : Listed(seen)

\* Who may be left behind, when a cleanup is proved.
Settled ==
  /\ failures = 0 /\ Living # {} => forks >= 3
  /\ Free => Cost >= 3

\* Whoever is not under a pending SIGKILL has been paid for in an earlier scan.
Counted ==
  /\ sup = "wait" => (Free => Cost >= 1)
  /\ sup \in {"list", "read", "decide"} => (Free => Cost >= Missed)
  /\ sup \in {"prove", "proved"} => Settled

\* When the command has ended, a scan finds one of its orphans, at least as a
\* zombie that nobody reaped.
Leaving ==
  sup \in {"read", "decide"} /\ phase = "leave" /\ Living # {} /\ failures = 0 =>
    \E p \in todo \cup found :
      p \in found \/ (parent[p] = Above /\ life[p] \in {"alive", "dying", "zombie"})

Course ==
  /\ sup = "ended" <=> exit # "running"
  /\ sup \in {"list", "read", "decide"} => phase # "none"
  /\ phase = "leave" => root_returncode # "none"
  /\ phase = "final" => rounds < MaxRounds
  /\ sup = "decide" => todo = {}
  /\ sup \in {"prove", "proved"} => root_returncode = "none"
  /\ proof => sup \in {"proved", "ended"}
  /\ NobodyIsLeftBehind

Account == TypeOK /\ Tree /\ Scanning /\ Counted /\ Leaving /\ Course

\* What the runner knows of the supervisor.
Calls ==
  /\ run = "over" => sup \in {"none", "ended"}
  /\ run = "start" <=> sup = "none" /\ run # "over"
  /\ run \in {"stop", "wait"} /\ back = "poll" => stopped
  /\ token = "matched" => proof
  /\ confirmed => stopped /\ proof /\ exit = "124"

-----------------------------------------------------------------------------
(* What the proofs use of processes, whoever acts.                         *)

Older == {pair \in Nat \X Nat : pair[1] < pair[2]}

\* Among any processes one is the oldest.
LEMMA Oldest ==
  ASSUME NEW S \in SUBSET Procs, S # {}
  PROVE  \E p \in S : \A q \in S : p <= q
<1>1. S \subseteq Nat
  BY BoundsAssumption DEF Procs
<1>2. Older = OpToRel(<, Nat)
  BY Zenon DEF Older, OpToRel
<1>3. IsWellFoundedOn(Older, Nat)
  BY <1>2, NatLessThanWellFounded, Zenon
<1>4. PICK p \in S : \A q \in S : ~ (<<q, p>> \in Older)
  BY <1>1, <1>3, WFMin, Zenon
<1>5. \A q \in S : ~ (q < p)
  BY <1>1, <1>4 DEF Older
<1> QED
  BY <1>1, <1>5

\* Zombies are reaped and SIGKILLs sent: nobody is born, freed or ended.
Settles ==
  /\ life' \in [Procs -> Lives]
  /\ \A p \in Procs : \/ life'[p] = life[p]
                      \/ life[p] = "zombie" /\ life'[p] = "gone"
                      \/ life[p] \in {"alive", "dying"} /\ life'[p] = "dying"
  /\ UNCHANGED <<parent, forks>>
  /\ sup \notin {"none", "setup", "launch"}

LEMMA SettlingKeepsTheTree ==
  ASSUME Account, Settles, sup' \notin {"none", "setup", "launch"}
  PROVE  /\ Tree' /\ Living' = Living /\ (Free' => Free)
         /\ \A p \in Procs : life'[p] = "unborn" <=> life[p] = "unborn"
         /\ \A p \in Procs : life'[p] = "alive" => life[p] = "alive"
<1>1. /\ Living' = Living /\ (Free' => Free)
      /\ \A p \in Procs : life'[p] = "unborn" <=> life[p] = "unborn"
      /\ \A p \in Procs : life'[p] = "alive" => life[p] = "alive"
  BY DEF Settles, Living, Free
<1>2. Tree'
  BY <1>1 DEF Account, Tree, Settles
<1> QED
  BY <1>1, <1>2

\* After a scan, who lives was found, or cost a fork or a failure.
LEMMA OverlookedWasPaidFor ==
  ASSUME Account, At("decide"), NEW p \in Living, p \notin found
  PROVE  (failures = 0 \/ Free) => Cost >= Missed + 1
<1>1. PICK seen \in SUBSET Procs : Listed(seen)
  BY DEF Account, Scanning, At
<1>2. todo = {}
  BY DEF Account, Course, At
<1>3. CASE p \in seen
  BY <1>1, <1>2, <1>3 DEF Listed, Excused
<1>4. CASE p \notin seen
  BY <1>1, <1>4 DEF Listed
<1> QED
  BY <1>3, <1>4

\* What a step of the supervisor may do to the account: some reading fails.
Tries == forks' = forks /\ failures' \in {failures, failures + 1}

LEMMA CostOfTries ==
  ASSUME Account, Tries
  PROVE  /\ Cost \in Nat /\ Cost' \in {Cost, Cost + 1} /\ failures' \in Nat
         /\ failures' # failures => Cost' = Cost + 1 /\ failures' > 0
<1>1. forks \in Nat /\ failures \in Nat
  BY BoundsAssumption DEF Account, TypeOK
<1>2. CASE failures' = failures
  BY <1>1, <1>2 DEF Tries, Cost
<1>3. CASE failures' = failures + 1
  BY <1>1, <1>3 DEF Tries, Cost
<1> QED
  BY <1>2, <1>3 DEF Tries

\* A scan may begin when everything that is free has been paid for.
LEMMA ScanBegins ==
  ASSUME Account, NEW for \in {"leave", "term", "terms", "kill", "kills", "final",
                               "verdict"},
         Scan(for), Tree', Free' => Cost' >= Missed', ~ proof',
         exit = "running", exit' = "running",
         for = "leave" => root_returncode' # "none",
         for = "final" => rounds' < MaxRounds
  PROVE  Tree' /\ Scanning' /\ Counted' /\ Leaving' /\ Course'
  BY DEF Scan, Scanning, Counted, Leaving, Course, NobodyIsLeftBehind

\* The supervisor ends.
LEMMA EndKeepsAccount ==
  ASSUME Account, NEW status \in {"124", "125", "126", "other", "error", "signal"},
         Ends(status), Tries, UNCHANGED <<namespace, root_returncode>>,
         status \in {"124", "other"} =>
           (failures' = 0 /\ Living # {} => forks >= 3) /\ (proof' /\ Free => Cost' >= 3),
         (/\ stop_signal \in BOOLEAN
          /\ run \in {"start", "challenge", "poll", "stop", "wait", "drain",
                      "finally", "over"}
          /\ back \in {"poll", "drain", "finally"}
          /\ challenge \in BOOLEAN /\ proof \in BOOLEAN
          /\ token \in {"unread", "matched", "refused"}
          /\ stopped \in BOOLEAN /\ confirmed \in BOOLEAN)'
  PROVE  Account'
<1>1. /\ life' \in [Procs -> Lives] /\ \A p \in Procs : life'[p] # "unborn"
      /\ Living' \subseteq Living /\ (namespace => Living' = {}) /\ (Free' => Free)
  <2>1. \A p \in Procs : life'[p] \in {life[p], "gone"}
    BY DEF Ends
  <2>2. life' \in [Procs -> Lives] /\ \A p \in Procs : life'[p] # "unborn"
    BY DEF Ends, Account, TypeOK, Lives, Living
  <2>3. namespace => Living' = {}
    BY DEF Ends, Living
  <2> QED
    BY <2>1, <2>2, <2>3 DEF Living, Free
<1>2. parent' = [p \in Procs |-> Above]
  BY DEF Ends
<1>3. TypeOK'
  BY <1>1, <1>2, BoundsAssumption DEF Ends, Tries, Account, TypeOK, Lives
<1>4. Tree'
  BY <1>1, <1>2 DEF Ends, Account, Tree, Living
<1>5. Scanning' /\ Counted' /\ Leaving'
  BY DEF Ends, Scanning, Counted, Leaving
<1>6. Course'
  BY <1>1 DEF Ends, Tries, Cost, Course, NobodyIsLeftBehind, Free
<1> QED
  BY <1>3, <1>4, <1>5, <1>6 DEF Account

-----------------------------------------------------------------------------
(* The account is kept by the command's processes                          *)

LEMMA ForkKeepsAccount ==
  ASSUME Account, NEW p \in Procs, Fork(p)
  PROVE  Account'
<1>1. PICK c \in Procs :
        /\ life[c] = "unborn" /\ \A q \in 1 .. c - 1 : life[q] # "unborn"
        /\ life' = [life EXCEPT ![c] = "alive"]
        /\ parent' = [parent EXCEPT ![c] = p]
  BY DEF Fork
<1>2. /\ UNCHANGED <<namespace, failures, sup, exit, stop_signal, root_returncode, phase,
                     todo, found, known, rounds, proof, run, back, challenge, token,
                     stopped, confirmed>>
      /\ exit = "running" /\ life[p] = "alive"
      /\ forks' = IF Cleaning THEN forks + 1 ELSE forks
  BY DEF Fork, supVars, scanVars, runVars
<1>3. /\ p < c /\ Living' = Living \cup {c} /\ p \in Living /\ forks < c
      /\ \A q \in Procs : q < c => life[q] # "unborn"
  BY <1>1, <1>2 DEF Account, TypeOK, Tree, Living, Procs
<1>4. TypeOK'
  <2>1. forks' \in 0 .. MaxBirths
    BY <1>2, <1>3, BoundsAssumption DEF Account, TypeOK, Procs
  <2> QED
    BY <1>1, <1>2, <2>1 DEF Account, TypeOK
<1>5. Tree'
  <2>1. \A q, r \in Procs : life'[q] # "unborn" /\ r < q => life'[r] # "unborn"
    BY <1>1, <1>3 DEF Account, TypeOK, Tree, Procs
  <2>2. \A q \in Living' : parent'[q] # Above => parent'[q] < q /\ parent'[q] \in Living'
    BY <1>1, <1>3 DEF Account, TypeOK, Tree, Living
  <2>3. \A q \in Procs : life'[q] = "unborn" => forks' < q
    <3> SUFFICES ASSUME NEW q \in Procs, life'[q] = "unborn" PROVE forks' < q
      OBVIOUS
    <3>1. c < q /\ life[q] = "unborn"
      BY <1>1, <1>3 DEF Account, TypeOK, Procs
    <3> QED
      BY <1>2, <1>3, <3>1 DEF Account, TypeOK, Procs
  <2>4. sup' \notin {"none", "setup", "launch"}
    BY <1>2 DEF Account, Tree
  <2> QED
    BY <2>1, <2>2, <2>3, <2>4 DEF Tree
<1>6. Scanning'
  <2> SUFFICES ASSUME sup \in {"read", "decide"}
               PROVE  \E seen \in SUBSET Procs : Listed(seen)'
    BY <1>2 DEF Scanning
  <2>1. PICK seen \in SUBSET Procs : Listed(seen)
    BY DEF Account, Scanning
  <2>2. /\ forks' = forks + 1 /\ Cost' = Cost + 1 /\ Cost \in Nat
        /\ Cost >= Missed /\ Missed' = Missed
    BY <1>2, <1>3 DEF Cleaning, Cost, Missed, Account, TypeOK, Counted, Free
  <2>3. Missed \in 0 .. 2
    BY DEF Missed
  <2>4. c \notin seen /\ Living' \cap seen = Living \cap seen
    BY <1>1, <1>3, <2>1 DEF Listed
  <2>5. (\A q \in Living' \cap seen : q \in todo' \cup found') \/ Excused'
    BY <1>2, <2>1, <2>2, <2>3, <2>4 DEF Listed, Excused
  <2> QED
    BY <1>1, <1>2, <2>1, <2>2, <2>3, <2>4, <2>5 DEF Listed, Account, TypeOK
<1>7. Counted'
  <2>1. sup = "wait" => Cost' >= 1
    BY <1>2 DEF Cleaning, Cost, Account, TypeOK
  <2>2. sup \in {"list", "read", "decide"} => Cost' >= Missed'
    BY <1>2 DEF Counted, Cleaning, Cost, Missed, Account, TypeOK, Free
  <2>3. sup \in {"prove", "proved"} => Cost' >= 3 /\ (failures' = 0 => forks' >= 3)
    BY <1>2, <1>3 DEF Counted, Settled, Free, Cleaning, Cost, Account, TypeOK
  <2> QED
    BY <1>2, <2>1, <2>2, <2>3 DEF Counted, Settled
<1>8. Leaving'
  BY <1>1, <1>2, <1>3 DEF Account, Leaving, TypeOK
<1>9. Course'
  BY <1>2 DEF Account, Course, NobodyIsLeftBehind
<1> QED
  BY <1>4, <1>5, <1>6, <1>7, <1>8, <1>9 DEF Account

LEMMA EndOfProcessKeepsAccount ==
  ASSUME Account, NEW p \in Procs, End(p)
  PROVE  Account'
<1>1. /\ UNCHANGED <<namespace, forks, failures, sup, exit, stop_signal,
                     root_returncode, phase, todo, found, known, rounds, proof, run, back, challenge, token,
                     stopped, confirmed>>
      /\ exit = "running" /\ p \in Living
      /\ life' = [life EXCEPT ![p] = IF parent[p] = Above THEN "zombie" ELSE "gone"]
      /\ parent' = [q \in Procs |-> IF q = p \/ parent[q] = p THEN Above ELSE parent[q]]
  BY DEF End, histVars, supVars, scanVars, runVars
<1>2. /\ Living' = Living \ {p} /\ (Free' => Free)
      /\ \A q \in Procs : life'[q] = "alive" => life[q] = "alive"
      /\ \A q \in Procs : life'[q] = "unborn" <=> life[q] = "unborn"
  BY <1>1 DEF Account, TypeOK, Living, Free
<1>3. TypeOK'
  BY <1>1 DEF Account, TypeOK
<1>4. Tree'
  BY <1>1, <1>2 DEF Account, Tree, Living
<1>5. Scanning'
  <2> SUFFICES ASSUME sup \in {"read", "decide"}
               PROVE  \E seen \in SUBSET Procs : Listed(seen)'
    BY <1>1 DEF Scanning
  <2>1. PICK seen \in SUBSET Procs : Listed(seen)
    BY DEF Account, Scanning
  <2>2. Missed' = Missed /\ Cost' = Cost
    BY <1>1 DEF Missed, Cost
  <2>3. Excused => Excused'
    BY <1>1, <1>2, <2>2 DEF Excused
  <2> QED
    BY <1>1, <1>2, <2>1, <2>2, <2>3 DEF Listed
<1>6. Counted'
  BY <1>1, <1>2 DEF Account, Counted, Settled, Cost, Missed
<1>7. Leaving'
  BY <1>1, <1>2 DEF Account, Leaving, TypeOK
<1>8. Course'
  BY <1>1 DEF Account, Course, NobodyIsLeftBehind
<1> QED
  BY <1>3, <1>4, <1>5, <1>6, <1>7, <1>8 DEF Account

-----------------------------------------------------------------------------
(* and by every step of the supervisor.                                    *)

LEMMA SetUpKeepsAccount == Account /\ (SetUp \/ SetUpFails \/ Launch) => Account'
<1>1. ASSUME Account, SetUp PROVE Account'
  BY <1>1 DEF SetUp, At, Account, TypeOK, Tree, Living, Scanning, Counted, Leaving, Course,
     NobodyIsLeftBehind, treeVars, histVars, scanVars, runVars
<1>2. ASSUME Account, SetUpFails PROVE Account'
  BY <1>2, EndKeepsAccount DEF SetUpFails, Tries, Account, TypeOK, histVars, runVars
<1>3. ASSUME Account, Launch PROVE Account'
  <2>1. /\ sup = "launch" /\ exit = "running" /\ sup' = "loop"
        /\ life' = [life EXCEPT ![Root] = "alive"]
        /\ UNCHANGED <<namespace, parent, forks, failures, exit, stop_signal,
                       root_returncode, phase, todo, found, known, rounds, proof, run, back, challenge,
                       token, stopped, confirmed>>
    BY <1>3 DEF Launch, At, histVars, scanVars, runVars
  <2>2. Root \in Procs /\ \A p \in Procs : Root <= p
    BY BoundsAssumption DEF Root, Procs
  <2>3. TypeOK'
    BY <1>3, <2>1, <2>2 DEF Account, TypeOK
  <2>4. Tree'
    BY <1>3, <2>1, <2>2 DEF Account, TypeOK, Tree, Living, Procs
  <2>5. Scanning' /\ Counted' /\ Leaving' /\ Course'
    BY <1>3, <2>1 DEF Account, Scanning, Counted, Leaving, Course, NobodyIsLeftBehind
  <2> QED
    BY <2>3, <2>4, <2>5 DEF Account
<1> QED
  BY <1>1, <1>2, <1>3

LEMMA CheckStopKeepsAccount == Account /\ CheckStop => Account'
<1> SUFFICES ASSUME Account, CheckStop PROVE Account'
  OBVIOUS
<1>1. TypeOK'
  BY DEF CheckStop, Scan, Account, TypeOK, treeVars, histVars, runVars
<1>2. Tree'
  BY DEF CheckStop, Scan, At, Account, Tree, Living, treeVars, histVars
<1>3. CASE stop_signal
  <2>1. Scan("term") /\ Cost' >= Missed' /\ ~ proof'
    BY <1>3, <1>1 DEF CheckStop, At, Scan, Missed, Cost, TypeOK, Account, Course
  <2> QED
    BY <1>1, <1>2, <2>1, ScanBegins DEF CheckStop, At, Account
<1>4. CASE ~ stop_signal
  <2>1. Scanning' /\ Counted' /\ Leaving' /\ Course'
    BY <1>4 DEF CheckStop, At, Account, Scanning, Counted, Leaving, Course,
       NobodyIsLeftBehind, treeVars, histVars
  <2> QED
    BY <1>1, <1>2, <2>1 DEF Account
<1> QED
  BY <1>3, <1>4

LEMMA ReapingSettles ==
  ASSUME Account, NEW polled, NEW well, Reap(polled, well), UNCHANGED <<parent, forks>>,
         sup \notin {"none", "setup", "launch"}
  PROVE  Settles
  BY DEF Reap, Account, TypeOK, Settles, Lives

LEMMA PollKeepsAccount == Account /\ Poll => Account'
<1> SUFFICES ASSUME Account, Poll PROVE Account'
  OBVIOUS
<1>1. /\ sup = "poll" /\ exit = "running" /\ Tries
      /\ UNCHANGED <<namespace, parent, exit, stop_signal, known, rounds, proof, run, back,
                     challenge, token, stopped, confirmed>>
  BY DEF Poll, At, Tries, Reads, histVars, runVars
<1>2. Settles
  <2>1. CASE life[Root] = "zombie"
    BY <1>1, <2>1 DEF Poll, Tries, Account, TypeOK, Settles, Lives
  <2>2. CASE life[Root] # "zombie"
    BY <1>1, <2>2, ReapingSettles DEF Poll, Tries
  <2> QED
    BY <2>1, <2>2
<1>3. Tree'
  <2>1. sup' \notin {"none", "setup", "launch"}
    BY DEF Poll, Scan
  <2> QED
    BY <1>2, <2>1, SettlingKeepsTheTree
<1>4. TypeOK'
  <2>1. /\ sup' \in {"list", "loop"} /\ root_returncode' \in {"none", "124", "other"}
        /\ phase' \in {phase, "leave"} /\ todo' \subseteq Procs /\ found' \subseteq Procs
    BY DEF Poll, Scan, Account, TypeOK
  <2> QED
    BY <1>1, <1>2, <2>1, CostOfTries DEF Settles, Lives, Tries, Account, TypeOK
<1>5. CASE life[Root] = "zombie"
  <2>1. Scan("leave") /\ root_returncode' # "none"
    BY <1>5 DEF Poll
  <2>2. Cost' >= Missed' /\ ~ proof'
    BY <1>1, <1>4, <2>1 DEF Scan, Missed, Cost, TypeOK, Account, Course
  <2> QED
    BY <1>1, <1>3, <1>4, <2>1, <2>2, ScanBegins DEF Account
<1>6. CASE life[Root] # "zombie"
  <2>1. Scanning' /\ Counted' /\ Leaving' /\ Course'
    BY <1>1, <1>6 DEF Poll, Account, Scanning, Counted, Leaving, Course,
       NobodyIsLeftBehind
  <2> QED
    BY <1>3, <1>4, <2>1 DEF Account
<1> QED
  BY <1>5, <1>6

\* What exists is listed; of who lives, the oldest is the supervisor's own.
LEMMA ListKeepsAccount == Account /\ List => Account'
<1> SUFFICES ASSUME Account, List PROVE Account'
  OBVIOUS
<1>1. PICK well \in BOOLEAN, listed \in BOOLEAN :
        /\ Reads(well) /\ (well => listed)
        /\ IF phase \in {"terms", "kills", "final"}
             THEN Reap(phase # "final", well) ELSE UNCHANGED life
        /\ todo' = IF listed THEN {p \in Procs : life'[p] \notin {"unborn", "gone"}}
                   ELSE {}
  BY DEF List
<1>2. /\ sup = "list" /\ sup' = "read" /\ exit = "running"
      /\ Tries /\ (failures' = failures => listed)
      /\ UNCHANGED <<namespace, parent, exit, stop_signal, root_returncode, phase, found,
                     known, rounds, proof, run, back, challenge, token, stopped, confirmed>>
  BY <1>1 DEF List, At, Reads, Tries, runVars, Account, TypeOK
<1>3. Settles
  <2>1. CASE UNCHANGED life
    BY <1>2, <2>1 DEF Tries, Settles, Lives, Account, TypeOK
  <2>2. CASE Reap(phase # "final", well)
    BY <1>2, <2>2, ReapingSettles DEF Tries
  <2> QED
    BY <1>1, <2>1, <2>2
<1>4. /\ Tree' /\ Living' = Living /\ (Free' => Free)
      /\ \A p \in Procs : life'[p] = "unborn" <=> life[p] = "unborn"
  BY <1>2, <1>3, SettlingKeepsTheTree
<1>5. TypeOK'
  BY <1>1, <1>2, <1>3 DEF Settles, Lives, Tries, Account, TypeOK
<1>6. Missed' = Missed /\ (Free => Cost >= Missed) /\ Cost \in Nat /\ Missed \in 0 .. 2
  BY <1>2 DEF Missed, Cost, Account, TypeOK, Counted
<1>7. Listed({p \in Procs : life[p] # "unborn"})'
  <2>1. \/ \A p \in Living' : p \in todo'
        \/ failures' > 0 /\ (Free' => Cost' >= Missed' + 1)
    <3>1. CASE listed
      BY <1>1, <3>1 DEF Living
    <3>2. CASE ~ listed
      BY <1>2, <1>4, <1>6, <3>2, CostOfTries
    <3> QED
      BY <3>1, <3>2
  <2> QED
    BY <1>1, <1>2, <1>4, <2>1 DEF Listed, Excused, Tree, Living
<1>8. Scanning' /\ Course'
  BY <1>2, <1>7 DEF Account, Scanning, Course, NobodyIsLeftBehind
<1>9. Counted'
  BY <1>2, <1>4, <1>6, CostOfTries DEF Counted
<1>10. Leaving'
  <2> SUFFICES ASSUME phase = "leave", Living # {}, failures' = 0
               PROVE  \E p \in todo' : parent[p] = Above /\ life'[p] \in {"alive", "dying"}
    BY <1>2, <1>4 DEF Leaving
  <2>1. PICK p \in Living : \A q \in Living : p <= q
    BY Oldest DEF Living
  <2>2. parent[p] = Above
    BY <2>1 DEF Account, Tree, TypeOK, Living, Procs
  <2>3. listed /\ UNCHANGED life
    BY <1>1, <1>2 DEF Tries, Account, TypeOK
  <2> QED
    BY <1>1, <2>1, <2>2, <2>3 DEF Living
<1> QED
  BY <1>4, <1>5, <1>8, <1>9, <1>10 DEF Account

\* A parent is read before its child.
LEMMA ReadKeepsAccount == Account /\ Read => Account'
<1> SUFFICES ASSUME Account, Read PROVE Account'
  OBVIOUS
<1>1. PICK p \in todo, well \in BOOLEAN :
        /\ \A q \in todo : p <= q
        /\ Reads(well)
        /\ todo' = todo \ {p}
        /\ found' = IF well /\ life[p] # "gone" /\ parent[p] \in found \cup {Above}
                      THEN found \cup {p} ELSE found
  BY DEF Read
<1>2. /\ sup = "read" /\ sup' = IF todo' = {} THEN "decide" ELSE "read"
      /\ Tries /\ (failures' = failures => well)
      /\ UNCHANGED <<namespace, life, parent, exit, stop_signal, root_returncode, phase,
                     known, rounds, proof, run, back, challenge, token, stopped, confirmed>>
  BY <1>1 DEF Read, At, Tries, Reads, runVars, Account, TypeOK
<1>3. TypeOK' /\ p \in Procs
  BY <1>1, <1>2 DEF Tries, Account, TypeOK
<1>4. Tree'
  BY <1>2 DEF Tries, Account, Tree, Living
<1>5. /\ Missed' = Missed /\ (Free => Cost >= Missed) /\ Cost \in Nat /\ Missed \in 0 .. 2
      /\ Living' = Living /\ Free' = Free /\ Cost' \in {Cost, Cost + 1}
  BY <1>2 DEF Missed, Cost, Tries, Living, Free, Account, TypeOK, Counted
<1>6. Scanning'
  <2>1. PICK seen \in SUBSET Procs : Listed(seen)
    BY <1>2 DEF Account, Scanning
  <2>2. Excused => Excused'
    BY <1>2, <1>5 DEF Excused, Tries, Account, TypeOK
  <2>3. p \in Living => p \in found' \/ Excused'
    <3>1. CASE ~ well
      BY <1>2, <1>5, <3>1, CostOfTries DEF Excused
    <3>2. CASE well
      <4> SUFFICES ASSUME p \in Living, parent[p] # Above, ~ Excused'
                   PROVE  parent[p] \in found
        BY <1>1, <3>2 DEF Living
      <4>1. parent[p] < p /\ parent[p] \in Living
        BY DEF Account, Tree
      <4>2. parent[p] \in todo \cup found
        BY <1>1, <2>1, <2>2, <4>1 DEF Listed, Living
      <4> QED
        BY <1>1, <1>3, <4>1, <4>2 DEF Account, TypeOK, Living, Procs
    <3> QED
      BY <3>1, <3>2
  <2>4. (\A q \in Living' \cap seen : q \in todo' \cup found') \/ Excused'
    BY <1>1, <1>5, <2>1, <2>2, <2>3 DEF Listed
  <2>5. Listed(seen)'
    BY <1>1, <1>2, <1>5, <2>1, <2>4 DEF Listed
  <2> QED
    BY <2>5 DEF Scanning
<1>7. Counted'
  BY <1>2, <1>5 DEF Counted
<1>8. Course'
  BY <1>1, <1>2 DEF Account, Course, NobodyIsLeftBehind, Living
<1>9. Leaving'
  <2> SUFFICES ASSUME phase = "leave", Living # {}, failures' = 0
               PROVE  \E q \in todo' \cup found' :
                        q \in found' \/ (parent[q] = Above
                                         /\ life[q] \in {"alive", "dying", "zombie"})
    BY <1>2, <1>5 DEF Leaving
  <2>1. failures = 0 /\ well
    BY <1>2 DEF Tries, Account, TypeOK
  <2>2. PICK q \in todo \cup found :
          q \in found \/ (parent[q] = Above /\ life[q] \in {"alive", "dying", "zombie"})
    BY <1>2, <2>1 DEF Account, Leaving
  <2> QED
    BY <1>1, <2>1, <2>2
<1> QED
  BY <1>3, <1>4, <1>6, <1>7, <1>8, <1>9 DEF Account

LEMMA NothingListedKeepsAccount == Account /\ NothingListed => Account'
<1> SUFFICES ASSUME Account, NothingListed PROVE Account'
  OBVIOUS
<1>1. /\ sup = "read" /\ sup' = "decide" /\ todo = {}
      /\ UNCHANGED <<namespace, life, parent, forks, failures, exit, stop_signal,
                     root_returncode, phase, todo, found, known, rounds, proof, run, back,
                     challenge, token, stopped, confirmed>>
  BY DEF NothingListed, At, treeVars, histVars, scanVars, runVars
<1>2. Missed' = Missed /\ Living' = Living /\ Cost' = Cost /\ Free' = Free
  BY <1>1 DEF Missed, Living, Cost, Free
<1>3. Scanning'
  BY <1>1, <1>2 DEF Account, Scanning, Listed, Excused
<1>4. Counted' /\ Course'
  BY <1>1, <1>2 DEF Account, Counted, Course, NobodyIsLeftBehind
<1> QED
  BY <1>1, <1>2, <1>3, <1>4 DEF Account, TypeOK, Tree, Leaving

LEMMA DecideLeaveKeepsAccount == Account /\ DecideLeave => Account'
<1> SUFFICES ASSUME Account, DecideLeave PROVE Account'
  OBVIOUS
<1>1. Tries /\ ~ proof'
  BY DEF DecideLeave, At, Tries, histVars, Account, TypeOK, Course
<1>2. CASE found = {}
  <2>1. Living = {} \/ failures # 0
    BY <1>2 DEF DecideLeave, At, Account, Leaving, Course
  <2>2. Ends(root_returncode) /\ root_returncode \in {"124", "other"}
    BY <1>2 DEF DecideLeave, Account, TypeOK, Course
  <2> QED
    BY <1>1, <2>1, <2>2, EndKeepsAccount
       DEF DecideLeave, histVars, Account, TypeOK, runVars
<1>3. CASE found # {}
  <2>1. /\ Scan("term") /\ exit = "running"
        /\ UNCHANGED <<namespace, life, parent, forks, failures, exit, stop_signal,
                       root_returncode, known, rounds, proof, run, back, challenge,
                       token, stopped, confirmed>>
    BY <1>3 DEF DecideLeave, At, histVars, runVars
  <2>2. TypeOK' /\ Tree' /\ Cost' >= Missed'
    BY <2>1 DEF Scan, Missed, Cost, Account, TypeOK, Tree, Living
  <2> QED
    BY <1>1, <2>1, <2>2, ScanBegins DEF Account
<1> QED
  BY <1>2, <1>3

LEMMA DecideTermKeepsAccount == Account /\ DecideTerm => Account'
<1> SUFFICES ASSUME Account, DecideTerm PROVE Account'
  OBVIOUS
<1>1. PICK next \in {"terms", "kill"} : Scan(next)
  BY DEF DecideTerm
<1>2. /\ sup = "decide" /\ exit = "running" /\ known' = Met /\ Tries
      /\ UNCHANGED <<namespace, life, parent, exit, stop_signal, root_returncode, rounds,
                     proof, run, back, challenge, token, stopped, confirmed>>
  BY DEF DecideTerm, At, Tries, Reads, runVars
<1>3. TypeOK' /\ Tree' /\ Cost' >= Missed' /\ ~ proof'
  BY <1>1, <1>2 DEF Scan, Met, Missed, Cost, Tries, Account, TypeOK, Tree, Living, Course
<1> QED
  BY <1>1, <1>2, <1>3, ScanBegins DEF Account

\* Who is not under a SIGKILL was overlooked by the scan that has just been read,
\* missed by a later reading, or has refused the signal.
LEMMA KillsArePaidFor ==
  ASSUME Account, At("decide"), NEW live \in SUBSET Met, Kill(live)
  PROVE  Tries /\ (Free' => Cost' >= Missed + 1)
<1>1. PICK spared \in SUBSET live :
        Reads(live = Met /\ spared = {}) /\ life' = Killed(live \ spared)
  BY DEF Kill
<1>2. Tries /\ (failures' = failures => live = Met /\ spared = {})
  BY <1>1 DEF Reads, Tries, Account, TypeOK
<1>3. SUFFICES ASSUME NEW p \in Procs, life'[p] = "alive" PROVE Cost' >= Missed + 1
  BY <1>2 DEF Free
<1>4. p \in Living /\ life[p] = "alive" /\ p \notin live \ spared
  BY <1>1, <1>3 DEF Killed, Living, Account, TypeOK
<1>5. Cost \in Nat /\ Missed \in 0 .. 2 /\ Cost >= Missed
  BY <1>4 DEF Account, TypeOK, Counted, At, Free, Cost, Missed
<1>6. CASE p \in found
  <2>1. failures' = failures + 1
    BY <1>2, <1>4, <1>6 DEF Met, Tries
  <2> QED
    BY <1>2, <1>5, <2>1 DEF Tries, Cost, Account, TypeOK
<1>7. CASE p \notin found
  <2>1. Cost >= Missed + 1
    BY <1>4, <1>7, OverlookedWasPaidFor DEF Free
  <2> QED
    BY <1>2, <1>5, <2>1, CostOfTries
<1> QED
  BY <1>6, <1>7

LEMMA KillingSettles ==
  ASSUME Account, NEW ps, life' = Killed(ps), UNCHANGED <<parent, forks>>,
         sup \in {"decide", "wait"}
  PROVE  Settles
  BY DEF Account, TypeOK, Killed, Settles, Lives, Living

LEMMA DecideKillKeepsAccount == Account /\ DecideKill => Account'
<1> SUFFICES ASSUME Account, DecideKill PROVE Account'
  OBVIOUS
<1>1. PICK live \in SUBSET Met :
        Kill(live) /\ (Scan("kills") \/ (sup' = "wait" /\ phase' = "none"))
  BY DEF DecideKill
<1>2. /\ At("decide") /\ phase \in {"kill", "kills"} /\ exit = "running"
      /\ known' = Met /\ ~ proof'
      /\ UNCHANGED <<namespace, parent, exit, stop_signal, root_returncode, rounds, proof,
                     run, back, challenge, token, stopped, confirmed>>
  BY DEF DecideKill, At, runVars, Account, Course
<1>3. Tries /\ (Free' => Cost' >= 1)
  BY <1>1, <1>2, KillsArePaidFor DEF Missed
<1>4. Settles
  BY <1>1, <1>2, <1>3, KillingSettles DEF At, Kill, Tries
<1>5. /\ sup' \in {"list", "wait"} /\ phase' \in {"kills", "none"}
      /\ todo' = {} /\ found' = {}
  BY DEF DecideKill, Scan
<1>6. TypeOK' /\ Tree'
  BY <1>2, <1>3, <1>4, <1>5, SettlingKeepsTheTree
     DEF Settles, Lives, Met, Living, Tries, Account, TypeOK
<1>7. CASE Scan("kills")
  <2>1. Cost' >= Missed'
    BY <1>6, <1>7 DEF Scan, Missed, Cost, TypeOK
  <2> QED
    BY <1>2, <1>6, <1>7, <2>1, ScanBegins DEF Account
<1>8. CASE sup' = "wait" /\ phase' = "none"
  <2>1. Scanning' /\ Counted' /\ Leaving' /\ Course'
    BY <1>2, <1>3, <1>8 DEF Account, Scanning, Counted, Leaving, Course,
       NobodyIsLeftBehind
  <2> QED
    BY <1>6, <2>1 DEF Account
<1> QED
  BY <1>1, <1>7, <1>8

LEMMA WaitForRootKeepsAccount == Account /\ WaitForRoot => Account'
<1> SUFFICES ASSUME Account, WaitForRoot PROVE Account'
  OBVIOUS
<1>1. /\ sup = "wait" /\ exit = "running" /\ Scan("final") /\ rounds' = 0
      /\ UNCHANGED <<namespace, parent, forks, failures, exit, stop_signal,
                     root_returncode, known, proof, run, back, challenge, token, stopped,
                     confirmed>>
  BY DEF WaitForRoot, At, histVars, runVars
<1>2. Settles
  <2>1. CASE life[Root] = "zombie"
    BY <1>1, <2>1 DEF WaitForRoot, Account, TypeOK, Settles, Lives
  <2>2. CASE life[Root] # "zombie"
    BY <1>1, <2>2, KillingSettles DEF WaitForRoot
  <2> QED
    BY <2>1, <2>2
<1>3. TypeOK' /\ Tree' /\ (Free' => Free)
  BY <1>1, <1>2, SettlingKeepsTheTree, BoundsAssumption
     DEF Scan, Settles, Lives, Account, TypeOK
<1>4. (Free' => Cost' >= Missed') /\ ~ proof'
  BY <1>1, <1>3 DEF Scan, Missed, Cost, Account, Counted, Course
<1> QED
  BY <1>1, <1>3, <1>4, ScanBegins, BoundsAssumption DEF Account

LEMMA DecideFinalKeepsAccount == Account /\ DecideFinal => Account'
<1> SUFFICES ASSUME Account, DecideFinal PROVE Account'
  OBVIOUS
<1>1. PICK live \in SUBSET Met :
        Kill(live) /\ Scan(IF live = {} \/ rounds' = MaxRounds THEN "verdict" ELSE "final")
  BY DEF DecideFinal
<1>2. /\ At("decide") /\ exit = "running" /\ phase = "final" /\ rounds < MaxRounds
      /\ known' = Met /\ rounds' = rounds + 1 /\ ~ proof'
      /\ UNCHANGED <<namespace, parent, exit, stop_signal, root_returncode, proof, run,
                     back, challenge, token, stopped, confirmed>>
  BY DEF DecideFinal, At, Account, Course, runVars
<1>3. PICK for \in {"final", "verdict"} :
        Scan(for) /\ (for = "final" => rounds' # MaxRounds)
  BY <1>1
<1>4. Tries /\ (Free' => Cost' >= 2)
  BY <1>1, <1>2, KillsArePaidFor DEF Missed
<1>5. Settles
  BY <1>1, <1>2, <1>4, KillingSettles DEF At, Kill, Tries
<1>6. rounds' \in 0 .. MaxRounds /\ (for = "final" => rounds' < MaxRounds)
  BY <1>2, <1>3, BoundsAssumption DEF Account, TypeOK
<1>7. TypeOK' /\ Tree'
  BY <1>2, <1>3, <1>4, <1>5, <1>6, SettlingKeepsTheTree
     DEF Scan, Settles, Lives, Met, Living, Tries, Account, TypeOK
<1>8. Free' => Cost' >= Missed'
  BY <1>3, <1>4, <1>7 DEF Scan, Missed, Cost, TypeOK
<1> QED
  BY <1>2, <1>3, <1>6, <1>7, <1>8, ScanBegins DEF Account

LEMMA VerdictKeepsAccount == Account /\ Verdict => Account'
<1> SUFFICES ASSUME Account, Verdict PROVE Account'
  OBVIOUS
<1>1. PICK live \in SUBSET Met :
        /\ Reads(live = Met)
        /\ IF live = {} /\ root_returncode = "none"
             THEN sup' = "prove" /\ UNCHANGED <<exit, life, parent, scanVars>>
             ELSE Ends(IF live # {} THEN "125" ELSE root_returncode)
  BY DEF Verdict
<1>2. /\ At("decide") /\ exit = "running" /\ phase = "verdict" /\ Tries
      /\ (failures' = failures => live = Met) /\ ~ proof'
      /\ UNCHANGED <<namespace, stop_signal, root_returncode, proof, run, back, challenge,
                     token, stopped, confirmed>>
  BY <1>1 DEF Verdict, At, Reads, Tries, runVars, Account, TypeOK, Course
<1>3. ASSUME live = {}, NEW p \in Living, failures' = 0 \/ Free
      PROVE  Cost' >= 3
  <2>1. CASE p \notin found
    BY <1>2, <1>3, <2>1, OverlookedWasPaidFor DEF Missed, Cost, Tries, Account, TypeOK
  <2>2. CASE p \in found
    <3>1. failures' = failures + 1
      BY <1>2, <1>3, <2>2 DEF Met, Tries
    <3>2. Cost >= 2
      BY <1>2, <1>3, <3>1 DEF Account, Counted, TypeOK, At, Missed
    <3> QED
      BY <1>2, <3>1, <3>2 DEF Cost, Tries, Account, TypeOK
  <2> QED
    BY <2>1, <2>2
<1>4. live = {} => (failures' = 0 /\ Living # {} => forks' >= 3)
  BY <1>2, <1>3 DEF Cost, Tries, Account, TypeOK
<1>5. live = {} => (Free => Cost' >= 3)
  BY <1>3 DEF Free, Living
<1>6. CASE live = {} /\ root_returncode = "none"
  <2>1. sup' = "prove" /\ UNCHANGED <<exit, life, parent, scanVars>>
    BY <1>1, <1>6
  <2>2. Living' = Living /\ Free' = Free
    BY <2>1 DEF Living, Free
  <2>3. Counted'
    BY <1>4, <1>5, <1>6, <2>1, <2>2 DEF Counted, Settled
  <2>4. Tree'
    BY <1>2, <2>1 DEF Tries, Account, Tree, Living, At
  <2>5. Scanning' /\ Leaving' /\ Course'
    BY <1>2, <1>6, <2>1 DEF Scanning, Leaving, Account, Course, NobodyIsLeftBehind, At,
       scanVars
  <2> QED
    BY <1>2, <2>1, <2>3, <2>4, <2>5 DEF Tries, Account, TypeOK, scanVars
<1>7. CASE ~ (live = {} /\ root_returncode = "none")
  <2>1. PICK status \in {"124", "125", "other"} :
          Ends(status) /\ (status # "125" => live = {})
    BY <1>1, <1>7 DEF Account, TypeOK
  <2> QED
    BY <1>2, <1>4, <1>5, <2>1, EndKeepsAccount DEF Tries, Account, TypeOK
<1> QED
  BY <1>6, <1>7

LEMMA OutcomeKeepsAccount ==
  Account /\ (Prove \/ Leave \/ SupervisorDies \/ RootRefuses) => Account'
<1>1. ASSUME Account, Prove PROVE Account'
  BY <1>1 DEF Prove, At, Account, TypeOK, Tree, Living, Free, Scanning, Counted, Settled,
     Cost, Leaving, Course, NobodyIsLeftBehind, treeVars, histVars, scanVars, runVars
<1>2. ASSUME Account, Leave PROVE Account'
  <2>1. Settled /\ Tries /\ Cost' = Cost
    BY <1>2 DEF Leave, At, Account, Counted, Tries, Cost, histVars
  <2> QED
    BY <1>2, <2>1, EndKeepsAccount DEF Leave, Settled, histVars, Account, TypeOK, runVars
<1>3. ASSUME Account, SupervisorDies PROVE Account'
  BY <1>3, EndKeepsAccount DEF SupervisorDies, Tries, histVars, Account, TypeOK, runVars
<1>4. ASSUME Account, RootRefuses PROVE Account'
  BY <1>4, EndKeepsAccount DEF RootRefuses, Reads, Tries, Account, TypeOK, runVars
<1> QED
  BY <1>1, <1>2, <1>3, <1>4

-----------------------------------------------------------------------------
(* The runner starts the supervisor, and ends it; it touches nothing else  *)
(* of the account.                                                         *)

RunnerFits ==
  /\ run \in {"start", "challenge", "poll", "stop", "wait", "drain", "finally", "over"}
  /\ back \in {"poll", "drain", "finally"}
  /\ challenge \in BOOLEAN /\ proof \in BOOLEAN
  /\ token \in {"unread", "matched", "refused"}
  /\ stopped \in BOOLEAN /\ confirmed \in BOOLEAN

LEMMA AnswersFit ==
  ASSUME Account, NEW ok \in BOOLEAN, Answered(ok)
  PROVE  /\ run' \in {"drain", "finally", "over"} /\ confirmed' \in BOOLEAN
         /\ confirmed' => confirmed \/ (ok /\ (back = "poll" \/ stopped))
  BY DEF Answered, Account, TypeOK

LEMMA RunnerStaysFit == Account /\ Runner => RunnerFits'
<1>1. ASSUME Account, KillSession PROVE RunnerFits'
  BY <1>1, AnswersFit DEF KillSession, Account, TypeOK, RunnerFits
<1>2. ASSUME Account, Attest PROVE RunnerFits'
  <2>1. run' \in {"drain", "finally", "over"} /\ confirmed' \in BOOLEAN
    BY <1>2, AnswersFit DEF Attest
  <2> QED
    BY <1>2, <2>1 DEF Attest, Account, TypeOK, RunnerFits, supVars
<1>3. ASSUME Account, Signal PROVE RunnerFits'
  BY <1>3 DEF Signal, Go, Account, TypeOK, RunnerFits
<1>4. ASSUME Account,
             Start \/ StartFails \/ Challenge \/ SeesExit \/ GivesUp \/ RunnerFails
               \/ Drained \/ StillHeld \/ Finally
      PROVE  RunnerFits'
  BY <1>4 DEF Start, StartFails, Challenge, SeesExit, GivesUp, RunnerFails, Drained,
     StillHeld, Finally, Go, Account, TypeOK, RunnerFits
<1> QED
  BY <1>1, <1>2, <1>3, <1>4 DEF Runner, NotFound, WaitTimesOut

LEMMA RunnerEndsTheSupervisor ==
  ASSUME Account, Runner
  PROVE  \/ UNCHANGED <<treeVars, sup, exit, root_returncode, scanVars>>
            /\ stop_signal' \in BOOLEAN
         \/ Start
         \/ Ends("signal")
            /\ UNCHANGED <<namespace, histVars, root_returncode, stop_signal>>
<1>1. ASSUME Signal \/ KillSession
      PROVE  \/ UNCHANGED <<treeVars, sup, exit, root_returncode, scanVars>>
                /\ stop_signal' \in BOOLEAN
             \/ Ends("signal")
                /\ UNCHANGED <<namespace, histVars, root_returncode, stop_signal>>
  BY <1>1 DEF Signal, KillSession, treeVars, scanVars, Account, TypeOK
<1>2. CASE StartFails \/ Challenge \/ SeesExit \/ GivesUp \/ RunnerFails \/ Attest
             \/ Drained \/ StillHeld \/ Finally
  BY <1>2 DEF StartFails, Challenge, SeesExit, GivesUp, RunnerFails, Attest, Drained,
     StillHeld, Finally, supVars, Account, TypeOK
<1>3. CASE Start
  BY <1>3 DEF Start
<1> QED
  BY <1>1, <1>2, <1>3 DEF Runner, NotFound, WaitTimesOut

LEMMA RunnerKeepsProof == Runner => proof' = proof
  BY DEF Runner, Start, StartFails, Challenge, SeesExit, GivesUp, RunnerFails, Signal,
     NotFound, WaitTimesOut, KillSession, Attest, Drained, StillHeld, Finally

LEMMA RunnerKeepsAccount == Account /\ Calls /\ Runner => Account'
<1> SUFFICES ASSUME Account, Calls, Runner PROVE Account'
  OBVIOUS
<1>1. RunnerFits'
  BY RunnerStaysFit
<1>2. CASE UNCHANGED <<treeVars, sup, exit, root_returncode, scanVars>>
           /\ stop_signal' \in BOOLEAN
  <2>1. TypeOK' /\ Tree' /\ Counted' /\ Leaving' /\ Course'
    <3>1. Living' = Living /\ Free' = Free /\ Missed' = Missed /\ Cost' = Cost
      BY <1>2 DEF Living, Free, Missed, Cost, treeVars, histVars, scanVars
    <3> QED
      BY <1>1, <1>2, <3>1, RunnerKeepsProof
         DEF Account, TypeOK, RunnerFits, Tree, Counted, Settled, Leaving, Course,
         NobodyIsLeftBehind, Free, treeVars, histVars, scanVars
  <2>2. Scanning'
    BY <1>2 DEF Account, Scanning, Listed, Excused, Living, Free, Missed, Cost, treeVars,
       histVars, scanVars
  <2> QED
    BY <2>1, <2>2 DEF Account
<1>3. CASE Start
  BY <1>3 DEF Start, Go, Calls, Account, TypeOK, Tree, Living, Scanning, Counted, Leaving,
     Course, NobodyIsLeftBehind, treeVars, histVars, scanVars
<1>4. CASE Ends("signal") /\ UNCHANGED <<namespace, histVars, root_returncode, stop_signal>>
  BY <1>1, <1>4, EndKeepsAccount DEF RunnerFits, Tries, histVars, Account, TypeOK
<1> QED
  BY <1>2, <1>3, <1>4, RunnerEndsTheSupervisor

-----------------------------------------------------------------------------
(* What the runner concludes.                                              *)

LEMMA CommandKeepsCalls ==
  ASSUME Account, Calls, NEW p \in Procs, Fork(p) \/ End(p)
  PROVE  Calls'
<1>1. UNCHANGED <<supVars, proof, runVars>>
  BY DEF Fork, End
<1> QED
  BY <1>1 DEF Calls, supVars, runVars

SupervisorStep ==
  \/ SetUp \/ SetUpFails \/ Launch \/ CheckStop \/ Poll \/ List \/ Read \/ NothingListed
  \/ DecideLeave \/ DecideTerm \/ DecideKill \/ WaitForRoot \/ RootRefuses
  \/ DecideFinal \/ Verdict \/ Prove \/ Leave \/ SupervisorDies

LEMMA SupervisorKeepsCalls == Account /\ Calls /\ SupervisorStep => Calls'
<1> SUFFICES ASSUME Account, Calls, SupervisorStep PROVE Calls'
  OBVIOUS
<1>1. UNCHANGED runVars /\ (proof' = proof \/ proof' = TRUE)
  BY DEF SupervisorStep, SetUp, SetUpFails, Launch, CheckStop, Poll, List, Read,
     NothingListed, DecideLeave, DecideTerm, DecideKill, WaitForRoot, RootRefuses,
     DecideFinal, Verdict, Prove, Leave, SupervisorDies
<1>2. sup \notin {"none", "ended"} /\ exit = "running"
  BY DEF SupervisorStep, SetUp, SetUpFails, Launch, CheckStop, Poll, List, Read,
     NothingListed, DecideLeave, DecideTerm, DecideKill, WaitForRoot, RootRefuses,
     DecideFinal, Verdict, Prove, Leave, SupervisorDies, At, Account, Course
<1>3. sup' # "none"
  BY DEF SupervisorStep, SetUp, SetUpFails, Launch, CheckStop, Poll, List, Read,
     NothingListed, DecideLeave, DecideTerm, DecideKill, WaitForRoot, RootRefuses,
     DecideFinal, Verdict, Prove, Leave, SupervisorDies, Scan, Ends
<1> QED
  BY <1>1, <1>2, <1>3 DEF Calls, runVars

\* Only the answer to a stop can confirm a cleanup: a proof that was read, of a
\* supervisor that ended with the status of a stop.
LEMMA AttestKeepsCalls == Account /\ Calls /\ Attest => Calls'
<1> SUFFICES ASSUME Account, Calls, Attest PROVE Calls'
  OBVIOUS
<1>1. /\ run \in {"stop", "wait"} /\ exit # "running" /\ sup = "ended"
      /\ UNCHANGED <<sup, exit, proof, back, challenge, stopped>>
  BY DEF Attest, supVars, Account, Course
<1>2. token' = "matched" => proof
  BY DEF Attest, Calls
<1>3. /\ run' \in {"drain", "finally", "over"}
      /\ confirmed' => confirmed \/ (exit = "124" /\ token' = "matched"
                                       /\ (back = "poll" \/ stopped))
  BY AnswersFit DEF Attest
<1> QED
  BY <1>1, <1>2, <1>3 DEF Calls

LEMMA KillSessionKeepsCalls ==
  ASSUME Account, Calls, KillSession, run \in {"stop", "wait"}
  PROVE  Calls'
<1>1. /\ run' \in {"drain", "finally", "over"} /\ (confirmed' => confirmed)
      /\ UNCHANGED <<proof, back, challenge, token, stopped>>
  BY AnswersFit DEF KillSession
<1>2. sup' = "ended" /\ (exit = "124" => exit' = exit)
  BY DEF KillSession, Ends, Account, Course
<1> QED
  BY <1>1, <1>2 DEF Calls

LEMMA RunnerKeepsCalls == Account /\ Calls /\ Runner => Calls'
<1> SUFFICES ASSUME Account, Calls, Runner PROVE Calls'
  OBVIOUS
<1>1. CASE Start \/ StartFails
  BY <1>1 DEF Start, StartFails, Go, supVars, Calls
<1>2. CASE Challenge
  BY <1>2 DEF Challenge, Go, supVars, Calls, Account, Course
<1>3. CASE SeesExit \/ GivesUp \/ RunnerFails \/ Drained
  BY <1>3 DEF SeesExit, GivesUp, RunnerFails, Drained, Go, supVars, Calls
<1>4. CASE Signal
  <2>1. /\ run = "stop" /\ run' = "wait" /\ exit = "running" /\ exit' # "124"
        /\ sup' \in {sup, "ended"}
        /\ UNCHANGED <<proof, back, challenge, token, stopped, confirmed>>
    BY <1>4 DEF Signal, Go, Ends
  <2> QED
    BY <2>1 DEF Calls
<1>5. CASE NotFound \/ WaitTimesOut
  BY <1>5, KillSessionKeepsCalls DEF NotFound, WaitTimesOut
<1>6. CASE Attest
  BY <1>6, AttestKeepsCalls
<1>7. CASE StillHeld
  BY <1>7 DEF StillHeld, Go, supVars, Calls
<1>8. CASE Finally
  BY <1>8 DEF Finally, Go, supVars, Calls, Account, Course
<1> QED
  BY <1>1, <1>2, <1>3, <1>4, <1>5, <1>6, <1>7, <1>8 DEF Runner

-----------------------------------------------------------------------------

LEMMA InitialAccount == Init => Account /\ Calls
<1> SUFFICES ASSUME Init PROVE Account /\ Calls
  OBVIOUS
<1>1. Living = {}
  BY DEF Init, Living
<1>2. TypeOK
  <2>1. /\ life \in [Procs -> {"unborn", "alive", "dying", "zombie", "gone"}]
        /\ parent \in [Procs -> Procs \cup {Above}]
    BY DEF Init
  <2>2. forks \in 0 .. MaxBirths /\ failures \in Nat /\ rounds \in 0 .. MaxRounds
    BY BoundsAssumption DEF Init
  <2> QED
    BY <2>1, <2>2 DEF Init, TypeOK
<1>3. Tree
  BY <1>1, BoundsAssumption DEF Init, Tree, Procs
<1>4. Scanning /\ Counted /\ Leaving /\ Course /\ Calls
  BY <1>1 DEF Init, Scanning, Counted, Leaving, Course, NobodyIsLeftBehind, Calls
<1> QED
  BY <1>2, <1>3, <1>4 DEF Account

LEMMA NextKeepsAccount == Account /\ Calls /\ [Next]_vars => (Account /\ Calls)'
<1> SUFFICES ASSUME Account, Calls, [Next]_vars PROVE Account' /\ Calls'
  OBVIOUS
<1>1. ASSUME NEW p \in Procs, Fork(p) \/ End(p) PROVE Account' /\ Calls'
  BY <1>1, ForkKeepsAccount, EndOfProcessKeepsAccount, CommandKeepsCalls
<1>2. CASE SupervisorStep
  BY <1>2, SupervisorKeepsCalls, SetUpKeepsAccount, CheckStopKeepsAccount,
     PollKeepsAccount, ListKeepsAccount, ReadKeepsAccount, NothingListedKeepsAccount,
     DecideLeaveKeepsAccount, DecideTermKeepsAccount, DecideKillKeepsAccount,
     WaitForRootKeepsAccount, DecideFinalKeepsAccount, VerdictKeepsAccount,
     OutcomeKeepsAccount DEF SupervisorStep
<1>3. CASE Runner
  BY <1>3, RunnerKeepsAccount, RunnerKeepsCalls
<1>4. CASE UNCHANGED vars
  <2>1. Account'
    <3>1. TypeOK' /\ Tree' /\ Counted' /\ Leaving' /\ Course'
      BY <1>4 DEF Account, TypeOK, Tree, Living, Counted, Settled, Free, Missed, Cost,
         Leaving, Course, NobodyIsLeftBehind, vars, treeVars, histVars, supVars, scanVars,
         runVars
    <3>2. Scanning'
      BY <1>4 DEF Account, Scanning, Listed, Excused, Free, Living, Missed, Cost, vars,
         treeVars, histVars, supVars, scanVars
    <3> QED
      BY <3>1, <3>2 DEF Account
  <2>2. Calls'
    BY <1>4 DEF Calls, vars, supVars, runVars
  <2> QED
    BY <2>1, <2>2
<1> QED
  BY <1>1, <1>2, <1>3, <1>4 DEF Next, SupervisorStep

LEMMA AccountHolds == Spec => [](Account /\ Calls)
  BY InitialAccount, NextKeepsAccount, PTL DEF Spec

\* A call that is over leaves no supervisor running, and a cleanup that the
\* runner reports as confirmed was a stop that the supervisor proved.
THEOREM CallsEndTheirSupervisor == Spec => []Inv
<1>1. Account /\ Calls => Inv
  BY DEF Account, Calls, Inv
<1> QED
  BY <1>1, AccountHolds, PTL

\* A supervisor that ended in good order left nobody behind, unless, outside of
\* a namespace, processes forked in three scans in a row, or a reading of /proc
\* or a signal failed; three such forks and failures, when a cleanup was proved
\* and somebody is left who never got a SIGKILL.
THEOREM TreeIsCleaned == Spec => []NobodyIsLeftBehind
<1>1. Account => NobodyIsLeftBehind
  BY DEF Account, Course
<1> QED
  BY <1>1, AccountHolds, PTL

\* What the caller may rely on: where PID namespaces can be had, a cleanup that
\* is confirmed left nobody behind.
THEOREM ConfirmedCleanupIsComplete == Spec => [](confirmed /\ namespace => Living = {})
<1>1. Account /\ Calls => (confirmed /\ namespace => Living = {})
  BY DEF Account, Course, Calls, NobodyIsLeftBehind
<1> QED
  BY <1>1, AccountHolds, PTL
=============================================================================

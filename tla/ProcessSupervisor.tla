------------------------- MODULE ProcessSupervisor -------------------------
(***************************************************************************)
(* One shell command under _run_bounded_argv of                            *)
(* harness/tools/process_runner.py: the runner starts                      *)
(* harness/tools/process_supervisor.py, the supervisor starts the command  *)
(* and is the subreaper of everything the command forks.  When the command *)
(* times out or is cancelled, the supervisor signals and reaps its         *)
(* descendants and proves it with the runner's token.                      *)
(*                                                                         *)
(* The supervisor learns of processes from /proc alone: it lists the       *)
(* process ids, then reads them one after the other, while processes fork, *)
(* end and are reparented.  Processes are numbered in the order of their   *)
(* births, which is the order in which /proc lists them.  A reading may    *)
(* fail (no free descriptor, a name that is not UTF-8) and a signal may be *)
(* refused (a setuid program).  Where the host permits it the supervisor   *)
(* is the init of a PID namespace, whose end is the end of everything in   *)
(* it.                                                                     *)
(***************************************************************************)
EXTENDS Naturals, FiniteSets

CONSTANTS
  MaxBirths,     \* bound on the processes of one command and failures, together
  MaxRounds      \* the last rounds of _terminate_descendants, 5 in the code

ASSUME BoundsAssumption == MaxBirths \in Nat \ {0} /\ MaxRounds \in Nat \ {0}

Procs == 1 .. MaxBirths
Root == 1        \* the command itself, the supervisor's own child
Above == 0       \* the supervisor as a parent; after its end, the init above

VARIABLES
  \* the host and the processes below the supervisor
  namespace,     \* _pid_namespace_prefix found a usable PID namespace
  life,          \* unborn, alive, dying (SIGKILL is pending), zombie or gone
  parent,
  forks,         \* history: forks since the supervisor began to clean up
  failures,      \* history: failed readings of /proc and refused signals
  \* the supervisor
  sup, phase,    \* where it is, and what the scan of /proc is for
  exit,          \* running, its exit status, or signal
  stop_signal, root_returncode,
  todo, found,   \* a scan: ids listed and not yet read, and descendants so far
  known,         \* the living identities _terminate_descendants has met
  rounds,
  \* the runner
  run, back,     \* where it is, and where it called _terminate_process_tree
  challenge,     \* the token was written for the supervisor
  proof,         \* the token is in the proof pipe
  token,         \* _harness_cleanup_proof_result: unread, or the answer
  stopped,       \* timed_out or cancelled
  confirmed      \* managed_process_group_terminated

histVars == <<forks, failures>>
treeVars == <<namespace, life, parent, histVars>>
scanVars == <<phase, todo, found, known, rounds>>
supVars == <<sup, exit, stop_signal, root_returncode, scanVars>>
runVars == <<run, back, challenge, token, stopped, confirmed>>
vars == <<treeVars, supVars, proof, runVars>>

Living == {p \in Procs : life[p] \in {"alive", "dying"}}

Init ==
  /\ namespace \in BOOLEAN
  /\ life = [p \in Procs |-> "unborn"] /\ parent = [p \in Procs |-> Above]
  /\ forks = 0 /\ failures = 0
  /\ sup = "none" /\ phase = "none" /\ exit = "running"
  /\ stop_signal = FALSE /\ root_returncode = "none"
  /\ todo = {} /\ found = {} /\ known = {} /\ rounds = 0
  /\ run = "start" /\ back = "poll"
  /\ challenge = FALSE /\ proof = FALSE /\ token = "unread"
  /\ stopped = FALSE /\ confirmed = FALSE

-----------------------------------------------------------------------------
(* The processes of the command, and the kernel.                           *)

\* The bound: every failure is a birth less.
Room == failures < Cardinality({p \in Procs : life[p] = "unborn"})

Cleaning == sup \in {"list", "read", "decide", "wait"}

Fork(p) ==
  /\ exit = "running" /\ life[p] = "alive" /\ Room
  /\ \E c \in Procs :
       /\ life[c] = "unborn" /\ \A q \in 1 .. c - 1 : life[q] # "unborn"
       /\ life' = [life EXCEPT ![c] = "alive"]
       /\ parent' = [parent EXCEPT ![c] = p]
  /\ forks' = IF Cleaning THEN forks + 1 ELSE forks
  /\ UNCHANGED <<namespace, failures, supVars, proof, runVars>>

\* A process ends, by itself or by a signal.  Its children get the subreaper
\* as their parent.  Only the supervisor's own children stay as zombies until
\* it reaps them: an entry of another parent's zombie tells a scan nothing.
End(p) ==
  /\ exit = "running" /\ p \in Living
  /\ life' = [life EXCEPT ![p] = IF parent[p] = Above THEN "zombie" ELSE "gone"]
  /\ parent' = [q \in Procs |-> IF q = p \/ parent[q] = p THEN Above ELSE parent[q]]
  /\ UNCHANGED <<namespace, histVars, supVars, proof, runVars>>

\* The supervisor ends; with it the namespace whose init it is.  Whom an orderly
\* end leaves alive is kept, and nothing else is followed.
Ends(status) ==
  /\ exit' = status /\ sup' = "ended"
  /\ phase' = "none" /\ todo' = {} /\ found' = {} /\ known' = {}
  /\ rounds' = 0
  /\ life' = [p \in Procs |->
               IF ~ namespace /\ p \in Living /\ status \in {"124", "other"}
                 THEN life[p] ELSE "gone"]
  /\ parent' = [p \in Procs |-> Above]

Killed(ps) == [p \in Procs |-> IF p \in ps \cap Living THEN "dying" ELSE life[p]]

-----------------------------------------------------------------------------
(* The supervisor.                                                         *)

At(place) == sup = place /\ exit = "running"

\* The challenge is read and the handlers are set.
SetUp ==
  /\ At("setup") /\ challenge
  /\ sup' = "launch"
  /\ UNCHANGED <<treeVars, exit, stop_signal, root_returncode, scanVars, proof, runVars>>

\* SETUP_FAILED_EXIT_CODE, of the setup or of the launch.
SetUpFails ==
  /\ At("setup") \/ At("launch")
  /\ Ends("126")
  /\ UNCHANGED <<namespace, histVars, stop_signal, root_returncode, proof, runVars>>

Launch ==
  /\ At("launch")
  /\ sup' = "loop"
  /\ life' = [life EXCEPT ![Root] = "alive"]
  /\ UNCHANGED <<namespace, parent, histVars, exit, stop_signal, root_returncode,
                 scanVars, proof, runVars>>

\* Starts to list /proc for a purpose.
Scan(for) ==
  sup' = "list" /\ phase' = for /\ todo' = {} /\ found' = {}

\* The main loop looks at the stop signal,
CheckStop ==
  /\ At("loop")
  /\ IF stop_signal
       THEN Scan("term")
       ELSE sup' = "poll" /\ UNCHANGED <<phase, todo, found>>
  /\ UNCHANGED <<treeVars, exit, stop_signal, root_returncode, known, rounds, proof,
                 runVars>>

\* A reading of /proc goes well, or it does not.
Reads(well) ==
  /\ well \/ Room
  /\ failures' = IF well THEN failures ELSE failures + 1
  /\ UNCHANGED forks

\* Zombies are reaped: the command by root.poll, where the caller has polled,
\* and by _reap_orphaned_children the orphans whose entries it can read.
Reap(polled, well) ==
  \E reaped \in SUBSET {p \in Procs : life[p] = "zombie"} :
    /\ \A p \in Procs : life[p] = "zombie" =>
         IF p = Root THEN p \in reaped <=> polled ELSE well => p \in reaped
    /\ life' = [p \in Procs |-> IF p \in reaped THEN "gone" ELSE life[p]]

\* then at the command: a status like that of a timeout is possible.
Poll ==
  /\ At("poll")
  /\ IF life[Root] = "zombie"
       THEN /\ life' = [life EXCEPT ![Root] = "gone"]
            /\ root_returncode' \in {"124", "other"}
            /\ Scan("leave")
            /\ UNCHANGED histVars
       ELSE /\ \E well \in BOOLEAN : Reads(well) /\ Reap(FALSE, well)
            /\ sup' = "loop"
            /\ UNCHANGED <<root_returncode, phase, todo, found>>
  /\ UNCHANGED <<namespace, parent, exit, stop_signal, known, rounds, proof, runVars>>

\* _linux_process_table: the directory is listed, after the loops of
\* _terminate_descendants have polled the command and reaped orphans.  A
\* directory that cannot be listed is taken for an empty one,
List ==
  /\ At("list")
  /\ sup' = "read"
  /\ \E well, listed \in BOOLEAN :
       /\ Reads(well) /\ (well => listed)
       /\ IF phase \in {"terms", "kills", "final"}
            THEN Reap(phase # "final", well) ELSE UNCHANGED life
       /\ todo' = IF listed THEN {p \in Procs : life'[p] \notin {"unborn", "gone"}}
                  ELSE {}
  /\ UNCHANGED <<namespace, parent, exit, stop_signal, root_returncode, phase, found,
                 known, rounds, proof, runVars>>

\* then each entry is read, if it is still there; one that cannot be read or
\* decoded is skipped.  _descendants closes the table under parents; a parent
\* has the lower id and is read before.
Read ==
  /\ At("read") /\ todo # {}
  /\ \E p \in todo, well \in BOOLEAN :
       /\ \A q \in todo : p <= q
       /\ Reads(well)
       /\ todo' = todo \ {p}
       /\ found' = IF well /\ life[p] # "gone" /\ parent[p] \in found \cup {Above}
                     THEN found \cup {p} ELSE found
  /\ sup' = IF todo' = {} THEN "decide" ELSE "read"
  /\ UNCHANGED <<namespace, life, parent, exit, stop_signal, root_returncode, phase,
                 known, rounds, proof, runVars>>

NothingListed ==
  /\ At("read") /\ todo = {}
  /\ sup' = "decide"
  /\ UNCHANGED <<treeVars, exit, stop_signal, root_returncode, scanVars, proof, runVars>>

\* What was met in any scan and is alive; refresh of _terminate_descendants reads
\* /proc again to tell which of it is (_identity_is_alive), and takes for dead
\* what it cannot read.  (What is dead stays dead, and is not kept in known.)
Met == (known \cup found) \cap Living

\* SIGKILL to what refresh has found alive, except what another reading misses
\* and what refuses it with a PermissionError.
Kill(live) ==
  \E spared \in SUBSET live :
    /\ Reads(live = Met /\ spared = {})
    /\ life' = Killed(live \ spared)

\* Mutant: whether anything is left of it is not asked.
DecideLeaveAtOnce ==
  /\ At("decide") /\ phase = "leave"
  /\ Ends(root_returncode)
  /\ UNCHANGED <<namespace, histVars, stop_signal, root_returncode, proof, runVars>>

\* The command has ended: is anything left of it?
DecideLeave ==
  /\ At("decide") /\ phase = "leave"
  /\ IF found = {}
       THEN Ends(root_returncode)
       ELSE Scan("term") /\ UNCHANGED <<exit, life, parent, known, rounds>>
  /\ UNCHANGED <<namespace, histVars, stop_signal, root_returncode, proof, runVars>>

\* SIGTERM to everything alive, again and again until the grace is over.  What
\* a process does about it is its own affair.
DecideTerm ==
  /\ At("decide") /\ phase \in {"term", "terms"}
  /\ known' = Met
  /\ \E live \in SUBSET Met :
       /\ Reads(live = Met)
       /\ \/ phase = "terms" /\ live = {} /\ Scan("kill")
          \/ (phase = "term" \/ live # {}) /\ \E next \in {"terms", "kill"} : Scan(next)
  /\ UNCHANGED <<namespace, life, parent, exit, stop_signal, root_returncode, rounds,
                 proof, runVars>>

\* SIGKILL to what is still alive, again and again until the grace is over.
DecideKill ==
  /\ At("decide") /\ phase \in {"kill", "kills"}
  /\ known' = Met
  /\ \E live \in SUBSET Met :
       /\ Kill(live)
       /\ \/ /\ live # {} /\ Scan("kills")
          \/ sup' = "wait" /\ phase' = "none" /\ todo' = {} /\ found' = {}
  /\ UNCHANGED <<namespace, parent, exit, stop_signal, root_returncode, rounds, proof,
                 runVars>>

\* root.wait, or else root.kill and another wait.
WaitForRoot ==
  /\ At("wait")
  /\ life' = IF life[Root] = "zombie" THEN [life EXCEPT ![Root] = "gone"]
             ELSE Killed({Root})
  /\ rounds' = 0
  /\ Scan("final")
  /\ UNCHANGED <<namespace, parent, histVars, exit, stop_signal, root_returncode, known,
                 proof, runVars>>

\* root.kill is refused, and nothing catches the PermissionError.
RootRefuses ==
  /\ At("wait") /\ life[Root] = "alive"
  /\ Reads(FALSE)
  /\ Ends("error")
  /\ UNCHANGED <<namespace, stop_signal, root_returncode, proof, runVars>>

\* The last rounds, until one finds nothing alive.
DecideFinal ==
  /\ At("decide") /\ phase = "final"
  /\ known' = Met
  /\ rounds' = rounds + 1
  /\ \E live \in SUBSET Met :
       /\ Kill(live)
       /\ Scan(IF live = {} \/ rounds' = MaxRounds THEN "verdict" ELSE "final")
  /\ UNCHANGED <<namespace, parent, exit, stop_signal, root_returncode, proof, runVars>>

\* What the last scan says is the answer.  Only a stop is proved.
Verdict ==
  /\ At("decide") /\ phase = "verdict"
  /\ \E live \in SUBSET Met :
       /\ Reads(live = Met)
       /\ IF live = {} /\ root_returncode = "none"
            THEN sup' = "prove" /\ UNCHANGED <<exit, life, parent, scanVars>>
            ELSE Ends(IF live # {} THEN "125" ELSE root_returncode)
  /\ UNCHANGED <<namespace, stop_signal, root_returncode, proof, runVars>>

Prove ==
  /\ At("prove")
  /\ proof' = TRUE /\ sup' = "proved"
  /\ UNCHANGED <<treeVars, exit, stop_signal, root_returncode, scanVars, runVars>>

\* TIMEOUT_EXIT_CODE.
Leave ==
  /\ At("proved")
  /\ Ends("124")
  /\ UNCHANGED <<namespace, histVars, stop_signal, root_returncode, proof, runVars>>

\* The host kills the supervisor.
SupervisorDies ==
  /\ sup \notin {"none", "ended"}
  /\ Ends("signal")
  /\ UNCHANGED <<namespace, histVars, stop_signal, root_returncode, proof, runVars>>

-----------------------------------------------------------------------------
(* The runner.                                                             *)

Go(from, to) == run = from /\ run' = to

Start ==
  /\ Go("start", "challenge")
  /\ sup' = "setup"
  /\ UNCHANGED <<treeVars, exit, stop_signal, root_returncode, scanVars, proof, back,
                 challenge, token, stopped, confirmed>>

\* The pipes or the process cannot be had: the error is raised.
StartFails ==
  /\ Go("start", "over")
  /\ UNCHANGED <<treeVars, supVars, proof, back, challenge, token, stopped, confirmed>>

\* The token is sent; when nobody can read it the proof is given up.
Challenge ==
  /\ Go("challenge", "poll")
  /\ challenge' = (exit = "running")
  /\ token' = IF exit = "running" THEN token ELSE "refused"
  /\ UNCHANGED <<treeVars, supVars, proof, back, stopped, confirmed>>

SeesExit ==
  /\ Go("poll", "drain")
  /\ exit # "running"
  /\ UNCHANGED <<treeVars, supVars, proof, back, challenge, token, stopped, confirmed>>

\* The deadline, or the caller's cancel_event.
GivesUp ==
  /\ Go("poll", "stop")
  /\ stopped' = TRUE /\ back' = "poll"
  /\ UNCHANGED <<treeVars, supVars, proof, challenge, token, confirmed>>

\* Reading the output fails, or the runner's own thread is interrupted.
RunnerFails ==
  /\ run \in {"challenge", "poll"}
  /\ run' = "finally"
  /\ UNCHANGED <<treeVars, supVars, proof, back, challenge, token, stopped, confirmed>>

\* SIGTERM: recorded by the handler, deadly before there is one, and without
\* effect on the init of a namespace that has none.
Signal ==
  /\ Go("stop", "wait")
  /\ exit = "running"
  /\ IF sup # "setup"
       THEN stop_signal' = TRUE /\ UNCHANGED <<sup, exit, life, parent, scanVars>>
       ELSE /\ UNCHANGED stop_signal
            /\ IF namespace THEN UNCHANGED <<sup, exit, life, parent, scanVars>>
               ELSE Ends("signal")
  /\ UNCHANGED <<namespace, histVars, root_returncode, proof, back, challenge,
                 token, stopped, confirmed>>

\* What a caller of _terminate_process_tree does with the answer.
Answered(ok) ==
  /\ run' = CASE back = "poll" -> "drain"
              [] back = "drain" -> "finally"
              [] back = "finally" -> "over"
  /\ confirmed' = CASE back = "poll" -> ok
                    [] back = "drain" /\ stopped -> confirmed \/ ok
                    [] OTHER -> confirmed

\* _kill_outer_session; the supervisor may have ended just before.
KillSession ==
  /\ Answered(FALSE)
  /\ IF exit = "running"
       THEN Ends("signal")
       ELSE UNCHANGED <<exit, sup, life, parent, scanVars>>
  /\ UNCHANGED <<namespace, histVars, stop_signal, root_returncode, proof, back,
                 challenge, token, stopped>>

\* _signal_namespace_supervisor does not find the supervisor in time.
NotFound == run = "stop" /\ namespace /\ KillSession

\* Mutant: process.wait has no timeout.
WaitTimesOutNever == FALSE /\ UNCHANGED vars

\* _SUPERVISOR_SHUTDOWN_SECONDS are over.
WaitTimesOut == run = "wait" /\ KillSession

\* The supervisor has ended: its status and its proof are the answer, and the
\* proof pipe can be read once.
Attest ==
  /\ run \in {"stop", "wait"}
  /\ exit # "running"
  /\ token' = IF exit # "124" \/ token # "unread" THEN token
              ELSE IF proof THEN "matched" ELSE "refused"
  /\ Answered(exit = "124" /\ token' = "matched")
  /\ UNCHANGED <<treeVars, supVars, proof, back, challenge, stopped>>

\* The output ends,
Drained ==
  /\ Go("drain", "finally")
  /\ UNCHANGED <<treeVars, supVars, proof, back, challenge, token, stopped, confirmed>>

\* or a process that is left holds a pipe.
StillHeld ==
  /\ Go("drain", "stop")
  /\ back' = "drain"
  /\ UNCHANGED <<treeVars, supVars, proof, challenge, token, stopped, confirmed>>

\* Mutant: a supervisor that still runs is neither terminated nor reaped.
FinallyCareless ==
  /\ Go("finally", "over")
  /\ UNCHANGED <<treeVars, supVars, proof, back, challenge, token, stopped, confirmed>>

\* The finally block terminates a supervisor that still runs, and kills it when
\* even that fails.
Finally ==
  /\ Go("finally", IF exit = "running" THEN "stop" ELSE "over")
  /\ back' = "finally"
  /\ UNCHANGED <<treeVars, supVars, proof, challenge, token, stopped, confirmed>>

Runner ==
  \/ Start \/ StartFails \/ Challenge \/ SeesExit \/ GivesUp \/ RunnerFails
  \/ Signal \/ NotFound \/ WaitTimesOut \/ Attest
  \/ Drained \/ StillHeld \/ Finally

Next ==
  \/ \E p \in Procs : Fork(p) \/ End(p)
  \/ SetUp \/ SetUpFails \/ Launch \/ CheckStop \/ Poll
  \/ List \/ Read \/ NothingListed
  \/ DecideLeave \/ DecideTerm \/ DecideKill \/ WaitForRoot \/ RootRefuses
  \/ DecideFinal \/ Verdict \/ Prove \/ Leave \/ SupervisorDies
  \/ Runner

\* The runner's thread is scheduled and its clock goes on; nothing is assumed
\* of the supervisor and the command.
Spec == Init /\ [][Next]_vars /\ WF_vars(Runner)

-----------------------------------------------------------------------------
TypeOK ==
  /\ namespace \in BOOLEAN
  /\ life \in [Procs -> {"unborn", "alive", "dying", "zombie", "gone"}]
  /\ parent \in [Procs -> Procs \cup {Above}]
  /\ forks \in 0 .. MaxBirths /\ failures \in Nat
  /\ sup \in {"none", "setup", "launch", "loop", "poll", "list", "read", "decide",
              "wait", "prove", "proved", "ended"}
  /\ phase \in {"none", "leave", "term", "terms", "kill", "kills", "final", "verdict"}
  /\ exit \in {"running", "124", "125", "126", "other", "error", "signal"}
  /\ stop_signal \in BOOLEAN /\ root_returncode \in {"none", "124", "other"}
  /\ todo \subseteq Procs /\ found \subseteq Procs /\ known \subseteq Procs
  /\ rounds \in 0 .. MaxRounds
  /\ run \in {"start", "challenge", "poll", "stop", "wait", "drain",
              "finally", "over"}
  /\ back \in {"poll", "drain", "finally"}
  /\ challenge \in BOOLEAN /\ proof \in BOOLEAN
  /\ token \in {"unread", "matched", "refused"}
  /\ stopped \in BOOLEAN /\ confirmed \in BOOLEAN

\* A call that is over leaves no supervisor running, whether it returned or
\* raised, and a confirmed cleanup was a stop that the supervisor proved.
Inv ==
  /\ TypeOK
  /\ run = "over" => sup \in {"none", "ended"}
  /\ confirmed => stopped /\ proof /\ exit = "124"

\* A supervisor that ended in good order, with the status of the command or
\* with a confirmed cleanup, left nobody behind ("The managed command tree was
\* terminated and reaped"), with these exceptions and no others.  In a namespace
\* there is none.  Elsewhere, when every reading and every signal succeeded, a
\* child of who forked and ended in three scans of /proc in a row.  And when one
\* failed: what a finished command left, or a process with its SIGKILL pending;
\* but who never got a SIGKILL, and is left by a confirmed cleanup, was
\* overlooked or spared three times.
NobodyIsLeftBehind ==
  exit \in {"124", "other"} /\ Living # {} =>
    /\ ~ namespace
    /\ failures = 0 => forks >= 3
    /\ proof /\ (\E p \in Procs : life[p] = "alive") => forks + failures >= 3

\* The caller gets its answer, also from a supervisor that hangs in its setup,
\* does not heed the signal, or cannot be found.
RunEnds == run = "start" ~> run = "over"
=============================================================================

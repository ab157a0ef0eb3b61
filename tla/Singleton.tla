------------------------------ MODULE Singleton ------------------------------
(***************************************************************************)
(* How the daemon stays alone: the lock file and the PID file, the         *)
(* takeover from a stopped holder, the killing of competitors found in     *)
(* /proc, the phases of the start, the shutdown, and                       *)
(* hex_healthcheck.py --pre-start beside them.                             *)
(*                                                                         *)
(* flock locks an inode, not a path: a process that opened the lock file   *)
(* before somebody unlinked it locks an inode nobody else will find.  A    *)
(* process id is used once.  Signals act at once; the content of the PID   *)
(* file is written in one step; a process that has opened nothing yet, or  *)
(* has ended, does not matter.                                             *)
(***************************************************************************)
EXTENDS Integers, FiniteSets

CONSTANTS
    Proc,                \* processes that run hex_eventd.py, by their ids
    Pre,                 \* processes that run hex_healthcheck.py --pre-start
    None,                \* no process
    MaxStops,            \* bound: processes stopped from outside (state T)
    MaxCrashes           \* bound: daemons that die on their own

ASSUME ProcessesAssumption ==
    /\ None \notin Proc \cup Pre /\ Proc \cap Pre = {}
    /\ MaxStops \in Nat /\ MaxCrashes \in Nat

VARIABLES
    hasProc,             \* the system has /proc: Linux has, macOS has not
    pc,                  \* where each process is
    path,                \* the inode at LOCK_FILE, 0 if there is none
    inodes,              \* inodes created so far
    fd,                  \* the inode lock_fh refers to, 0 if it is closed
    locks,               \* processes that hold the flock of their inode
    pidFile,             \* the pid in PID_FILE, None if there is no file
    victim,              \* the pid a process has read from PID_FILE
    again,               \* retry, of _try_acquire
    hunted,              \* entries of /proc still to be visited
    killed,              \* killed: processes sent a SIGTERM, to be sent a SIGKILL
    term,                \* processes with running = False, or a SIGTERM pending
    stopped,             \* processes in state T
    stops, crashes,
    tookOver,            \* history: a lock file was unlinked
    robbed               \* history: processes whose PID file another one removed

files == <<path, inodes, fd, locks, pidFile>>
locals == <<victim, again, hunted, killed>>
signals == <<term, stopped>>
bounds == <<stops, crashes>>
history == <<hasProc, tookOver, robbed>>
vars == <<pc, files, locals, signals, bounds, history>>

All == Proc \cup Pre
Gone == {"new", "dead"}
Alive == {p \in Proc : pc[p] \notin Gone}

\* The signal handlers are installed when the loop begins.
Handles(p) == pc[p] \in {"serve", "close", "release", "remove"}

\* From the cleaning of the journal files on the process uses the database.
UsesDb(p) == pc[p] \in {"clean", "verify", "init", "serve", "close"}

Phases ==
    {"new", "open", "flock", "read", "ps", "kill", "unlink", "unlinkpid", "writepid",
     "list", "term", "sleep", "clean", "verify", "init", "serve", "close", "release",
     "remove", "dead"}

TypeOK ==
    /\ pc \in [All -> Phases]
    /\ inodes \in Nat /\ path \in 0 .. inodes /\ fd \in [Proc -> 0 .. inodes]
    /\ locks \subseteq Alive
    /\ pidFile \in Proc \cup {None} /\ victim \in [All -> Proc \cup {None}]
    /\ again \in [Proc -> BOOLEAN]
    /\ hunted \in [All -> SUBSET Proc] /\ killed \in [All -> SUBSET Proc]
    /\ term \subseteq Alive /\ stopped \subseteq Alive
    /\ stops \in Nat /\ crashes \in Nat
    /\ hasProc \in BOOLEAN /\ tookOver \in BOOLEAN /\ robbed \subseteq Proc
    /\ \A p, q \in locks : p # q => fd[p] # fd[q]

Init ==
    /\ pc = [p \in All |-> "new"]
    /\ path = 0 /\ inodes = 0 /\ fd = [p \in Proc |-> 0] /\ locks = {}
    /\ pidFile = None /\ victim = [p \in All |-> None]
    /\ again = [p \in Proc |-> TRUE]
    /\ hunted = [p \in All |-> {}] /\ killed = [p \in All |-> {}]
    /\ term = {} /\ stopped = {}
    /\ stops = 0 /\ crashes = 0
    /\ hasProc \in BOOLEAN /\ tookOver = FALSE /\ robbed = {}

Runs(p, at) == pc[p] = at /\ p \notin stopped
Goto(p, to) == pc' = [pc EXCEPT ![p] = to]

\* A process ends: its files are closed, and with them its lock.
Ends(p) ==
    /\ pc' = [pc EXCEPT ![p] = "dead"]
    /\ fd' = [fd EXCEPT ![p] = 0] /\ locks' = locks \ {p}
    /\ term' = term \ {p} /\ stopped' = stopped \ {p}

RemovePidFile(p) ==
    /\ pidFile' = None
    /\ robbed' = robbed \cup ({pidFile} \ {None, p})
    /\ UNCHANGED <<hasProc, tookOver>>

-----------------------------------------------------------------------------
(* _acquire_singleton_lock                                                 *)

Launch(p) ==
    /\ pc[p] = "new" /\ Goto(p, "open")
    /\ UNCHANGED <<files, locals, signals, bounds, history>>

\* Mutant of OpenLockFile: the PID file is written before the lock is held.
OpenAndWritePid(p) ==
    /\ Runs(p, "open") /\ Goto(p, "flock")
    /\ pidFile' = p
    /\ IF path = 0
       THEN inodes' = inodes + 1 /\ path' = inodes' /\ fd' = [fd EXCEPT ![p] = inodes']
       ELSE fd' = [fd EXCEPT ![p] = path] /\ UNCHANGED <<inodes, path>>
    /\ UNCHANGED <<locks, locals, signals, bounds, history>>

OpenLockFile(p) ==
    /\ Runs(p, "open") /\ Goto(p, "flock")
    /\ IF path = 0
       THEN inodes' = inodes + 1 /\ path' = inodes' /\ fd' = [fd EXCEPT ![p] = inodes']
       ELSE fd' = [fd EXCEPT ![p] = path] /\ UNCHANGED <<inodes, path>>
    /\ UNCHANGED <<locks, pidFile, locals, signals, bounds, history>>

LockedByAnother(p) == \E q \in locks : fd[q] = fd[p]

\* Mutant of FlockSucceeds: a shared lock.
FlockShared(p) ==
    /\ Runs(p, "flock")
    /\ Goto(p, "writepid") /\ locks' = locks \cup {p}
    /\ UNCHANGED <<path, inodes, fd, pidFile, locals, signals, bounds, history>>

FlockSucceeds(p) ==
    /\ Runs(p, "flock") /\ ~LockedByAnother(p)
    /\ Goto(p, "writepid") /\ locks' = locks \cup {p}
    /\ UNCHANGED <<path, inodes, fd, pidFile, locals, signals, bounds, history>>

FlockFails(p) ==
    /\ Runs(p, "flock") /\ LockedByAnother(p) /\ again[p]
    /\ Goto(p, "read") /\ fd' = [fd EXCEPT ![p] = 0]
    /\ UNCHANGED <<path, inodes, locks, pidFile, locals, signals, bounds, history>>

\* "another instance is already running, exiting"
FlockFailsAgain(p) ==
    /\ Runs(p, "flock") /\ LockedByAnother(p) /\ ~again[p]
    /\ Ends(p)
    /\ UNCHANGED <<path, inodes, pidFile, locals, bounds, history>>

ReadPidFile(p) ==
    /\ Runs(p, "read") /\ pidFile # None
    /\ victim' = [victim EXCEPT ![p] = pidFile] /\ Goto(p, "ps")
    /\ UNCHANGED <<files, again, hunted, killed, signals, bounds, history>>

ReadNoPidFile(p) ==
    /\ Runs(p, "read") /\ pidFile = None
    /\ Ends(p)
    /\ UNCHANGED <<path, inodes, pidFile, locals, bounds, history>>

\* ps -p: state T, any other state, or no such process.
SeeStopped(p) ==
    /\ Runs(p, "ps") /\ victim[p] \in stopped
    /\ Goto(p, "kill")
    /\ UNCHANGED <<files, locals, signals, bounds, history>>

SeeRunning(p) ==
    /\ Runs(p, "ps") /\ victim[p] \notin stopped
    /\ Ends(p)
    /\ UNCHANGED <<path, inodes, pidFile, locals, bounds, history>>

\* The holder may run again by now: it is killed all the same.
KillHolder(p) ==
    /\ Runs(p, "kill") /\ victim[p] \in Alive
    /\ pc' = [pc EXCEPT ![p] = "unlink", ![victim[p]] = "dead"]
    /\ fd' = [fd EXCEPT ![victim[p]] = 0] /\ locks' = locks \ {victim[p]}
    /\ term' = term \ {victim[p]} /\ stopped' = stopped \ {victim[p]}
    /\ UNCHANGED <<path, inodes, pidFile, locals, bounds, history>>

\* A dead process that was not waited for yet can be killed once more.
KillZombie(p) ==
    /\ Runs(p, "kill") /\ victim[p] \notin Alive
    /\ Goto(p, "unlink")
    /\ UNCHANGED <<files, locals, signals, bounds, history>>

KillNobody(p) ==
    /\ Runs(p, "kill") /\ victim[p] \notin Alive
    /\ Ends(p)
    /\ UNCHANGED <<path, inodes, pidFile, locals, bounds, history>>

\* Whoever has created or locked a file at this path in the meantime.
UnlinkLockFile(p) ==
    /\ Runs(p, "unlink") /\ Goto(p, "unlinkpid")
    /\ path' = 0 /\ tookOver' = TRUE
    /\ UNCHANGED <<inodes, fd, locks, pidFile, locals, signals, bounds, hasProc, robbed>>

UnlinkPidFile(p) ==
    /\ Runs(p, "unlinkpid") /\ Goto(p, "open")
    /\ RemovePidFile(p) /\ again' = [again EXCEPT ![p] = FALSE]
    /\ UNCHANGED <<path, inodes, fd, locks, victim, hunted, killed, signals, bounds>>

WritePidFile(p) ==
    /\ Runs(p, "writepid") /\ Goto(p, "list")
    /\ pidFile' = p
    /\ UNCHANGED <<path, inodes, fd, locks, locals, signals, bounds, history>>

-----------------------------------------------------------------------------
(* _kill_competing_hex_eventd_processes, _kill_stale_hex_eventd            *)

\* What follows when no competitor was found, or all were killed.
AfterKilling(p) == IF p \in Pre THEN "read" ELSE "clean"

\* Mutant of ListProc: only daemons that have reached their loop.
ListServing(p) ==
    /\ Runs(p, "list")
    /\ hunted' = [hunted EXCEPT ![p] = IF hasProc THEN {q \in Alive \ {p} : Handles(q)} ELSE {}]
    /\ Goto(p, "term")
    /\ UNCHANGED <<files, victim, again, killed, signals, bounds, history>>

ListProc(p) ==
    /\ Runs(p, "list")
    /\ hunted' = [hunted EXCEPT ![p] = IF hasProc THEN Alive \ {p} ELSE {}]
    /\ Goto(p, "term")
    /\ UNCHANGED <<files, victim, again, killed, signals, bounds, history>>

\* SIGTERM: pending in a stopped process, running = False in the loop, the end
\* before it.
Terminate(p, q) ==
    /\ Runs(p, "term") /\ q \in hunted[p] /\ q \in Alive
    /\ hunted' = [hunted EXCEPT ![p] = @ \ {q}]
    /\ killed' = [killed EXCEPT ![p] = @ \cup {q}]
    /\ IF q \in stopped \/ Handles(q)
       THEN term' = term \cup {q} /\ UNCHANGED <<pc, fd, locks, stopped>>
       ELSE Ends(q)
    /\ UNCHANGED <<path, inodes, pidFile, victim, again, bounds, history>>

\* Its /proc entry is gone.
MissOne(p, q) ==
    /\ Runs(p, "term") /\ q \in hunted[p] /\ q \notin Alive
    /\ hunted' = [hunted EXCEPT ![p] = @ \ {q}]
    /\ UNCHANGED <<pc, files, victim, again, killed, signals, bounds, history>>

EndTerminate(p) ==
    /\ Runs(p, "term") /\ hunted[p] = {}
    /\ Goto(p, IF killed[p] = {} THEN AfterKilling(p) ELSE "sleep")
    /\ UNCHANGED <<files, locals, signals, bounds, history>>

\* SIGKILL, after a second or two.
KillOne(p, q) ==
    /\ Runs(p, "sleep") /\ q \in killed[p]
    /\ killed' = [killed EXCEPT ![p] = @ \ {q}]
    /\ IF q \in Alive THEN Ends(q) ELSE UNCHANGED <<pc, fd, locks, signals>>
    /\ UNCHANGED <<path, inodes, pidFile, victim, again, hunted, bounds, history>>

EndKill(p) ==
    /\ Runs(p, "sleep") /\ killed[p] = {}
    /\ Goto(p, AfterKilling(p))
    /\ UNCHANGED <<files, locals, signals, bounds, history>>

-----------------------------------------------------------------------------
(* The other phases of run_daemon                                          *)

CleanStaleDbFiles(p) ==
    /\ Runs(p, "clean") /\ Goto(p, "verify")
    /\ UNCHANGED <<files, locals, signals, bounds, history>>

VerifyDbWritable(p) ==
    /\ Runs(p, "verify") /\ Goto(p, "init")
    /\ UNCHANGED <<files, locals, signals, bounds, history>>

\* startup_catchup, then the signal handlers.
Initialize(p) ==
    /\ Runs(p, "init") /\ Goto(p, "serve")
    /\ UNCHANGED <<files, locals, signals, bounds, history>>

\* "DB not writable after cleanup": the lock is closed, the PID file stays.
VerifyFails(p) ==
    /\ Runs(p, "verify") /\ Ends(p)
    /\ UNCHANGED <<path, inodes, pidFile, locals, bounds, history>>

\* "DB lock recovery failed": the same, from the loop.
GiveUp(p) ==
    /\ Runs(p, "serve") /\ Ends(p)
    /\ UNCHANGED <<path, inodes, pidFile, locals, bounds, history>>

Crash(p) ==
    /\ p \in Alive /\ crashes < MaxCrashes
    /\ crashes' = crashes + 1
    /\ Ends(p)
    /\ UNCHANGED <<path, inodes, pidFile, locals, stops, history>>

LeaveLoop(p) ==
    /\ Runs(p, "serve") /\ p \in term /\ Goto(p, "close")
    /\ UNCHANGED <<files, locals, signals, bounds, history>>

CloseDb(p) ==
    /\ Runs(p, "close") /\ Goto(p, "release")
    /\ UNCHANGED <<files, locals, signals, bounds, history>>

ReleaseLock(p) ==
    /\ Runs(p, "release") /\ Goto(p, "remove")
    /\ fd' = [fd EXCEPT ![p] = 0] /\ locks' = locks \ {p}
    /\ UNCHANGED <<path, inodes, pidFile, locals, signals, bounds, history>>

\* The PID file may be the successor's by now.
RemoveFiles(p) ==
    /\ Runs(p, "remove")
    /\ RemovePidFile(p)
    /\ Ends(p)
    /\ UNCHANGED <<path, inodes, locals, bounds>>

-----------------------------------------------------------------------------
(* hex_healthcheck.py --pre-start                                          *)

PreStart(p) ==
    /\ p \in Pre /\ pc[p] = "new" /\ Goto(p, "list")
    /\ UNCHANGED <<files, locals, signals, bounds, history>>

\* _clean_lock_files: the file of a live process is left alone.
PreReadPid(p) ==
    /\ pc[p] = "read"
    /\ victim' = [victim EXCEPT ![p] = pidFile]
    /\ Goto(p, IF pidFile = None \/ pidFile \in Alive THEN "clean" ELSE "unlinkpid")
    /\ UNCHANGED <<files, again, hunted, killed, signals, bounds, history>>

\* ... the file of a dead one is removed, whosever it is by now.
PreRemovePid(p) ==
    /\ pc[p] = "unlinkpid" /\ Goto(p, "clean")
    /\ RemovePidFile(p)
    /\ UNCHANGED <<path, inodes, fd, locks, locals, signals, bounds>>

PreCleanDb(p) ==
    /\ pc[p] = "clean" /\ Goto(p, "dead")
    /\ UNCHANGED <<files, locals, signals, bounds, history>>

-----------------------------------------------------------------------------
(* The system                                                              *)

\* SIGSTOP, SIGCONT and SIGTERM from outside.
Stop(p) ==
    /\ p \in Alive \ stopped /\ stops < MaxStops
    /\ stopped' = stopped \cup {p} /\ stops' = stops + 1
    /\ UNCHANGED <<pc, files, locals, term, crashes, history>>

Continue(p) ==
    /\ p \in stopped
    /\ IF p \in term /\ ~Handles(p) THEN Ends(p)
       ELSE stopped' = stopped \ {p} /\ UNCHANGED <<pc, fd, locks, term>>
    /\ UNCHANGED <<path, inodes, pidFile, locals, bounds, history>>

Shutdown(p) ==
    /\ pc[p] = "serve" /\ p \notin term
    /\ term' = term \cup {p}
    /\ UNCHANGED <<pc, files, locals, stopped, bounds, history>>

Acquire(p) ==
    \/ OpenLockFile(p) \/ FlockSucceeds(p) \/ FlockFails(p) \/ FlockFailsAgain(p)
    \/ ReadPidFile(p) \/ ReadNoPidFile(p) \/ SeeStopped(p) \/ SeeRunning(p)
    \/ KillHolder(p) \/ KillZombie(p) \/ KillNobody(p)
    \/ UnlinkLockFile(p) \/ UnlinkPidFile(p) \/ WritePidFile(p)

Kill(p) ==
    \/ ListProc(p) \/ EndTerminate(p) \/ EndKill(p)
    \/ \E q \in Proc : Terminate(p, q) \/ MissOne(p, q) \/ KillOne(p, q)

Run(p) ==
    \/ CleanStaleDbFiles(p) \/ VerifyDbWritable(p) \/ VerifyFails(p) \/ Initialize(p)
    \/ GiveUp(p) \/ LeaveLoop(p) \/ CloseDb(p) \/ ReleaseLock(p) \/ RemoveFiles(p)

Environment(p) == Launch(p) \/ Crash(p) \/ Stop(p) \/ Continue(p) \/ Shutdown(p)

PreSteps(p) == PreStart(p) \/ PreReadPid(p) \/ PreRemovePid(p) \/ PreCleanDb(p)

Next ==
    \/ \E p \in Proc : Acquire(p) \/ Kill(p) \/ Run(p) \/ Environment(p)
    \/ \E p \in Pre : Kill(p) \/ PreSteps(p)

Spec == Init /\ [][Next]_vars

-----------------------------------------------------------------------------
(* Properties                                                              *)

\* hex_eventd.py:163, "prevent multiple daemon instances": no two processes
\* use the database at once, neither on a system with /proc, nor as long as
\* no lock file was unlinked.
OneServes ==
    hasProc \/ ~tookOver => \A p, q \in Proc : UsesDb(p) /\ UsesDb(q) => p = q

\* While a daemon serves, the PID file never names another one, which a later
\* start would judge, and kill, in its place.  It is gone only if somebody else
\* removed it: a predecessor, after it had released the lock, or --pre-start.
PidFileNamesTheServer ==
    ~tookOver => \A p \in Proc :
        UsesDb(p) => pidFile = p \/ (pidFile = None /\ p \in robbed)
=============================================================================

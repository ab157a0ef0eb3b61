---------------------------- MODULE DaemonProofs ----------------------------
(***************************************************************************)
(* Theorems about the process of the daemon: that it is alone (Singleton)  *)
(* and that it notices when it does not work (Health).                     *)
(*                                                                         *)
(* Singleton, for any number of daemons, of --pre-start runs, of stops and *)
(* of crashes.  OneServes has two independent reasons, and neither is      *)
(* inductive as it stands.  With /proc: of two live daemons that have      *)
(* listed the processes, the one that listed later has the other one among *)
(* those it still has to kill (ListInv).  Without a takeover: all          *)
(* descriptors refer to the one inode at the path, which one process locks *)
(* (LockInv).                                                              *)
(*                                                                         *)
(* Health, for any thresholds, any clock and any number of events and      *)
(* locks.  A stall is reported because nothing hides the queue from a      *)
(* daemon that was not harmed: SightInv follows the connection from the    *)
(* error that leaves its transaction open to the read that pins it.        *)
(***************************************************************************)
EXTENDS Singleton, Health, TLAPS

\* Phases after the listing, and those after the killing.
Listed(p) ==
    pc[p] \in {"term", "sleep", "clean", "verify", "init", "serve", "close", "release", "remove"}
Past(p) == pc[p] \in {"clean", "verify", "init", "serve", "close", "release", "remove"}

\* What p still has to kill.
Prey(p) == hunted[p] \cup killed[p]

ListInv ==
    /\ \A p \in Proc : pc[p] = "sleep" => hunted[p] = {}
    /\ \A p \in Proc : Past(p) => Prey(p) = {}
    /\ hasProc => \A p, q \in Proc :
           Listed(p) /\ Listed(q) /\ p # q => q \in Prey(p) \/ p \in Prey(q)

\* The phases in which a daemon holds the lock, and those after it has
\* written its pid.
Holds(p) == pc[p] \in {"writepid", "list", "term", "sleep", "clean", "verify", "init",
                       "serve", "close", "release"}
Written(p) == Holds(p) /\ pc[p] # "writepid"

LockInv ==
    /\ \A p \in Proc : pc[p] = "flock" \/ p \in locks => fd[p] # 0
    /\ \A p \in locks : Holds(p)
    /\ ~tookOver =>
        /\ \A p \in Proc : fd[p] # 0 => fd[p] = path
        /\ \A p \in Proc : pc[p] # "unlinkpid"
        /\ \A p \in Proc : Holds(p) => p \in locks
        /\ \A p \in Proc : Written(p) => pidFile = p \/ (pidFile = None /\ p \in robbed)

IndInv == TypeOK /\ ListInv /\ LockInv

-----------------------------------------------------------------------------
\* The initial state satisfies the inductive invariant.
LEMMA InitInv == Init => IndInv
<1> SUFFICES ASSUME Init PROVE IndInv
  OBVIOUS
<1>1. TypeOK
  <2>1. /\ pc \in [All -> Phases] /\ victim \in [All -> Proc \cup {None}]
        /\ hunted \in [All -> SUBSET Proc] /\ killed \in [All -> SUBSET Proc]
    BY DEF Init, All, Phases
  <2>2. again \in [Proc -> BOOLEAN] /\ hasProc \in BOOLEAN
    BY DEF Init
  <2>3. fd \in [Proc -> 0 .. inodes] /\ path \in 0 .. inodes /\ inodes \in Nat
    BY DEF Init
  <2> QED
    BY <2>1, <2>2, <2>3 DEF Init, TypeOK
<1>2. ListInv /\ LockInv
  BY ProcessesAssumption DEF Init, All, ListInv, LockInv, Listed, Past, Prey, Holds, Written
<1> QED
  BY <1>1, <1>2 DEF IndInv

\* Only the one process that is locked in has the inode at the path.
LEMMA OneHolder ==
  ASSUME TypeOK, LockInv, ~tookOver, NEW p \in Proc, NEW q \in Proc, Holds(p), Holds(q)
  PROVE  p = q
  BY DEF TypeOK, LockInv

\* With or without /proc: the inductive invariant is strong enough.
LEMMA InvImplies == IndInv => OneServes /\ PidFileNamesTheServer
<1> SUFFICES ASSUME IndInv PROVE OneServes /\ PidFileNamesTheServer
  OBVIOUS
<1>1. ASSUME hasProc, NEW p \in Proc, NEW q \in Proc, UsesDb(p), UsesDb(q) PROVE p = q
  BY <1>1 DEF IndInv, ListInv, UsesDb, Listed, Past
<1>2. ASSUME ~tookOver, NEW p \in Proc, NEW q \in Proc, UsesDb(p), UsesDb(q) PROVE p = q
  BY <1>2, OneHolder DEF IndInv, UsesDb, Holds
<1>3. PidFileNamesTheServer
  BY DEF IndInv, LockInv, PidFileNamesTheServer, UsesDb, Holds, Written
<1> QED
  BY <1>1, <1>2, <1>3 DEF OneServes

-----------------------------------------------------------------------------
(* The steps, grouped by what they do.                                     *)

\* Only the program counter moves, or a pid is read.
Quietly(p) ==
    \/ Launch(p) \/ SeeStopped(p) \/ KillZombie(p) \/ CleanStaleDbFiles(p)
    \/ VerifyDbWritable(p) \/ Initialize(p) \/ LeaveLoop(p) \/ CloseDb(p)
    \/ ReadPidFile(p)

\* The process ends, or dies.
Leaves(p) ==
    \/ FlockFailsAgain(p) \/ ReadNoPidFile(p) \/ SeeRunning(p) \/ KillNobody(p)
    \/ VerifyFails(p) \/ GiveUp(p) \/ RemoveFiles(p) \/ Crash(p)

\* The steps on the lock file and the PID file.
Locks(p) ==
    \/ OpenLockFile(p) \/ FlockSucceeds(p) \/ FlockFails(p) \/ UnlinkLockFile(p)
    \/ UnlinkPidFile(p) \/ WritePidFile(p) \/ ReleaseLock(p)

\* Signals from others.
Signals(p) ==
    \/ KillHolder(p) \/ Stop(p) \/ Continue(p) \/ Shutdown(p)

\* The listing and its two ends.
Hunts(p) ==
    \/ ListProc(p) \/ EndTerminate(p) \/ EndKill(p)

\* The steps of --pre-start.
PreStarts(p) ==
    \/ PreStart(p) \/ PreReadPid(p) \/ PreRemovePid(p) \/ PreCleanDb(p)

\* One signal to one competitor.
HuntsOne(p) == \E q \in Proc : Terminate(p, q) \/ MissOne(p, q) \/ KillOne(p, q)

-----------------------------------------------------------------------------
(* Each group keeps each part of the invariant.                            *)

USE DEF Runs, Goto, Ends, files, locals, signals, bounds, history

\* A step of the program counter keeps the inductive invariant.
LEMMA QuietlyInv == ASSUME IndInv, NEW p \in Proc, Quietly(p) PROVE IndInv'
<1>1. TypeOK'
  BY ProcessesAssumption DEF IndInv, TypeOK, All, Phases, Alive, Gone, Quietly,
      Launch, SeeStopped, KillZombie, CleanStaleDbFiles, VerifyDbWritable,
      Initialize, LeaveLoop, CloseDb, ReadPidFile
<1>2. ListInv'
  BY ProcessesAssumption DEF IndInv, TypeOK, ListInv, Listed, Past, Prey, Alive,
      Gone, All, Quietly, Launch, SeeStopped, KillZombie, CleanStaleDbFiles,
      VerifyDbWritable, Initialize, LeaveLoop, CloseDb, ReadPidFile
<1>3. LockInv'
  BY ProcessesAssumption DEF IndInv, TypeOK, LockInv, Holds, Written, Alive, Gone,
      All, LockedByAnother, Quietly, Launch, SeeStopped, KillZombie,
      CleanStaleDbFiles, VerifyDbWritable, Initialize, LeaveLoop, CloseDb,
      ReadPidFile
<1> QED
  BY <1>1, <1>2, <1>3 DEF IndInv

\* The end of a process keeps the inductive invariant.
LEMMA LeavesInv == ASSUME IndInv, NEW p \in Proc, Leaves(p) PROVE IndInv'
<1>1. TypeOK'
  BY ProcessesAssumption DEF IndInv, TypeOK, All, Phases, Alive, Gone, Leaves,
      FlockFailsAgain, ReadNoPidFile, SeeRunning, KillNobody, VerifyFails, GiveUp,
      RemoveFiles, Crash, RemovePidFile
<1>2. ListInv'
  BY ProcessesAssumption DEF IndInv, TypeOK, ListInv, Listed, Past, Prey, Alive,
      Gone, All, Leaves, FlockFailsAgain, ReadNoPidFile, SeeRunning, KillNobody,
      VerifyFails, GiveUp, RemoveFiles, Crash, RemovePidFile
<1>3. LockInv'
  BY ProcessesAssumption DEF IndInv, TypeOK, LockInv, Holds, Written, Alive, Gone,
      All, LockedByAnother, Leaves, FlockFailsAgain, ReadNoPidFile, SeeRunning,
      KillNobody, VerifyFails, GiveUp, RemoveFiles, Crash, RemovePidFile
<1> QED
  BY <1>1, <1>2, <1>3 DEF IndInv

\* A step on the files keeps the inductive invariant.
LEMMA LocksInv == ASSUME IndInv, NEW p \in Proc, Locks(p) PROVE IndInv'
<1>1. ASSUME FlockSucceeds(p) PROVE TypeOK'
  <2>1. \A q \in locks : q # p /\ fd[q] # fd[p]
    BY <1>1 DEF IndInv, TypeOK, LockInv, LockedByAnother, FlockSucceeds, Holds,
        Alive
  <2> QED
    BY <1>1, <2>1 DEF IndInv, TypeOK, All, Phases, Alive, Gone, FlockSucceeds
<1>2. ASSUME OpenLockFile(p) PROVE TypeOK'
  <2>1. p \notin locks
    BY <1>2 DEF IndInv, LockInv, OpenLockFile, Holds
  <2>2. inodes' \in Nat /\ path' \in 0 .. inodes' /\ fd' \in [Proc -> 0 .. inodes']
    BY <1>2 DEF IndInv, TypeOK, OpenLockFile
  <2>3. locks' \subseteq Alive' /\ term' \subseteq Alive' /\ stopped' \subseteq Alive'
    BY <1>2 DEF IndInv, TypeOK, OpenLockFile, Alive, Gone, All
  <2>4. \A q, r \in locks' : q # r => fd'[q] # fd'[r]
    BY <1>2, <2>1 DEF IndInv, TypeOK, OpenLockFile, Alive
  <2>5. pc' \in [All -> Phases]
    BY <1>2 DEF IndInv, TypeOK, OpenLockFile, Phases
  <2> QED
    BY <1>2, <2>2, <2>3, <2>4, <2>5 DEF IndInv, TypeOK, OpenLockFile
<1>3. ASSUME FlockFails(p) PROVE TypeOK'
  <2>1. p \notin locks
    BY <1>3 DEF IndInv, LockInv, FlockFails, Holds
  <2> QED
    BY <1>3, <2>1 DEF IndInv, TypeOK, All, Phases, Alive, Gone, FlockFails
<1>4. ASSUME UnlinkLockFile(p) \/ UnlinkPidFile(p) PROVE TypeOK'
  <2>1. CASE UnlinkLockFile(p)
    BY <2>1 DEF IndInv, TypeOK, All, Phases, Alive, Gone, UnlinkLockFile
  <2>2. CASE UnlinkPidFile(p)
    BY <2>2 DEF IndInv, TypeOK, All, Phases, Alive, Gone, UnlinkPidFile, RemovePidFile
  <2> QED
    BY <1>4, <2>1, <2>2
<1>5. ASSUME WritePidFile(p) \/ ReleaseLock(p) PROVE TypeOK'
  BY <1>5, ProcessesAssumption DEF IndInv, TypeOK, All, Phases, Alive, Gone,
      WritePidFile, ReleaseLock
<1>6. ListInv'
  BY ProcessesAssumption DEF IndInv, TypeOK, ListInv, Listed, Past, Prey, Alive,
      Gone, All, Locks, OpenLockFile, FlockSucceeds, FlockFails, UnlinkLockFile,
      UnlinkPidFile, WritePidFile, ReleaseLock, RemovePidFile
<1>7. LockInv'
  BY ProcessesAssumption DEF IndInv, TypeOK, LockInv, Holds, Written, Alive, Gone,
      All, LockedByAnother, Locks, OpenLockFile, FlockSucceeds, FlockFails,
      UnlinkLockFile, UnlinkPidFile, WritePidFile, ReleaseLock, RemovePidFile
<1> QED
  BY <1>1, <1>2, <1>3, <1>4, <1>5, <1>6, <1>7 DEF IndInv, Locks

\* A signal keeps the inductive invariant.
LEMMA SignalsInv == ASSUME IndInv, NEW p \in Proc, Signals(p) PROVE IndInv'
<1>1. TypeOK'
  BY ProcessesAssumption DEF IndInv, TypeOK, All, Phases, Alive, Gone, Signals,
      KillHolder, Stop, Continue, Shutdown, Handles
<1>2. ListInv'
  BY ProcessesAssumption DEF IndInv, TypeOK, ListInv, Listed, Past, Prey, Alive,
      Gone, All, Signals, KillHolder, Stop, Continue, Shutdown, Handles
<1>3. LockInv'
  BY ProcessesAssumption DEF IndInv, TypeOK, LockInv, Holds, Written, Alive, Gone,
      All, LockedByAnother, Signals, KillHolder, Stop, Continue, Shutdown, Handles
<1> QED
  BY <1>1, <1>2, <1>3 DEF IndInv

\* The listing keeps the inductive invariant.
LEMMA HuntsInv == ASSUME IndInv, NEW p \in All, Hunts(p) PROVE IndInv'
<1>1. TypeOK'
  BY ProcessesAssumption DEF IndInv, TypeOK, All, Phases, Alive, Gone, Hunts,
      ListProc, EndTerminate, EndKill, AfterKilling
<1>2. ListInv'
  BY ProcessesAssumption DEF IndInv, TypeOK, ListInv, Listed, Past, Prey, Alive,
      Gone, All, Hunts, ListProc, EndTerminate, EndKill, AfterKilling
<1>3. LockInv'
  BY ProcessesAssumption DEF IndInv, TypeOK, LockInv, Holds, Written, Alive, Gone,
      All, LockedByAnother, Hunts, ListProc, EndTerminate, EndKill, AfterKilling
<1> QED
  BY <1>1, <1>2, <1>3 DEF IndInv

\* A step of --pre-start keeps the inductive invariant.
LEMMA PreStartsInv == ASSUME IndInv, NEW p \in Pre, PreStarts(p) PROVE IndInv'
<1>1. TypeOK'
  BY ProcessesAssumption DEF IndInv, TypeOK, All, Phases, Alive, Gone, PreStarts,
      PreStart, PreReadPid, PreRemovePid, PreCleanDb, RemovePidFile
<1>2. ListInv'
  BY ProcessesAssumption DEF IndInv, TypeOK, ListInv, Listed, Past, Prey, Alive,
      Gone, All, PreStarts, PreStart, PreReadPid, PreRemovePid, PreCleanDb,
      RemovePidFile
<1>3. LockInv'
  BY ProcessesAssumption DEF IndInv, TypeOK, LockInv, Holds, Written, Alive, Gone,
      All, LockedByAnother, PreStarts, PreStart, PreReadPid, PreRemovePid,
      PreCleanDb, RemovePidFile
<1> QED
  BY <1>1, <1>2, <1>3 DEF IndInv

\* A signal to a competitor keeps the inductive invariant.
LEMMA HuntsOneInv == ASSUME IndInv, NEW p \in All, HuntsOne(p) PROVE IndInv'
<1>1. TypeOK'
  BY ProcessesAssumption DEF IndInv, TypeOK, All, Phases, Alive, Gone, HuntsOne,
      Terminate, MissOne, KillOne, Handles
<1>2. ListInv'
  BY ProcessesAssumption DEF IndInv, TypeOK, ListInv, Listed, Past, Prey, Alive,
      Gone, All, HuntsOne, Terminate, MissOne, KillOne, Handles
<1>3. LockInv'
  BY ProcessesAssumption DEF IndInv, TypeOK, LockInv, Holds, Written, Alive, Gone,
      All, LockedByAnother, HuntsOne, Terminate, MissOne, KillOne, Handles
<1> QED
  BY <1>1, <1>2, <1>3 DEF IndInv

-----------------------------------------------------------------------------
\* Every step keeps the inductive invariant.
LEMMA StepInv == IndInv /\ [Next]_vars => IndInv'
<1> SUFFICES ASSUME IndInv, [Next]_vars PROVE IndInv'
  OBVIOUS
<1>1. CASE UNCHANGED vars
  BY <1>1 DEF vars, IndInv, TypeOK, ListInv, LockInv,
      All, Alive, Gone, Listed, Past, Prey, Holds, Written
<1>2. ASSUME NEW p \in Proc, Acquire(p) \/ Run(p) \/ Environment(p) PROVE IndInv'
  BY <1>2, QuietlyInv, LeavesInv, LocksInv, SignalsInv
  DEF Acquire, Run, Environment, Quietly, Leaves, Locks, Signals
<1>3. ASSUME NEW p \in All, Kill(p) PROVE IndInv'
  BY <1>3, HuntsInv, HuntsOneInv DEF Kill, Hunts, HuntsOne
<1>4. ASSUME NEW p \in Pre, PreSteps(p) PROVE IndInv'
  BY <1>4, PreStartsInv DEF PreSteps, PreStarts
<1> QED
  BY <1>1, <1>2, <1>3, <1>4 DEF Next, All

\* The inductive invariant: types, who still has to kill whom, and the one
\* inode that is locked.
THEOREM Invariance == Spec => []IndInv
  BY InitInv, StepInv, PTL DEF Spec

\* Type correctness, with at most one lock holder for each inode.
THEOREM TypeCorrectness == Spec => []TypeOK
<1>1. IndInv => TypeOK
  BY DEF IndInv
<1> QED
  BY <1>1, Invariance, PTL

\* hex_eventd.py 65-216: no two daemons use the database at once, on a system
\* with /proc or as long as no lock file was taken over.
THEOREM OneDaemon == Spec => []OneServes
<1>1. IndInv => OneServes
  BY InvImplies
<1> QED
  BY <1>1, Invariance, PTL

\* The PID file names the daemon that serves, or another process removed it.
THEOREM HonestPidFile == Spec => []PidFileNamesTheServer
<1>1. IndInv => PidFileNamesTheServer
  BY InvImplies
<1> QED
  BY <1>1, Invariance, PTL

-----------------------------------------------------------------------------
(* Health                                                                  *)

\* What is to be processed is in the queue; no time lies ahead.
PlaceInv ==
    /\ phase = "batch" => todo <= Len(queue)
    /\ loopNow <= now /\ lastSuccess <= now /\ lastEvent <= now
    /\ started <= now /\ since <= now
    /\ file # NoReport => file.run <= run

BaseInv == HealthTypeOK /\ PlaceInv

\* busyRun counts on when a recovery has reset consecutive_db_lock_errors.
ThresholdInv ==
    /\ consecutive <= busyRun \/ Threshold <= busyRun
    /\ RecoversOnlyAfterThreshold

\* Unless it was harmed, a running daemon has a connection that shows it a
\* row if there is one, and what it takes for the last success with an event
\* is not later than the real one.
SightInv ==
    /\ conn = "closed" => phase = "down"
    /\ conn \in {"open", "snap", "stale"} => queue # <<>>
    /\ InSnapshot => seen > 0
    /\ Reference <= since
    /\ phase = "batch" => did \/ todo = batch
    /\ phase = "track" => busy \/ did \/ batch = 0

ReportInv ==
    file # NoReport /\ file.run = run =>
        (file.reallyStalled => file.stalled \/ file.state = "degraded")

StallInv == ~harmed => SightInv /\ ReportInv

-----------------------------------------------------------------------------
\* NoReport is no report, and a report has the fields of one.
LEMMA ReportType ==
  /\ NoReport \notin Report
  /\ \A r \in Report : /\ r.run \in Nat /\ r.state \in {"healthy", "degraded", "recovering"}
                       /\ r.sinceSuccess \in Nat
                       /\ r.stalled \in BOOLEAN /\ r.reallyStalled \in BOOLEAN
  /\ \A s \in {"healthy", "degraded", "recovering"}, n \in Nat, a, b \in BOOLEAN, r \in Nat :
         [run |-> r, state |-> s, sinceSuccess |-> n, stalled |-> a,
          reallyStalled |-> b] \in Report
<1>1. ASSUME NoReport \in Report PROVE FALSE
  <2>1. DOMAIN NoReport = {"run"}
    BY DEF NoReport
  <2>2. "state" \in DOMAIN NoReport
    BY <1>1 DEF Report
  <2> QED
    BY <2>1, <2>2
<1> QED
  BY <1>1 DEF Report

\* A queue that grows by a row at its end, or loses its first one.
LEMMA Queues ==
  ASSUME queue \in Seq(BOOLEAN)
  PROVE  /\ Len(queue) \in Nat
         /\ queue # <<>> <=> Len(queue) > 0
         /\ \A r \in BOOLEAN : /\ Append(queue, r) \in Seq(BOOLEAN)
                               /\ Append(queue, r) # <<>>
                               /\ Len(Append(queue, r)) = Len(queue) + 1
         /\ queue # <<>> => /\ Tail(queue) \in Seq(BOOLEAN)
                            /\ Len(Tail(queue)) = Len(queue) - 1
  OBVIOUS

\* A row more: since is not later than now.
LEMMA EnqueueType ==
  ASSUME BaseInv, NEW r \in BOOLEAN, Enqueue(r)
  PROVE  /\ queue' \in Seq(BOOLEAN) /\ Len(queue') = Len(queue) + 1 /\ queue' # <<>>
         /\ since' \in Nat /\ since <= since' /\ since' <= now
  BY Queues DEF BaseInv, HealthTypeOK, PlaceInv, Enqueue

\* A read shows at most what there is.
LEMMA ReadType ==
  ASSUME HealthTypeOK, Read
  PROVE  /\ conn' \in {"clean", "open", "snap", "stale", "closed"}
         /\ seen' \in 0 .. Len(queue)
  BY Queues DEF HealthTypeOK, Read

\* The insert of a timer event or a stall report.
LEMMA InsertType ==
  ASSUME BaseInv, InsertOrSwallow
  PROVE  /\ conn' \in {"clean", "open", "snap", "stale", "closed"}
         /\ queue' \in Seq(BOOLEAN) /\ Len(queue) <= Len(queue') /\ seen' \in 0 .. Len(queue')
         /\ since' \in Nat /\ since' <= now /\ harmed' \in BOOLEAN
<1>1. CASE CanWrite
  <2>1. conn' = "clean" /\ seen' = 0 /\ Enqueue(FALSE) /\ harmed' = harmed
    BY <1>1 DEF InsertOrSwallow, Commit
  <2>2. /\ queue' \in Seq(BOOLEAN) /\ Len(queue') = Len(queue) + 1
        /\ since' \in Nat /\ since' <= now
    BY <2>1, EnqueueType
  <2> QED
    BY <2>1, <2>2, Queues DEF BaseInv, HealthTypeOK
<1>2. CASE ~CanWrite
  <2>1. conn' \in {"clean", "open", "snap", "stale", "closed"} /\ seen' \in 0 .. Len(queue)
    BY <1>2, ReadType
    DEF InsertOrSwallow, ReadAndLeaveOpen, LeaveOpen, BaseInv, HealthTypeOK
  <2> QED
    BY <1>2, <2>1, Queues DEF InsertOrSwallow, BaseInv, HealthTypeOK, PlaceInv
<1> QED
  BY <1>1, <1>2

\* What stands in the health file once it is written.
LEMMA WriteType ==
  ASSUME BaseInv, NEW a \in BOOLEAN, NEW s \in {"healthy", "degraded", "recovering"},
         WriteFile(a, s)
  PROVE  /\ file' \in Report \cup {NoReport}
         /\ file' # NoReport /\ file'.run = run /\ file'.stalled = a /\ file'.state = s
         /\ file'.reallyStalled <=> ReallyStalled
<1>1. now - lastSuccess \in Nat /\ ReallyStalled \in BOOLEAN /\ run \in Nat
  BY DEF BaseInv, HealthTypeOK, PlaceInv, ReallyStalled
<1> QED
  BY <1>1, ReportType DEF WriteFile

-----------------------------------------------------------------------------
(* Types                                                                   *)

\* The steps of the clock and of other processes.
LEMMA OutsideBase ==
  ASSUME BaseInv,
         Clock \/ TakeDbLock \/ ReleaseDbLock \/ \E r \in {FALSE, Poison} : Publish(r)
  PROVE  BaseInv'
<1> USE DEF BaseInv
<1>1. CASE Clock
  <2>1. /\ now' = now + 1
        /\ UNCHANGED <<database, link, phase, cycle, monitor, disk, budget, hist>>
    BY <1>1 DEF Clock
  <2> QED
    BY <2>1
    DEF HealthTypeOK, PlaceInv, cycle, monitor, disk, budget, hist, database, link,
        Never
<1>2. CASE TakeDbLock \/ ReleaseDbLock
  <2>1. lockHeld' \in BOOLEAN /\ lockCount' \in Nat
    <3>1. CASE TakeDbLock
      BY <3>1 DEF TakeDbLock, HealthTypeOK
    <3>2. CASE ReleaseDbLock
      BY <3>2 DEF ReleaseDbLock, HealthTypeOK, budget
    <3> QED
      BY <1>2, <3>1, <3>2
  <2>2. UNCHANGED <<now, queue, since, link, phase, cycle, monitor, disk, published,
                    timers, run, hist>>
    BY <1>2 DEF TakeDbLock, ReleaseDbLock, budget
  <2> QED
    BY <2>1, <2>2
    DEF HealthTypeOK, PlaceInv, cycle, monitor, disk, budget, hist, database, link,
        Never
<1>3. ASSUME NEW r \in {FALSE, Poison}, Publish(r)
      PROVE  BaseInv'
  <2>1. r \in BOOLEAN
    BY ParametersAssumption
  <2>2. /\ queue' \in Seq(BOOLEAN) /\ Len(queue') = Len(queue) + 1 /\ Len(queue) \in Nat
        /\ since' \in Nat /\ since' <= now
    BY <1>3, <2>1, EnqueueType, Queues DEF Publish, HealthTypeOK
  <2>3. conn' \in {"clean", "open", "snap", "stale", "closed"} /\ published' \in Nat
    BY <1>3 DEF Publish, HealthTypeOK
  <2>4. UNCHANGED <<now, lockHeld, seen, phase, cycle, monitor, disk, timers,
                    lockCount, run, hist>>
    BY <1>3 DEF Publish
  <2> QED
    BY <2>2, <2>3, <2>4
    DEF HealthTypeOK, PlaceInv, cycle, monitor, disk, budget, hist, database, link,
        Never
<1> QED
  BY <1>1, <1>2, <1>3

\* A new run has a higher number than every report.
LEMMA StartBase ==
  ASSUME BaseInv, Start
  PROVE  BaseInv'
<1>1. Len(queue) \in Nat
  BY Queues DEF BaseInv, HealthTypeOK
<1>2. file # NoReport => file.run \in Nat
  BY ReportType DEF BaseInv, HealthTypeOK
<1>3. /\ run' = run + 1 /\ conn' = "clean" /\ seen' = 0
      /\ consecutive' = 0 /\ attempts' = 0 /\ state' = "healthy"
      /\ lastSuccess' = now /\ lastEvent' = Never /\ started' = now /\ lastWrite' = Never
      /\ busyRun' = 0 /\ harmed' \in BOOLEAN /\ since' = now /\ phase' = "idle"
  BY DEF Start
<1>4. UNCHANGED <<now, queue, lockHeld, cycle, file, published, timers, lockCount>>
  BY DEF Start
<1>5. MaxAttempts \in Nat
  BY ParametersAssumption
<1> QED
  BY <1>1, <1>2, <1>3, <1>4, <1>5 DEF cycle, BaseInv, HealthTypeOK, PlaceInv, Never

\* The steps of the cycle up to the end of its batch.
LEMMA CycleBase ==
  ASSUME BaseInv,
         TickNothing \/ TickDue \/ DrainNothing \/ GetUnprocessed \/ ProcessOne
         \/ ProcessLocked \/ ProcessRaises \/ EndBatch
  PROVE  BaseInv'
<1> USE DEF BaseInv
<1>0. Len(queue) \in Nat /\ Visible \in 0 .. Len(queue)
  BY Queues DEF HealthTypeOK, Visible, InSnapshot
<1>1. CASE TickNothing
  <2>1. Read /\ phase' = "drain" /\ loopNow' = now /\ ~busy' /\ busy' \in BOOLEAN
        /\ batch' = 0 /\ todo' = 0 /\ did' \in BOOLEAN
    BY <1>1 DEF TickNothing, BeginCycle
  <2>2. UNCHANGED <<now, database, monitor, disk, budget, hist>>
    BY <1>1 DEF TickNothing
  <2> QED
    BY <2>1, <2>2, ReadType
    DEF HealthTypeOK, PlaceInv, cycle, monitor, disk, budget, hist, database, link,
        Never
<1>2. CASE TickDue
  <2>1. InsertOrSwallow /\ phase' = "drain" /\ loopNow' = now /\ busy' \in BOOLEAN
        /\ batch' = 0 /\ todo' = 0 /\ did' \in BOOLEAN
    BY <1>2 DEF TickDue, BeginCycle
  <2>2. UNCHANGED <<now, lockHeld, monitor, disk, published, lockCount, run, busyRun>>
        /\ timers' \in Nat
    BY <1>2 DEF TickDue, HealthTypeOK
  <2> QED
    BY <2>1, <2>2, InsertType
    DEF HealthTypeOK, PlaceInv, cycle, monitor, disk, budget, hist, database, link,
        Never
<1>3. CASE DrainNothing
  <2>1. /\ Read /\ phase' = "read"
        /\ UNCHANGED <<now, database, cycle, monitor, disk, budget, hist>>
    BY <1>3 DEF DrainNothing
  <2> QED
    BY <2>1, ReadType
    DEF HealthTypeOK, PlaceInv, cycle, monitor, disk, budget, hist, database, link,
        Never
<1>4. CASE GetUnprocessed
  <2>1. Read /\ batch' \in Nat /\ todo' \in 0 .. batch' /\ todo' <= Len(queue)
        /\ phase' \in {"track", "batch"}
    BY <1>0, <1>4 DEF GetUnprocessed
  <2>2. UNCHANGED <<now, database, loopNow, busy, did, monitor, disk, budget, hist>>
    BY <1>4 DEF GetUnprocessed
  <2> QED
    BY <2>1, <2>2, ReadType
    DEF HealthTypeOK, PlaceInv, cycle, monitor, disk, budget, hist, database, link,
        Never
<1>5. CASE ProcessOne
  <2>0. phase = "batch" /\ todo > 0 /\ queue' = Tail(queue) /\ todo' = todo - 1
    BY <1>5 DEF ProcessOne
  <2>1. todo <= Len(queue) /\ todo \in Nat
    BY <2>0 DEF HealthTypeOK, PlaceInv
  <2>2. /\ queue' \in Seq(BOOLEAN) /\ Len(queue') = Len(queue) - 1 /\ Len(queue') \in Nat
        /\ todo' = todo - 1 /\ todo' \in 0 .. batch
    BY <1>0, <2>0, <2>1, Queues DEF HealthTypeOK
  <2>3. conn' = "clean" /\ seen' = 0 /\ since' = now /\ did' \in BOOLEAN
    BY <1>5 DEF ProcessOne, Commit
  <2>4. UNCHANGED <<now, lockHeld, phase, loopNow, busy, batch, monitor, disk, budget,
                    hist>>
    BY <1>5 DEF ProcessOne
  <2> QED
    BY <1>0, <2>1, <2>2, <2>3, <2>4
    DEF HealthTypeOK, PlaceInv, cycle, monitor, disk, budget, hist, database, link,
        Never
<1>6. CASE ProcessLocked
  <2>1. busy' \in BOOLEAN /\ phase' = "track" /\ seen' = seen
        /\ conn' \in {"clean", "open", "snap", "stale", "closed"}
    BY <1>6 DEF ProcessLocked, LeaveOpen, HealthTypeOK
  <2>2. UNCHANGED <<now, database, loopNow, batch, todo, did, monitor, disk, budget,
                    hist>>
    BY <1>6 DEF ProcessLocked
  <2> QED
    BY <2>1, <2>2
    DEF HealthTypeOK, PlaceInv, cycle, monitor, disk, budget, hist, database, link,
        Never
<1>7. CASE ProcessRaises \/ EndBatch
  <2>1. harmed' \in BOOLEAN /\ phase' = "track"
        /\ UNCHANGED <<now, database, link, cycle, monitor, disk, budget, busyRun>>
    BY <1>7 DEF ProcessRaises, EndBatch, HealthTypeOK, hist
  <2> QED
    BY <2>1
    DEF HealthTypeOK, PlaceInv, cycle, monitor, disk, budget, hist, database, link,
        Never
<1> QED
  BY <1>1, <1>2, <1>3, <1>4, <1>5, <1>6, <1>7

\* The health tracking, the recovery and the health file.
LEMMA TrackBase ==
  ASSUME BaseInv,
         RecordSuccess \/ BelowThreshold \/ BeginRecovery \/ GiveUpRecovery \/ Reconnect
         \/ ReconnectFails \/ NoWriteDue \/ WriteHealth
  PROVE  BaseInv'
<1> USE DEF BaseInv
<1>0. Len(queue) \in Nat
  BY Queues DEF HealthTypeOK
<1>1. CASE RecordSuccess
  <2>1. /\ consecutive' = 0 /\ state' = "healthy" /\ lastSuccess' = now
        /\ lastEvent' \in {now, lastEvent} /\ since' \in {now, since}
        /\ busyRun' = 0 /\ phase' = "report"
    BY <1>1 DEF RecordSuccess
  <2>2. UNCHANGED <<now, queue, lockHeld, link, cycle, attempts, started, disk, budget,
                    harmed>>
    BY <1>1 DEF RecordSuccess
  <2> QED
    BY <2>1, <2>2
    DEF HealthTypeOK, PlaceInv, cycle, monitor, disk, budget, hist, database, link,
        Never
<1>2. CASE BelowThreshold \/ BeginRecovery
  <2>1. /\ consecutive' \in Nat /\ busyRun' \in Nat /\ harmed' = harmed
        /\ attempts' \in 0 .. MaxAttempts /\ state' \in {"recovering", state}
        /\ phase' \in {"report", "recover"}
    <3>1. RecordLocked /\ attempts' \in {attempts,
    attempts + 1} /\ attempts' <= MaxAttempts
      BY <1>2, ParametersAssumption
      DEF BaseInv, BelowThreshold, BeginRecovery, HealthTypeOK
    <3>2. state' \in {"recovering", state} /\ phase' \in {"report", "recover"}
      BY <1>2 DEF BelowThreshold, BeginRecovery, HealthTypeOK
    <3>3. consecutive' \in Nat /\ busyRun' \in Nat
      BY <3>1 DEF RecordLocked, CountBusy, HealthTypeOK
    <3> QED
      BY <3>1, <3>2, <3>3, ParametersAssumption
      DEF BaseInv, RecordLocked, CountBusy, HealthTypeOK
  <2>2. UNCHANGED <<now, database, link, cycle, lastSuccess, lastEvent, started, disk,
                    budget>>
    BY <1>2 DEF BelowThreshold, BeginRecovery
  <2> QED
    BY <2>1, <2>2
    DEF HealthTypeOK, PlaceInv, cycle, monitor, disk, budget, hist, database, link,
        Never
<1>3. CASE GiveUpRecovery
  <2>1. file' \in Report \cup {NoReport} /\ file'.run = run
    BY <1>3, WriteType DEF GiveUpRecovery
  <2>2. /\ consecutive' \in Nat /\ busyRun' \in Nat /\ harmed' = harmed
        /\ state' = "degraded" /\ conn' = "closed" /\ seen' = 0 /\ phase' = "down"
    BY <1>3 DEF GiveUpRecovery, RecordLocked, CountBusy, HealthTypeOK
  <2>3. UNCHANGED <<now, database, cycle, attempts, lastSuccess, lastEvent, started,
                    lastWrite, budget>>
    BY <1>3 DEF GiveUpRecovery
  <2> QED
    BY <1>0, <2>1, <2>2, <2>3
    DEF HealthTypeOK, PlaceInv, cycle, monitor, disk, budget, hist, database, link,
        Never
<1>4. CASE Reconnect \/ ReconnectFails
  <2>1. /\ conn' \in {"clean", "closed"} /\ seen' = 0 /\ harmed' \in BOOLEAN /\ phase' = "report"
        /\ state' \in {"healthy", state} /\ consecutive' \in {0, consecutive}
    BY <1>4 DEF Reconnect, ReconnectFails, Commit, HealthTypeOK, monitor, hist
  <2>2. UNCHANGED <<now, database, cycle, attempts, lastSuccess, lastEvent, started,
                    disk, budget, busyRun>>
    BY <1>4 DEF Reconnect, ReconnectFails, monitor, hist
  <2> QED
    BY <1>0, <2>1, <2>2
    DEF HealthTypeOK, PlaceInv, cycle, monitor, disk, budget, hist, database, link,
        Never
<1>5. CASE NoWriteDue
  <2>1. /\ phase' = "idle"
        /\ UNCHANGED <<now, database, link, cycle, monitor, disk, budget, hist>>
    BY <1>5 DEF NoWriteDue
  <2> QED
    BY <2>1
    DEF HealthTypeOK, PlaceInv, cycle, monitor, disk, budget, hist, database, link,
        Never
<1>6. CASE WriteHealth
  <2>1. file' \in Report \cup {NoReport} /\ file'.run = run
    BY <1>6, WriteType DEF WriteHealth, StallSeen, HealthTypeOK
  <2>2. /\ conn' \in {"clean", "open", "snap", "stale", "closed"}
        /\ queue' \in Seq(BOOLEAN) /\ seen' \in 0 .. Len(queue')
        /\ since' \in Nat /\ since' <= now /\ harmed' \in BOOLEAN
    <3>1. CASE StallSeen
      BY <1>6, <3>1, InsertType DEF WriteHealth
    <3>2. CASE ~StallSeen
      <4>1. Read /\ UNCHANGED <<queue, since, harmed>>
        BY <1>6, <3>2 DEF WriteHealth
      <4> QED
        BY <4>1, ReadType
        DEF HealthTypeOK, PlaceInv, cycle, monitor, disk, budget, hist, database, link,
            Never
    <3> QED
      BY <3>1, <3>2
  <2>3. lastWrite' = loopNow /\ phase' = "idle"
        /\ UNCHANGED <<now, lockHeld, cycle, monitor, budget, busyRun>>
    BY <1>6 DEF WriteHealth
  <2> QED
    BY <2>1, <2>2, <2>3
    DEF HealthTypeOK, PlaceInv, cycle, monitor, disk, budget, hist, database, link,
        Never
<1> QED
  BY <1>1, <1>2, <1>3, <1>4, <1>5, <1>6

\* Types hold at the beginning, and after every step.
LEMMA InitBase == HealthInit => BaseInv
<1> SUFFICES ASSUME HealthInit PROVE BaseInv
  OBVIOUS
<1>1. /\ now = 0 /\ queue = <<>> /\ ~lockHeld /\ lockHeld \in BOOLEAN
      /\ ~busy /\ busy \in BOOLEAN /\ harmed \in BOOLEAN /\ did \in BOOLEAN
  BY DEF HealthInit
<1>2. queue \in Seq(BOOLEAN) /\ Len(queue) = 0
  BY <1>1
<1> QED
  BY <1>1, <1>2, ParametersAssumption
  DEF BaseInv, HealthInit, HealthTypeOK, PlaceInv, Never

LEMMA BaseStep == BaseInv /\ [HealthNext]_healthVars => BaseInv'
<1>1. ASSUME BaseInv, UNCHANGED healthVars
      PROVE  BaseInv'
  BY <1>1
  DEF healthVars, database, link, cycle, monitor, disk, budget, hist, BaseInv,
      HealthTypeOK, PlaceInv
<1>2. BaseInv /\ HealthNext => BaseInv'
  BY OutsideBase, StartBase, CycleBase, TrackBase DEF HealthNext, Daemon
<1> QED
  BY <1>1, <1>2

-----------------------------------------------------------------------------
(* The threshold                                                           *)

\* A multiple of the threshold that is not 0 is not below it.
LEMMA Multiple ==
  ASSUME NEW t \in Nat \ {0}, NEW n \in Nat \ {0}, n % t = 0
  PROVE  t <= n
  BY Z3

\* The count of locked cycles in a row is not below consecutive, until it stops
\* at the threshold.
LEMMA ThresholdStep ==
  ASSUME BaseInv, ThresholdInv, [HealthNext]_healthVars
  PROVE  ThresholdInv'
<1>0. Threshold \in Nat /\ consecutive \in Nat /\ busyRun \in Nat
  BY ParametersAssumption DEF BaseInv, HealthTypeOK
<1>a. RecordLocked => consecutive' <= busyRun' \/ Threshold <= busyRun'
  BY <1>0 DEF RecordLocked, CountBusy, ThresholdInv
<1>1. CASE BelowThreshold \/ GiveUpRecovery
  <2>1. RecordLocked /\ phase' # "recover"
    BY <1>1 DEF BelowThreshold, GiveUpRecovery
  <2> QED
    BY <1>a, <2>1 DEF ThresholdInv, RecoversOnlyAfterThreshold
<1>2. CASE BeginRecovery
  <2>1. RecordLocked /\ ShouldRecover
    BY <1>2 DEF BeginRecovery
  <2>2. Threshold <= consecutive + 1
    BY <1>0, <2>1, Multiple, ParametersAssumption DEF BaseInv, ShouldRecover
  <2>3. Threshold <= busyRun'
    BY <1>0, <2>1, <2>2 DEF RecordLocked, CountBusy, ThresholdInv
  <2> QED
    BY <1>a, <2>1, <2>3 DEF ThresholdInv, RecoversOnlyAfterThreshold
<1>3. CASE RecordSuccess \/ Start \/ Reconnect
  BY <1>0, <1>3
  DEF RecordSuccess, Start, Reconnect, hist, ThresholdInv, RecoversOnlyAfterThreshold
<1>4. CASE TickNothing \/ TickDue \/ DrainNothing \/ GetUnprocessed
  BY <1>4
  DEF TickNothing, TickDue, DrainNothing, GetUnprocessed, hist, monitor, ThresholdInv,
      RecoversOnlyAfterThreshold
<1>5. CASE ProcessOne \/ ProcessLocked \/ ProcessRaises \/ EndBatch
  BY <1>5
  DEF ProcessOne, ProcessLocked, ProcessRaises, EndBatch, hist, monitor, ThresholdInv,
      RecoversOnlyAfterThreshold
<1>6. CASE ReconnectFails \/ NoWriteDue \/ WriteHealth
  BY <1>6
  DEF ReconnectFails, NoWriteDue, WriteHealth, hist, monitor, ThresholdInv,
      RecoversOnlyAfterThreshold
<1>7. CASE Clock \/ TakeDbLock \/ ReleaseDbLock \/ \E r \in {FALSE, Poison} : Publish(r)
  BY <1>7
  DEF Clock, TakeDbLock, ReleaseDbLock, Publish, hist, monitor, ThresholdInv,
      RecoversOnlyAfterThreshold
<1>8. CASE UNCHANGED healthVars
  BY <1>8 DEF healthVars, hist, monitor, ThresholdInv, RecoversOnlyAfterThreshold
<1> QED
  BY <1>1, <1>2, <1>3, <1>4, <1>5, <1>6, <1>7, <1>8 DEF HealthNext, Daemon

\* Every variable of the cycle, of HealthMonitor and of the health file keeps its
\* type: no time lies ahead, the batch does not outrun the queue, and there are
\* never more than MaxAttempts recoveries.
THEOREM MonitorTypes == HealthSpec => []HealthTypeOK
<1>1. HealthInit => BaseInv
  BY InitBase
<1>2. BaseInv => HealthTypeOK
  BY DEF BaseInv
<1> QED
  BY <1>1, <1>2, BaseStep, PTL DEF HealthSpec

\* DB_LOCK_CONSECUTIVE_THRESHOLD: the connection is thrown away only after that
\* many locked cycles in a row, although a recovery resets the count.
THEOREM RecoveryAfterThreshold == HealthSpec => []RecoversOnlyAfterThreshold
<1>1. HealthInit => BaseInv /\ ThresholdInv
  <2>1. ASSUME HealthInit PROVE ThresholdInv
    BY <2>1 DEF HealthInit, ThresholdInv, RecoversOnlyAfterThreshold
  <2> QED
    BY <2>1, InitBase
<1>2. BaseInv /\ ThresholdInv /\ [HealthNext]_healthVars => (BaseInv /\ ThresholdInv)'
  BY BaseStep, ThresholdStep
<1>3. ThresholdInv => RecoversOnlyAfterThreshold
  BY DEF ThresholdInv
<1> QED
  BY <1>1, <1>2, <1>3, PTL DEF HealthSpec

-----------------------------------------------------------------------------
(* Stalls                                                                  *)

\* What the daemon goes by is not later than since, if only since moves.
LEMMA ReferenceKept ==
  ASSUME BaseInv, Reference <= since, since' \in {since, now}, UNCHANGED <<lastEvent,
                                                                           started>>
  PROVE  Reference' <= since'
  BY DEF BaseInv, HealthTypeOK, PlaceInv, Reference, Never

\* What is read from a snapshot that is pinned now is what there is.
LEMMA ReadShows ==
  ASSUME BaseInv, SightInv, Read, queue' = queue
  PROVE  /\ conn' = "closed" => conn = "closed"
         /\ conn' \in {"open", "snap", "stale"} => queue' # <<>>
         /\ InSnapshot' => seen' > 0
  BY Queues DEF BaseInv, HealthTypeOK, SightInv, InSnapshot, Read

\* As long as nothing is swallowed, every step of the cycle keeps sight of the queue.
LEMMA SightStep ==
  ASSUME BaseInv, SightInv, ~harmed, ~harmed',
         \/ Daemon \/ Clock \/ TakeDbLock \/ ReleaseDbLock
         \/ \E r \in {FALSE, Poison} : Publish(r)
  PROVE  SightInv'
<1>1. CASE TickNothing \/ DrainNothing
  <2>1. /\ Read /\ phase' \in {"drain", "read"} /\ phase # "down"
        /\ UNCHANGED <<queue, since, lastEvent, started>>
    BY <1>1 DEF TickNothing, DrainNothing, database, monitor
  <2> QED
    BY <2>1, ReadShows, ReferenceKept DEF SightInv
<1>2. CASE TickDue
  <2>1. /\ CanWrite /\ Commit /\ Enqueue(FALSE) /\ phase' = "drain"
        /\ UNCHANGED <<lastEvent, started>>
    BY <1>2 DEF TickDue, InsertOrSwallow, monitor
  <2>2. since' \in {since, now}
    BY <2>1 DEF Enqueue
  <2> QED
    BY <2>1, <2>2, ReferenceKept DEF SightInv, Commit, InSnapshot
<1>3. CASE GetUnprocessed
  <2>1. /\ Read /\ phase = "read" /\ UNCHANGED <<queue, since, lastEvent, started>>
        /\ batch' = todo' /\ phase' \in {"batch", "track"}
    BY <1>3 DEF GetUnprocessed, database, monitor
  <2>2. conn # "closed"
    BY <2>1 DEF SightInv
  <2>3. phase' = "batch"
    BY <1>3, <2>2 DEF GetUnprocessed
  <2> QED
    BY <2>1, <2>3, ReadShows, ReferenceKept DEF SightInv
<1>4. CASE ProcessOne
  <2>1. /\ Commit /\ phase' = "batch" /\ since' = now /\ did'
        /\ UNCHANGED <<lastEvent, started>>
    BY <1>4 DEF ProcessOne, monitor
  <2> QED
    BY <2>1, ReferenceKept DEF SightInv, Commit, InSnapshot
<1>5. CASE ProcessLocked
  <2>0. phase = "batch" /\ todo > 0
    BY <1>5 DEF ProcessLocked
  <2>1. queue # <<>>
    BY <2>0, Queues DEF BaseInv, HealthTypeOK, PlaceInv
  <2>2. /\ conn' = (IF conn = "clean" THEN "open" ELSE conn) /\ seen' = seen
        /\ phase' = "track" /\ busy' /\ UNCHANGED <<queue, since, lastEvent, started>>
    BY <1>5 DEF ProcessLocked, LeaveOpen, database, monitor
  <2> QED
    BY <2>0, <2>1, <2>2, ReferenceKept DEF SightInv, InSnapshot
<1>6. CASE ProcessRaises \/ ReconnectFails
  BY <1>6 DEF ProcessRaises, ReconnectFails
<1>7. CASE EndBatch
  <2>1. /\ phase = "batch" /\ todo = 0 /\ phase' = "track"
        /\ UNCHANGED <<conn, seen, queue, since, lastEvent, started, did, batch>>
    BY <1>7 DEF EndBatch, database, link, cycle, monitor
  <2> QED
    BY <2>1, ReferenceKept DEF SightInv, InSnapshot
<1>8. CASE RecordSuccess
  <2>1. /\ phase = "track" /\ ~busy /\ phase' = "report"
        /\ lastEvent' = (IF batch > 0 THEN now ELSE lastEvent) /\ started' = started
        /\ since' = (IF did THEN now ELSE since)
        /\ UNCHANGED <<conn, seen, queue>>
    BY <1>8 DEF RecordSuccess, link
  <2>2. Reference' <= since'
    <3>1. CASE did
      BY <2>1, <3>1 DEF BaseInv, HealthTypeOK, PlaceInv, Reference
    <3>2. CASE ~did
      <4>1. batch = 0
        BY <2>1, <3>2 DEF SightInv
      <4> QED
        BY <2>1, <3>2, <4>1, ReferenceKept DEF SightInv
    <3> QED
      BY <3>1, <3>2
  <2> QED
    BY <2>1, <2>2 DEF SightInv, InSnapshot
<1>9. CASE BelowThreshold \/ BeginRecovery
  <2>1. /\ phase = "track" /\ phase' \in {"report", "recover"}
        /\ UNCHANGED <<conn, seen, queue, since, lastEvent, started>>
    BY <1>9 DEF BelowThreshold, BeginRecovery, RecordLocked, database, link
  <2> QED
    BY <2>1, ReferenceKept DEF SightInv, InSnapshot
<1>10. CASE GiveUpRecovery
  <2>1. /\ phase' = "down" /\ conn' = "closed"
        /\ UNCHANGED <<queue, since, lastEvent, started>>
    BY <1>10 DEF GiveUpRecovery, database
  <2> QED
    BY <2>1, ReferenceKept DEF SightInv, InSnapshot
<1>11. CASE Reconnect
  <2>1. /\ phase' = "report" /\ conn' = "clean"
        /\ UNCHANGED <<queue, since, lastEvent, started>>
    BY <1>11 DEF Reconnect, Commit, database
  <2> QED
    BY <2>1, ReferenceKept DEF SightInv, InSnapshot
<1>12. CASE NoWriteDue
  <2>1. /\ phase = "report" /\ phase' = "idle"
        /\ UNCHANGED <<conn, seen, queue, since, lastEvent, started>>
    BY <1>12 DEF NoWriteDue, database, link, monitor
  <2> QED
    BY <2>1, ReferenceKept DEF SightInv, InSnapshot
<1>13. CASE WriteHealth
  <2>1. phase = "report" /\ phase' = "idle" /\ UNCHANGED <<lastEvent, started>>
    BY <1>13 DEF WriteHealth, monitor
  <2>2. CASE StallSeen
    <3>1. CanWrite /\ Commit /\ Enqueue(FALSE)
      BY <1>13, <2>2 DEF WriteHealth, InsertOrSwallow
    <3>2. since' \in {since, now}
      BY <3>1 DEF Enqueue
    <3> QED
      BY <2>1, <3>1, <3>2, ReferenceKept DEF SightInv, Commit, InSnapshot
  <2>3. CASE ~StallSeen
    <3>1. Read /\ UNCHANGED <<queue, since>>
      BY <1>13, <2>3 DEF WriteHealth
    <3> QED
      BY <2>1, <3>1, ReadShows, ReferenceKept DEF SightInv
  <2> QED
    BY <2>2, <2>3
<1>14. ASSUME NEW r \in {FALSE, Poison}, Publish(r)
       PROVE  SightInv'
  <2>1. /\ Enqueue(r) /\ conn' = (IF conn = "snap" THEN "stale" ELSE conn)
        /\ UNCHANGED <<seen, phase, lastEvent, started, did, batch, todo, busy>>
    BY <1>14 DEF Publish, cycle, monitor
  <2>2. since' \in {since, now} /\ queue' # <<>>
    <3>1. r \in BOOLEAN
      BY ParametersAssumption
    <3> QED
      BY <2>1, <3>1, EnqueueType DEF Enqueue
  <2> QED
    BY <2>1, <2>2, ReferenceKept DEF SightInv, InSnapshot
<1>15. CASE Clock \/ TakeDbLock \/ ReleaseDbLock
  <2>1. UNCHANGED <<conn, seen, queue, since, phase, lastEvent, started, did, batch,
                    todo, busy>>
    BY <1>15 DEF Clock, TakeDbLock, ReleaseDbLock, database, link, cycle, monitor
  <2> QED
    BY <2>1, ReferenceKept DEF SightInv, InSnapshot
<1> QED
  BY <1>1, <1>2, <1>3, <1>4, <1>5, <1>6, <1>7, <1>8, <1>9, <1>10, <1>11, <1>12, <1>13,
     <1>14, <1>15 DEF Daemon

\* A stall there is when the file is written is one the daemon sees.
LEMMA StallIsSeen ==
  ASSUME BaseInv, SightInv, phase = "report", ReallyStalled
  PROVE  StallSeen
<1>1. conn # "closed" /\ Visible > 0
  <2>1. queue # <<>>
    BY DEF ReallyStalled
  <2> QED
    BY <2>1, Queues DEF BaseInv, HealthTypeOK, SightInv, Visible, InSnapshot
<1>2. loopNow - Reference > Stall
  <2>1. Reference \in Int /\ Reference <= since
    BY DEF BaseInv, HealthTypeOK, SightInv, Reference, Never
  <2>2. loopNow - since > Stall /\ loopNow \in Int /\ since \in Int /\ Stall \in Int
    BY ParametersAssumption DEF BaseInv, HealthTypeOK, ReallyStalled
  <2> QED
    BY <2>1, <2>2
<1> QED
  BY <1>1, <1>2 DEF StallSeen

\* Only WriteHealth and GiveUpRecovery write the file; the latter says "degraded".
LEMMA ReportStep ==
  ASSUME BaseInv, SightInv, ReportInv,
         \/ Daemon \/ Clock \/ TakeDbLock \/ ReleaseDbLock
         \/ \E r \in {FALSE, Poison} : Publish(r)
  PROVE  ReportInv'
<1>1. CASE UNCHANGED <<file, run>>
  BY <1>1 DEF ReportInv
<1>2. CASE GiveUpRecovery
  <2>1. file'.state = "degraded"
    BY <1>2 DEF GiveUpRecovery, WriteFile
  <2> QED
    BY <2>1 DEF ReportInv
<1>3. CASE WriteHealth
  <2>1. file'.stalled = StallSeen /\ (file'.reallyStalled <=> ReallyStalled) /\ phase = "report"
    BY <1>3, WriteType DEF WriteHealth, StallSeen, BaseInv, HealthTypeOK
  <2> QED
    BY <2>1, StallIsSeen DEF ReportInv
<1>4. CASE TickNothing \/ TickDue \/ DrainNothing \/ GetUnprocessed \/ ProcessOne
           \/ ProcessLocked \/ ProcessRaises \/ EndBatch
  BY <1>1, <1>4
  DEF TickNothing, TickDue, DrainNothing, GetUnprocessed, ProcessOne, ProcessLocked,
      ProcessRaises, EndBatch, disk, budget
<1>5. CASE RecordSuccess \/ BelowThreshold \/ BeginRecovery \/ Reconnect \/ ReconnectFails
           \/ NoWriteDue
  BY <1>1, <1>5
  DEF RecordSuccess, BelowThreshold, BeginRecovery, Reconnect, ReconnectFails,
      NoWriteDue, disk, budget
<1>6. CASE Clock \/ TakeDbLock \/ ReleaseDbLock \/ \E r \in {FALSE, Poison} : Publish(r)
  BY <1>1, <1>6 DEF Clock, TakeDbLock, ReleaseDbLock, Publish, disk, budget
<1> QED
  BY <1>2, <1>3, <1>4, <1>5, <1>6 DEF Daemon

\* A harmed daemon stays so until it is started again.
LEMMA StallStep ==
  ASSUME BaseInv, StallInv, [HealthNext]_healthVars
  PROVE  StallInv'
<1>1. CASE Start
  <2>1. /\ conn' = "clean" /\ lastEvent' = Never /\ started' = now /\ since' = now
        /\ phase' = "idle" /\ run' = run + 1 /\ file' = file
    BY <1>1 DEF Start
  <2>2. SightInv'
    BY <2>1 DEF SightInv, InSnapshot, Reference, Never, BaseInv, HealthTypeOK
  <2>3. ReportInv'
    <3>1. file # NoReport => file.run \in Nat /\ file.run <= run
      BY ReportType DEF BaseInv, HealthTypeOK, PlaceInv
    <3> QED
      BY <2>1, <3>1 DEF ReportInv, BaseInv, HealthTypeOK
  <2> QED
    BY <2>2, <2>3 DEF StallInv
<1>2. CASE HealthNext /\ ~Start
  <2>1. harmed => harmed'
    BY <1>2
    DEF HealthNext, Daemon, TickNothing, TickDue, DrainNothing, GetUnprocessed,
        ProcessOne, ProcessLocked, ProcessRaises, EndBatch, RecordSuccess,
        BelowThreshold, BeginRecovery, GiveUpRecovery, Reconnect, ReconnectFails,
        NoWriteDue, WriteHealth, Clock, TakeDbLock, ReleaseDbLock, Publish,
        RecordLocked, CountBusy, InsertOrSwallow, hist
  <2> QED
    BY <1>2, <2>1, SightStep, ReportStep DEF StallInv, HealthNext
<1>3. CASE UNCHANGED healthVars
  BY <1>3
  DEF healthVars, database, link, cycle, monitor, disk, budget, hist, StallInv,
      SightInv, ReportInv, InSnapshot, Reference
<1> QED
  BY <1>1, <1>2, <1>3

\* STALL_THRESHOLD_SECONDS: as long as nothing was swallowed and no recovery has
\* failed, a health file that reads "healthy" was written when no event had been
\* waiting for longer than that.
THEOREM StallsAreReported == HealthSpec => []StallDetectedUnlessHarmed
<1>1. HealthInit => BaseInv /\ StallInv
  <2>1. ASSUME HealthInit PROVE StallInv
    BY <2>1 DEF HealthInit, Never, StallInv, SightInv, ReportInv, InSnapshot, Reference
  <2> QED
    BY <2>1, InitBase
<1>2. BaseInv /\ StallInv /\ [HealthNext]_healthVars => (BaseInv /\ StallInv)'
  BY BaseStep, StallStep
<1>3. StallInv => StallDetectedUnlessHarmed
  BY DEF StallInv, ReportInv, StallDetectedUnlessHarmed, StallDetected, Verdict
<1> QED
  BY <1>1, <1>2, <1>3, PTL DEF HealthSpec
=============================================================================

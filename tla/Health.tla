------------------------------- MODULE Health -------------------------------
(***************************************************************************)
(* How the daemon notices that it is not working: the cycle of run_daemon  *)
(* with its classification of errors, HealthMonitor, the recovery from a   *)
(* locked database, the stall detection and the health file that           *)
(* hex_healthcheck.py judges.                                              *)
(*                                                                         *)
(* What decides whether they work is the state of the one SQLite           *)
(* connection.  A write that finds the database locked leaves it inside    *)
(* the transaction that sqlite3 opened for it (nothing in db.py rolls      *)
(* back); the next read pins a snapshot to that transaction, and once      *)
(* another process commits, every write fails at once and every read       *)
(* returns the old rows, until the connection is replaced.                 *)
(***************************************************************************)
EXTENDS Integers, Sequences

CONSTANTS
    Threshold,           \* DB_LOCK_CONSECUTIVE_THRESHOLD
    MaxAttempts,         \* DB_LOCK_MAX_RECOVERY_ATTEMPTS
    Stall, Stuck,        \* STALL_THRESHOLD_SECONDS, STUCK_THRESHOLD_SECONDS
    WriteEvery,          \* the health file is written at most this often
    Poison,              \* some event makes the evaluation raise
    LockEnds,            \* a lock is always gone when a recovery reconnects
    MaxTime,             \* bound: the clock
    MaxEvents,           \* bound: events published by other processes
    MaxTimers,           \* bound: timer events that fall due
    MaxLocks,            \* bound: times another process keeps the database locked
    MaxRuns              \* bound: starts of the daemon

ASSUME ParametersAssumption ==
    /\ Threshold \in Nat \ {0} /\ MaxAttempts \in Nat
    /\ \A n \in {Stall, Stuck, WriteEvery, MaxTime, MaxEvents, MaxTimers,
                 MaxLocks, MaxRuns} : n \in Nat
    /\ Poison \in BOOLEAN /\ LockEnds \in BOOLEAN

VARIABLES
    now,                 \* the clock
    queue,               \* unprocessed rows, oldest first: TRUE if it makes the evaluation raise
    lockHeld,            \* another process keeps the write lock beyond the busy timeout
    conn,                \* the connection: clean, open, snap, stale or closed
    seen,                \* rows of the queue in the pinned snapshot (snap, stale)
    phase,               \* where the daemon is in its cycle
    loopNow,             \* time.time() at the top of the cycle
    busy,                \* cycle_had_db_error
    batch, todo,         \* len(events) of this cycle, and rows still to process
    consecutive,         \* consecutive_db_lock_errors
    attempts,            \* recovery_attempts
    state,               \* state, of HealthMonitor
    lastSuccess, lastEvent, started,
    lastWrite,           \* last_health_write
    file,                \* health.json
    published, timers, lockCount, run,
    busyRun,             \* history: locked cycles in a row, counted up to Threshold
    did,                 \* history: this cycle has completed an event
    harmed,              \* history: an error was swallowed, or a recovery failed
    since                \* history: since when a running daemon has had rows and completed none

Never == -1
hist == <<busyRun, harmed>>
database == <<queue, lockHeld, since>>
link == <<conn, seen>>
cycle == <<loopNow, busy, batch, todo, did>>
monitor == <<consecutive, attempts, state, lastSuccess, lastEvent, started>>
disk == <<lastWrite, file>>
budget == <<published, timers, lockCount, run>>
healthVars == <<now, database, link, phase, cycle, monitor, disk, budget, hist>>

Report == [run : Nat, state : {"healthy", "degraded", "recovering"},
           sinceSuccess : Nat, stalled : BOOLEAN, reallyStalled : BOOLEAN]
NoReport == [run |-> 0]

HealthTypeOK ==
    /\ now \in Nat /\ queue \in Seq(BOOLEAN) /\ lockHeld \in BOOLEAN
    /\ conn \in {"clean", "open", "snap", "stale", "closed"}
    /\ seen \in 0 .. Len(queue)
    /\ phase \in {"down", "idle", "drain", "read", "batch", "track", "recover", "report"}
    /\ loopNow \in Nat /\ busy \in BOOLEAN /\ batch \in Nat /\ todo \in 0 .. batch
    /\ consecutive \in Nat /\ attempts \in 0 .. MaxAttempts
    /\ state \in {"healthy", "degraded", "recovering"}
    /\ lastSuccess \in Nat /\ started \in Nat
    /\ lastEvent \in Nat \cup {Never} /\ lastWrite \in Nat \cup {Never}
    /\ file \in Report \cup {NoReport}
    /\ published \in Nat /\ timers \in Nat /\ lockCount \in Nat /\ run \in Nat
    /\ busyRun \in Nat /\ harmed \in BOOLEAN /\ since \in Nat /\ did \in BOOLEAN

HealthInit ==
    /\ now = 0 /\ queue = <<>> /\ lockHeld = FALSE
    /\ conn = "closed" /\ seen = 0 /\ phase = "down"
    /\ loopNow = 0 /\ busy = FALSE /\ batch = 0 /\ todo = 0
    /\ consecutive = 0 /\ attempts = 0 /\ state = "healthy"
    /\ lastSuccess = 0 /\ lastEvent = Never /\ started = 0
    /\ lastWrite = Never /\ file = NoReport
    /\ published = 0 /\ timers = 0 /\ lockCount = 0 /\ run = 0
    /\ busyRun = 0 /\ harmed = FALSE /\ since = 0 /\ did = FALSE

-----------------------------------------------------------------------------
(* The connection                                                          *)

InSnapshot == conn \in {"snap", "stale"}
Visible == IF InSnapshot THEN seen ELSE Len(queue)

\* A read inside an open transaction pins the snapshot; a closed connection
\* raises sqlite3.ProgrammingError and reads nothing.
Read ==
    /\ conn' = IF conn = "open" THEN "snap" ELSE conn
    /\ seen' = IF conn = "open" THEN Len(queue) ELSE seen

CanWrite == conn \in {"clean", "open", "snap"} /\ ~lockHeld

\* "database is locked", at once on a stale snapshot.
FindsLocked == conn = "stale" \/ (conn \in {"clean", "open", "snap"} /\ lockHeld)

Commit == conn' = "clean" /\ seen' = 0

\* A failed write leaves the transaction open; after a read it is pinned too.
LeaveOpen == conn' = (IF conn = "clean" THEN "open" ELSE conn) /\ UNCHANGED seen
ReadAndLeaveOpen == IF conn = "open" THEN Read ELSE LeaveOpen

Enqueue(raises) ==
    /\ queue' = Append(queue, raises)
    /\ since' = IF queue = <<>> THEN now ELSE since

\* An insert whose lock error is caught and forgotten.
InsertOrSwallow ==
    IF CanWrite THEN Commit /\ Enqueue(FALSE) /\ UNCHANGED harmed
    ELSE ReadAndLeaveOpen /\ harmed' = TRUE /\ UNCHANGED <<queue, since>>

-----------------------------------------------------------------------------
(* Other processes, and time                                               *)

\* Another process commits an event; a snapshot that is pinned is now stale.
Publish(raises) ==
    /\ ~lockHeld /\ published < MaxEvents
    /\ published' = published + 1
    /\ Enqueue(raises)
    /\ conn' = IF conn = "snap" THEN "stale" ELSE conn
    /\ UNCHANGED <<now, lockHeld, seen, phase, cycle, monitor, disk, timers, lockCount, run, hist>>

TakeDbLock ==
    /\ ~lockHeld /\ lockCount < MaxLocks
    /\ lockHeld' = TRUE /\ lockCount' = lockCount + 1
    /\ UNCHANGED <<now, queue, since, link, phase, cycle, monitor, disk,
                   published, timers, run, hist>>

ReleaseDbLock ==
    /\ lockHeld /\ lockHeld' = FALSE
    /\ UNCHANGED <<now, queue, since, link, phase, cycle, monitor, disk, budget, hist>>

Clock ==
    /\ now < MaxTime /\ now' = now + 1
    /\ UNCHANGED <<database, link, phase, cycle, monitor, disk, budget, hist>>

-----------------------------------------------------------------------------
(* The cycle                                                               *)

\* run_daemon up to its loop: a new connection, a new HealthMonitor.
Start ==
    /\ phase = "down" /\ run < MaxRuns
    /\ run' = run + 1
    /\ conn' = "clean" /\ seen' = 0
    /\ consecutive' = 0 /\ attempts' = 0 /\ state' = "healthy"
    /\ lastSuccess' = now /\ lastEvent' = Never /\ started' = now
    /\ lastWrite' = Never
    /\ busyRun' = 0 /\ harmed' = FALSE /\ since' = now
    /\ phase' = "idle"
    /\ UNCHANGED <<now, queue, lockHeld, cycle, file, published, timers, lockCount>>

BeginCycle == loopNow' = now /\ busy' = FALSE /\ batch' = 0 /\ todo' = 0 /\ did' = FALSE

\* scheduler.tick with nothing due: it reads at most.
TickNothing ==
    /\ phase = "idle"
    /\ BeginCycle /\ Read
    /\ phase' = "drain"
    /\ UNCHANGED <<now, database, monitor, disk, budget, hist>>

\* ... with a timer event to insert: whatever goes wrong there, tick logs it
\* and swallows it.
TickDue ==
    /\ phase = "idle" /\ timers < MaxTimers
    /\ timers' = timers + 1
    /\ BeginCycle
    /\ InsertOrSwallow
    /\ phase' = "drain"
    /\ UNCHANGED <<now, lockHeld, monitor, disk, published, lockCount, run, busyRun>>

\* drain_deferred with nothing due (Deferred has the rest): a read.
DrainNothing ==
    /\ phase = "drain"
    /\ Read
    /\ phase' = "read"
    /\ UNCHANGED <<now, database, cycle, monitor, disk, budget, hist>>

\* get_unprocessed; on a closed connection "Error processing events", and
\* nothing more.
GetUnprocessed ==
    /\ phase = "read"
    /\ LET n == IF conn = "closed" THEN 0 ELSE Visible IN batch' = n /\ todo' = n
    /\ Read
    /\ phase' = IF conn = "closed" THEN "track" ELSE "batch"
    /\ UNCHANGED <<now, database, loopNow, busy, did, monitor, disk, budget, hist>>

\* The events of the batch are the oldest of the queue: only the daemon
\* removes rows.
ProcessOne ==
    /\ phase = "batch" /\ todo > 0 /\ ~Head(queue) /\ CanWrite
    /\ queue' = Tail(queue) /\ since' = now /\ did' = TRUE
    /\ todo' = todo - 1
    /\ Commit
    /\ UNCHANGED <<now, lockHeld, phase, loopNow, busy, batch, monitor, disk, budget, hist>>

ProcessLocked ==
    /\ phase = "batch" /\ todo > 0 /\ ~Head(queue) /\ FindsLocked
    /\ busy' = TRUE
    /\ LeaveOpen
    /\ phase' = "track"
    /\ UNCHANGED <<now, database, loopNow, batch, todo, did, monitor, disk, budget, hist>>

\* Any other exception leaves the batch too, and is only logged.
ProcessRaises ==
    /\ phase = "batch" /\ todo > 0 /\ Head(queue)
    /\ harmed' = TRUE
    /\ phase' = "track"
    /\ UNCHANGED <<now, database, link, cycle, monitor, disk, budget, busyRun>>

EndBatch ==
    /\ phase = "batch" /\ todo = 0
    /\ phase' = "track"
    /\ UNCHANGED <<now, database, link, cycle, monitor, disk, budget, hist>>

-----------------------------------------------------------------------------
(* Health tracking and recovery                                            *)

\* Mutant of RecordSuccess: the count of locked cycles is not reset.
RecordSuccessNoReset ==
    /\ phase = "track" /\ ~busy
    /\ state' = "healthy" /\ lastSuccess' = now
    /\ lastEvent' = IF batch > 0 THEN now ELSE lastEvent
    /\ busyRun' = 0 /\ since' = (IF did THEN now ELSE since) /\ UNCHANGED harmed
    /\ phase' = "report"
    /\ UNCHANGED <<now, queue, lockHeld, link, cycle, consecutive, attempts, started,
                   disk, budget>>

RecordSuccess ==
    /\ phase = "track" /\ ~busy
    /\ consecutive' = 0 /\ state' = "healthy" /\ lastSuccess' = now
    /\ lastEvent' = IF batch > 0 THEN now ELSE lastEvent
    /\ busyRun' = 0 /\ since' = (IF did THEN now ELSE since) /\ UNCHANGED harmed
    /\ phase' = "report"
    /\ UNCHANGED <<now, queue, lockHeld, link, cycle, attempts, started, disk, budget>>

CountBusy ==
    busyRun' = (IF busyRun < Threshold THEN busyRun + 1 ELSE busyRun) /\ UNCHANGED harmed

\* Mutant of RecordLocked: the count starts anew every time.
RecordLockedAnew ==
    /\ phase = "track" /\ busy
    /\ consecutive' = 0 /\ CountBusy

RecordLocked ==
    /\ phase = "track" /\ busy
    /\ consecutive' = consecutive + 1 /\ CountBusy

ShouldRecover == (consecutive + 1) % Threshold = 0

BelowThreshold ==
    /\ RecordLocked /\ ~ShouldRecover
    /\ phase' = "report"
    /\ UNCHANGED <<now, database, link, cycle, attempts, state, lastSuccess, lastEvent,
                   started, disk, budget>>

\* Mutant of BeginRecovery: no limit on the attempts.
BeginRecoveryAlways ==
    /\ RecordLocked /\ ShouldRecover
    /\ attempts' = attempts + 1 /\ state' = "recovering"
    /\ phase' = "recover"
    /\ UNCHANGED <<now, database, link, cycle, lastSuccess, lastEvent, started,
                   disk, budget>>

\* _attempt_db_recovery, up to its waiting for the lock holder.
BeginRecovery ==
    /\ RecordLocked /\ ShouldRecover /\ attempts < MaxAttempts
    /\ attempts' = attempts + 1 /\ state' = "recovering"
    /\ phase' = "recover"
    /\ UNCHANGED <<now, database, link, cycle, lastSuccess, lastEvent, started,
                   disk, budget>>

\* The old connection is closed; the new one must be able to write.
Reconnect ==
    /\ phase = "recover" /\ ~lockHeld
    /\ Commit
    /\ state' = "healthy" /\ consecutive' = 0
    /\ phase' = "report"
    /\ UNCHANGED <<now, database, cycle, attempts, lastSuccess, lastEvent, started,
                   disk, budget, hist>>

\* None is returned: db is still the connection that was just closed.
ReconnectFails ==
    /\ phase = "recover" /\ lockHeld /\ ~LockEnds
    /\ conn' = "closed" /\ seen' = 0 /\ harmed' = TRUE
    /\ phase' = "report"
    /\ UNCHANGED <<now, database, cycle, monitor, disk, budget, busyRun>>

-----------------------------------------------------------------------------
(* The health file                                                         *)

\* processing_stalled: rows are waiting, and the last processed event (or the
\* start) is long ago.
Reference == IF lastEvent # Never THEN lastEvent ELSE started
\* Mutant of StallSeen: no alarm before the first event is processed.
StallSeenAfterFirst ==
    conn # "closed" /\ Visible > 0 /\ lastEvent # Never /\ loopNow - lastEvent > Stall

StallSeen == conn # "closed" /\ Visible > 0 /\ loopNow - Reference > Stall

ReallyStalled == queue # <<>> /\ loopNow - since > Stall

WriteFile(stalled, final) ==
    file' = [run |-> run, state |-> final, sinceSuccess |-> now - lastSuccess,
             stalled |-> stalled, reallyStalled |-> ReallyStalled]

NoWriteDue ==
    /\ phase = "report" /\ lastWrite # Never /\ loopNow - lastWrite < WriteEvery
    /\ phase' = "idle"
    /\ UNCHANGED <<now, database, link, cycle, monitor, disk, budget, hist>>

\* The count, the stall report (itself an event), the file.
WriteHealth ==
    /\ phase = "report" /\ (lastWrite = Never \/ loopNow - lastWrite >= WriteEvery)
    /\ WriteFile(StallSeen, state)
    /\ IF StallSeen THEN InsertOrSwallow ELSE Read /\ UNCHANGED <<queue, since, harmed>>
    /\ lastWrite' = loopNow
    /\ phase' = "idle"
    /\ UNCHANGED <<now, lockHeld, cycle, monitor, budget, busyRun>>

\* "DB lock recovery failed %d times. Exiting": processing_stalled is what it was.
GiveUpRecovery ==
    /\ RecordLocked /\ ShouldRecover /\ attempts >= MaxAttempts
    /\ state' = "degraded"
    /\ WriteFile(file # NoReport /\ file.run = run /\ file.stalled, "degraded")
    /\ conn' = "closed" /\ seen' = 0
    /\ phase' = "down"
    /\ UNCHANGED <<now, database, cycle, attempts, lastSuccess, lastEvent, started,
                   lastWrite, budget>>

Daemon ==
    \/ TickNothing \/ TickDue \/ DrainNothing \/ GetUnprocessed
    \/ ProcessOne \/ ProcessLocked \/ ProcessRaises \/ EndBatch
    \/ RecordSuccess \/ BelowThreshold \/ BeginRecovery \/ GiveUpRecovery
    \/ Reconnect \/ ReconnectFails \/ NoWriteDue \/ WriteHealth

HealthNext ==
    \/ Daemon \/ Start \/ Clock \/ TakeDbLock \/ ReleaseDbLock
    \/ \E raises \in {FALSE, Poison} : Publish(raises)

HealthSpec == HealthInit /\ [][HealthNext]_healthVars

\* The loop goes on, launchd restarts the daemon, lock holders let go.
HealthFairSpec ==
    HealthSpec /\ WF_healthVars(Daemon) /\ WF_healthVars(Start) /\ WF_healthVars(ReleaseDbLock)

-----------------------------------------------------------------------------
(* Properties                                                              *)

\* hex_healthcheck.py check(): the verdict on the file.
Verdict ==
    IF file = NoReport \/ file.run # run \/ phase = "down" THEN "dead"
    ELSE IF file.sinceSuccess > Stuck THEN "stuck"
    ELSE IF file.state = "degraded" THEN "degraded"
    ELSE IF file.stalled THEN "stalled" ELSE "healthy"

\* The connection is thrown away only after Threshold cycles in a row found
\* the database locked: a cycle that succeeds starts the count anew.
RecoversOnlyAfterThreshold == phase = "recover" => busyRun >= Threshold

\* STALL_THRESHOLD_SECONDS: "warn if no events processed in this many seconds
\* while events are pending".  When this is so, the verdict is not "healthy".
StallDetected == Verdict = "healthy" => ~file.reallyStalled

\* The daemon is not blind for ever: waiting events are served in the end.
EventsServed == queue # <<>> ~> queue = <<>>

\* Neither is true of the code.  What it keeps up: unless it swallowed an error
\* (of a timer's insert, of the stall report, of the evaluation) or could not
\* recover, a stall is reported, and waiting events are served, however often
\* the processing itself runs into locks.
StallDetectedUnlessHarmed == harmed \/ StallDetected
ServedUnlessHarmed == queue # <<>> ~> (queue = <<>> \/ harmed)
=============================================================================

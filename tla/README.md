# hex-events: models, checks and proofs

hex-events is a single-host event bus. Producers insert rows into one SQLite
database; a daemon polls the rows, evaluates policies (event, condition,
action) and runs their actions, which may insert further events, now or
later. This directory holds TLA+ models of the daemon and its database, the TLC
configurations that check them, and theorems with proofs for TLAPS.

## 1. The system

### Components, their state and operations

| component | code | state | operations |
|---|---|---|---|
| event bus | `db.py`, `hex_emit.py` | tables `events`, `action_log`, `policy_eval_log` | `insert_event`, `get_unprocessed`, `mark_processed`, `log_policy_evals`, `janitor` |
| event loop | `hex_eventd.py` 686-770, 917-965 | the batch, the event in progress, loop counters, `eval_rows` | poll, process an event, abandon the batch |
| delayed emits | `actions/emit.py`, `db.py` 239-266, `drain_deferred` | table `deferred_events` | emit with delay and `cancel_group`, drain |
| scheduler adapter | `adapters/scheduler.py` | the schedules in memory; its `dedup_key`s are rows of `events` | `tick`, `startup_catchup`, `reload` |
| policy limits | `policy.py` 79-93, `hex_eventd.py` 531-591, 773-823 | `last_fires` in memory, fires in `policy_eval_log`, the policy files, the mtime cache | rate limit, ttl, `max_fires`, disable or delete the file, hot reload |
| health | `HealthMonitor`, `_attempt_db_recovery`, the end of the loop, `hex_healthcheck.py` | error counters, `health.json`, the SQLite connection | count lock errors, recover, give up, report a stall, judge |
| daemon singleton | `hex_eventd.py` 65-216, 862-903, 1052-1060, `hex_healthcheck.py` 27-109 | lock file, PID file, the process table | acquire, take over from a stopped holder, kill competitors, shut down, `--pre-start` |
| actions | `actions/`, `run_action_with_retry`, `_dispatch_sub_actions` | rows of `action_log`; processes and files outside | run, retry, sub-actions |
| conditions | `conditions.py` | none; `count()` reads `events` | evaluate |
| loading, validation | `policy.py`, `policy_validator.py`, `validator.py`, `validators/` | none | parse, validate, analyse the policy graph |
| compiler | `hex_events_cli.py` 1052-1363 | the compiled files and their manifests | check, compare, copy, replace |
| command line | the rest of `hex_events_cli.py` | none of its own | status, history, trace, ... |
| scripts | `scripts/` | BOI recovery files, gate files | recover a spec, check a gate, watchdog |

Everything interacts through the database and files. The daemon is one
process and one thread with one connection: the calls of a cycle are, in this
order, policy reload, scheduler reload, scheduler tick, drain, process a batch,
health, health file, janitor. Other processes insert events at any time and
may hold the write lock longer than the busy timeout. Every `commit` is a point
after which the daemon may die and be restarted by launchd (`KeepAlive`).

### What is hard about it

* The same facts live in memory, in the log and in files, and are committed one
  by one: an event's actions, its log rows, its completion, the policy's fires.
* The janitor deletes by age rows that other parts still count on: keys of the
  scheduler, fires of `max_fires` and `ttl`, unprocessed events.
* Errors are classified by type and swallowed at several places; what they do to
  the connection (an open transaction, a pinned snapshot) outlives them.
* Delivery is at least once for events and at most once for delayed emits; both
  choices are visible only when something dies in between. A delivery that is
  repeated evaluates its conditions against what the first one left behind.
* Several processes share files without a lock: the daemons that start and stop
  (lock file, PID file), the compilers and the daemon (compiled policies).
* A name is not a file: an unlinked lock file is still locked by whoever has it
  open, and a temporary path names whatever was created there last.

### What makes each component correct

* Bus and loop: strict order; an event is completed only after every matching
  rule is accounted for; the log claims only what ran; actions repeat only after
  an interruption; every event is served in the end.
* Delayed emits: never doubled, never early, last write wins, nothing lost
  except to a fault, none waits for ever.
* Scheduler: each slot once, none passed over, in order.
* Limits: never more fires than allowed; a policy that is switched off falls silent.
* Actions: when an event is processed, every action was run to its end and had the
  sub-actions of its outcome, once; a `count()` guard keeps its promise when the
  delivery is repeated.
* Singleton: no two daemons use the database at once; the PID file does not name
  the wrong one.
* Static checks: a cycle is reported exactly if there is one; policies whose graph is
  valid do not feed each other for ever.
* Compiler: what the daemon loads is a whole file that passed the checks.
* Health: recover exactly when the database stays locked, report a stall, give up
  only when recovery fails.

`PROJECT.json` lists the hazards behind these, each with its line.

## 2. The modules

**`EventQueue`** is the abstract specification: what a client of the bus may rely
on. A new event comes behind all that are in the table, only the oldest pending
event can be completed, and no row changes its type. Rows of any age may disappear,
pending or not, and the id of a deleted row may be given to another event: neither
consecutive ids nor unique ones are promised.

**`EventLoop`** is the loop over the table. `events` maps the ids of the rows that
exist to their kinds, `unprocessed` are those without `processed_at`. `Insert` gives
the id that SQLite gives to an `INTEGER PRIMARY KEY` without `AUTOINCREMENT`: one
more than the highest in the table (`NewIds`), so that the id of a deleted highest
row comes again. `Janitor` deletes any set of rows: it goes by `created_at`, which
is wall-clock time and need not follow the ids. `pc`, `batch`, `cur`, `pol`, `rule`, `act`, `rows` are the locals of
`run_daemon` and `_process_event_policies`. One action per commit or external
effect. Policies are a constant: sequences of rules that name the kinds they
match, the kinds on which their evaluation raises, and their actions. Whether a
condition holds (`TakeRule`/`RejectRule`) and whether a rate limit admits the
policy (`AdmitPolicy`/`SuppressPolicy`) are choices. `Raise`, `Locked` and
`Crash` leave the batch at every point where the code can. After a lock error
the connection may stay unusable until it is replaced; to this module the
cycles until then look like repeated `Locked`, and `Health` has the connection.
`ran`, `rerun`, `cutShort` and `unlogged` are history variables, of the rows in the
table: the janitor clears them with the row, so that an id given again starts afresh.

**`Deferred`** is the table `deferred_events`: one action for each commit of
`insert_deferred` and `drain_deferred`; `due` and `hand` are the local list and
the row between its deletion and its insertion. A request is one execution of an
emit action. The set of daemons is a parameter. `IsNewRowId` is SQLite's rule for
an `INTEGER PRIMARY KEY`, which hands out ids again.

**`Scheduler`** takes one step per schedule of `tick` or `startup_catchup`.
`LastTick` stands for croniter and `CronAssumption` for what is used of it.
An insert may find the database locked; what a swallowed lock error does to the
connection is the subject of `Health`, so liveness here is stated for the
behaviours in which no insert failed.

**`PolicyLimits`** is one policy with one rule that every event matches: the rate
limit in memory, the log, the file with a version for the mtimes of all
the files, the cached copy. Somebody may switch the policy off by hand
(`SwitchOff`) or edit another file. `fires` is the history of what really happened,
`offSince` the time the file stopped being enabled. Events are numbered in the order
of their insertion here; ids that are given again make no difference, as the log rows
of the old event are deleted in the commit that deletes the event.

**`Health`** is the cycle seen from its errors. `conn` is the state of the SQLite
connection: `clean`, `open` (a failed write left its transaction open), `snap`
(a read has pinned a snapshot to it), `stale` (another process has committed
since: reads return old rows and writes fail at once), `closed`. This behaviour
of `sqlite3` in WAL mode was confirmed against `db.py`. `TickDue` stands for
every write whose error is swallowed (timer event; the janitor and
sub-actions do the same). `Verdict` is `hex_healthcheck.py check()`. The history
`harmed` is set by a swallowed write error, an exception of an evaluation, or a
recovery that failed.

**`ActionRun`** is what `EventLoop` takes for one step: one event and one rule, from
the conditions through every action with its retries (`attempt`, `rows` of
`action_log`) and its sub-actions (`called`) to the processed mark. `CutShort` is a
crash or a lock error anywhere: everything local is gone, what was inserted stays.
`count` is the number of events of each kind in the window of the conditions.
`inserted` and `again` are the history of the places in the rule that inserted.

**`Singleton`** is the protocol between any number of daemons and of `--pre-start`
processes, one step per system call: `path` and `inodes` are the lock file as a
name and as files, `fd` and `locks` who has which file open and locked, `pidFile`
the content of the PID file, `victim`, `hunted`, `killed` the locals of the two ways
to kill. A process may be stopped (state T), continued, told to end and killed; a
signal is pending while it is stopped. `hasProc` says whether the system has
`/proc` (Linux) or not (macOS), `tookOver` and `robbed` are history. The content of
the PID file is written in one step.

**`PolicyGraph`** has the static graph (`Edges`, `Provided`, `Required`), the
depth-first search of `_detect_cycles` step by step (`path`, `visited`, `todo`: the
loop over the neighbours of every node on the path, in any order), and beside it the
chains of events that the daemon runs with the same policies (`chain`).
`rank` is the order in which the calls return, a
history the proof needs.

**`Compile`** is one source file and its compiled file, several runs of `cmd_compile`,
an editor, and the daemon that loads the compiled file and disables or deletes it
when `max_fires` is reached. `Check` takes one step per validator, each of which
reads the source for itself; `checked` is the version they all read, or `Mixed`. `files` are the files ever created; `out` and `tmp` say
which of them is at the output path and at the temporary path. `overtaken` and
`collided` are history: an edit came between two readings of the source, a
temporary file was opened that another writer was using.

**`MCEventLoop`, `MCScheduler`, `MCActionRun`, `MCSingleton`, `MCPolicyGraph`** define the
instances for TLC; the other modules are instantiated by their configurations
alone. **`EventLoopProofs`, `DeferredProofs`, `SchedulerProofs`, `PolicyLimitsProofs`,
`ActionRunProofs`, `PolicyGraphProofs`, `CompileProofs`** hold the theorems about the module they are named for, `DaemonProofs`
those about `Singleton` and `Health`. Composition: `EventLoop` implements
`EventQueue`; `Deferred`, `Scheduler`, `PolicyLimits` and `Health` are the parts
`EventLoop` leaves as environment (insertions by `Publish`, the choice of
`SuppressPolicy`, `Locked`), and `ActionRun` is the inside of its `RunShell`, `RunEmit`
and of the choice between `TakeRule` and `RejectRule`. `Singleton` shows what
`Deferred`'s theorems assume, a single daemon.

Operators called "Mutant of X" are faulty variants of X used to show that a
property can fail; no specification uses them.

## 3. What TLC checks

Deadlock is not checked: every model has bounds on its environment, and with
nothing left to do the system legitimately stops.

### Runs that pass

| run (`PROJECT.json`) | configuration | distinct states | what it shows, beside `TypeOK` (`HealthTypeOK`) |
|---|---|---|---|
| `event_loop` | `MCEventLoop` | 163 k | `ServedInOrder`, `EveryRuleAccounted`, `LoggedMeansRun`, `RepeatedOnlyIfCutShort`, `OnlyWaitingEventsRun`, refinement of `EventQueue`, `EveryEventServed` |
| `actions` | `MCActionRun` | 87 k | `SettledWhenProcessed`, `GuardedNotRepeated` |
| `deferred` | `Deferred` | 133 k | `NeverDoubled`, `ReplacedNeverFires`, `NothingVanishes`, `EveryRequestSettled` |
| `scheduler` | `MCScheduler` | 515 k | `AtMostOncePerSlot`, `PassCoversSlots`, `SlotsInOrder`, `LatestSlotEmitted` |
| `limits` | `PolicyLimits` | 12.4 M | `RateHeldByGeneration`, `SilentOnceReloaded`, `MaxFiresHeldWhileLogged` |
| `health` | `Health` | 2.0 M | `RecoversOnlyAfterThreshold`, `StallDetectedUnlessHarmed`, `ServedUnlessHarmed` |
| `singleton` | `MCSingleton` | 2.0 M | `OneServes`, `PidFileNamesTheServer` |
| `graph` | `MCPolicyGraph` | 168 k | `CyclesReal`, `NoCycleMissed`, `ValidatedChainsEnd` |
| `compile` | `Compile` | 2.7 M | `WholeUnlessCollided`, `CheckedUnlessOvertaken` |

Some properties are conditional, and the condition is the point of them:

* `EveryEventServed`: every event is served, unless it waits behind one whose
  evaluation or action may raise. An exception abandons the batch at that event in
  every poll, so that everything behind it waits until the janitor deletes it.
* `LatestSlotEmitted`: as long as no insert has failed.
* `MaxFiresHeldWhileLogged`: the limit holds of an up-to-date copy as long as the log
  has the rows it is computed from. The janitor, a failed write of the log and a
  batch that goes on with a stale copy each break it: fires that are spread over
  more than the retention never add up to `max_fires`.
* `SilentOnceReloaded`: a policy that is off acts on no event in a cycle that began
  more than the reload interval later. A batch that began before goes on with the
  cached copy, however long it takes.
* `RateHeldByGeneration`: the rate limit holds between two reloads. A reload, caused
  by an edit to any policy file, forgets the fires of the current window.
* `StallDetectedUnlessHarmed`, `ServedUnlessHarmed`: as long as no write error was
  swallowed, no evaluation raised and no recovery failed. A lock error that the
  scheduler swallows leaves the connection in a transaction whose snapshot no
  longer changes: new events are not seen, every write fails, and the daemon
  reports itself healthy. How long the database is locked otherwise does not
  matter.
* `GuardedNotRepeated`: as long as the first insertion is in the window. The price of
  the guard is that the rest of the actions is never run when the delivery was cut
  short behind the first of them.
* `OneServes`: on a system with `/proc` without exception; without it as long as no
  lock file was unlinked. Two daemons can hold the lock at once after a takeover, on
  two inodes; with `/proc` the later one finds and kills the other before it touches
  the database.
* `PidFileNamesTheServer`: the file may be missing, because a predecessor removes it
  after it has released the lock, or `--pre-start` removes what it took for the
  file of a dead process.
* `ValidatedChainsEnd`: for `Honest` policies, which declare whatever they emit and
  whatever their triggers match.
* `WholeUnlessCollided`, `CheckedUnlessOvertaken`: each names the one race that
  breaks it, the shared temporary path and the source that is read once by every
  validator and three times more. An edit between two validators is enough: in each
  version one of them has looked, and what is loaded has passed none of the checks
  as a whole.

### Runs that find a disagreement between code and documents

| run | property | the short story |
|---|---|---|
| `deferred_cancel` | `CancelledNeverFires` | an immediate emit does not cancel its group's pending event |
| `scheduler_sparse` | `AtMostOncePerSlot` | a monthly schedule fires again when the janitor deleted its row |
| `health_zombie` | `EventsServed` | a failed recovery leaves a closed connection, for ever |

The passing runs say under which conditions the same promises do hold: e.g.
`AtMostOncePerSlot` for schedules whose gaps are within the retention.

Further disagreements were met while modelling. No run shows them, as they are
visible in the lines alone:

* The clock of `ttl`. The code measures it from the rule's oldest fire that is still in
  `policy_eval_log` (`hex_eventd.py` 546), and admits a rule that never fired.
  `docs/skill-reference.md` 48 and 58 and `skills/hex-event/SKILL.md` 53-55 measure it
  from the mtime of the policy file, `raw/research/monitoring-ttl-design.md` 42-44 from
  the first fire, whose row the janitor deletes after seven days. `PolicyLimits` has
  the guard as the code has it (`Expired`), and no property of it: none of the
  three clocks can be called the promised one.
* The producers of an event. The catalog that `compile` builds reads the top level of
  the policy directory only (`hex_events_cli.py` 938-940), the daemon the directories of
  workflows too (`policy.py` 309-328); and it lists hooks and sub-actions (976-998)
  but no emit actions, although `validators/producer_check.py` 43-44 advises to
  add one. `README.md` 204 says "Unknown event subscription (no producer)".
* `docs/design-v2.md` 267 rules out a hot reload of the adapters, which
  `hex_eventd.py` 927 and `adapters/scheduler.py` 62 do (`Reload` in `Scheduler`). The
  document is stale.

### Bounds, and why they are enough

* `EventLoop`: two published events and those the chain emits put two or more
  events of different kinds in a batch, with emitted ones arriving behind it; one
  fault at any point, beside the exceptions of the poison policy, gives every kind
  of redelivery; the janitor deletes any of the rows between two polls, so that ids
  are given again, below and above the rows that are left. Every safety property and the refinement are proved for all bounds.
* `Deferred`: three requests in one group and outside of it are enough for a
  replacement during an interrupted drain and for a reused rowid; four units of
  time let two rows be due together. Safety is proved for all bounds.
* `Scheduler`: two schedules with different periods and retention 2 include the case
  in which a row is deleted as soon as its slot is no longer the latest; two faults
  are a crash and a failed insert, in either order. Proved for all bounds.
* `ActionRun`: four actions (emits of a guarded and of an unguarded kind, a command
  with two retries and both kinds of sub-actions, an action without a handler)
  under four conditions of every kind; three faults cut two deliveries short and fail
  a sub-action, at any place; two foreign events and two that leave the window
  decide the `count()` conditions either way. Safety is proved for any rule.
* `Singleton`: three daemons, so that one takes over while a second judges and a third
  starts, and one `--pre-start`; two stops let two processes be stopped at once, and
  one crash may come anywhere. Proved for any number.
* `PolicyGraph`: all graphs over three events (every shape of cycle the search can meet
  with nested and crossing back edges), and every pair of policies out of eight
  styles over events and a glob. Proved for all.
* `Compile`: two compilers and the daemon are the three writers of the shared path;
  three versions, one of them broken, with two edits allow for a return to an
  earlier version. Proved for all.
* `PolicyLimits`: `MaxFires` and `RateMax` are 2 and three events are published,
  so each limit is reached and passed; one edit, of the policy or of another file, and
  one crash or failed write can come anywhere; the janitor, the ttl and the reload all
  come due; both values of `after_limit`. Safety is proved for any limits.
* `Health`: the code's thresholds (10 cycles, 3 attempts, 300 and 600 s) become
  1 or 2; the conditions are the same comparisons. A crossing of the threshold's
  second multiple needs two recoveries, which two locks allow. Safety is
  proved for any thresholds.

### Fairness

The daemon is an endless loop that waits only for bounded times
(`POLL_INTERVAL`, busy timeouts, action timeouts): weak fairness of its steps.
launchd restarts it (`install.sh` 102, 191): weak fairness of `Restart`/`Start`.
The clock goes on. In `Health` a lock holder lets go in the end. The reload of
the scheduler's configuration happens every minute but only between two passes: it
is enabled again and again, not continuously, hence strong fairness. No
environment action (publishing, faults, edits) is fair. Faults are bounded,
which says: if the faults stop, then ...

## 4. What is proved

Every safety property that a passing run checks is a theorem: type correctness of
every module, each other invariant, the action properties and the refinement, with
the exception of liveness (below). The theorems hold for every value of the
constants that satisfies the modules' assumptions: any policies, rules, limits and
thresholds, any number of events, requests, schedules, processes and faults. Two
have a hypothesis beside that: `DeferredProofs` needs a single daemon (for all but
its types), `OncePerSlot` schedules whose gaps are within the retention.

In each module the argument is the same. The property is not inductive; a
strengthening relates what a process has in memory to what is stored, and to the
history; it holds at the beginning and every action keeps it (one lemma for each
action or group of actions); it implies the property. Where the strengthening is
more than a restatement it was checked with TLC on the instance of the run first.

**`EventLoopProofs`.** `ServedInOrder` (every processed row is older than every
waiting one) is not inductive: marking the current event preserves it only if
that event is the oldest that waits. `IndInv` adds `BatchInv` (what the daemon
holds is waiting, and nothing is held between polls) and `OrderInv` (whatever
waits and is not in the batch is younger than all of it, and the current event is
the oldest of all). The steps fall in four groups, each with a lemma: those inside
an event, the insertions, the completion, and the cuts. From `IndInv` follow
`TypeCorrectness`, `StrictOrder`, `WaitingOnly` (no action for an event that is
processed or deleted) and `Refinement`: each step maps to `Enqueue`, `Complete`,
`Expire` or a stutter of `EventQueue`. An insertion keeps all of it whatever was deleted
before, as the new id is above those of the rows that are left, and the daemon
holds no row while the janitor runs. The log needs three more invariants, each on
top of `IndInv`. `CollectedInv`: every matching rule that the loops have left behind
has a row in memory, so that the row is in the log when the event is marked
(`NoRulePassedOver`). `TakenInv`: a row in memory that says "taken" is of a rule
whose actions have run, but for those still ahead (`LogTellsTheTruth`).
`AttemptInv`: what was run for a waiting event that no attempt was cut short for was
run in the attempt in progress and is behind the loops; hence the action that is
about to run was not run before (`RepeatedForCause`).

**`DeferredProofs`** assumes a single daemon, as the lock is meant to ensure. The
invariant: a request is in one place only (table, hand, events) and was replaced
only if it is in none of them; the ids in the table are unique; what is in `due`
agrees with the table. `LostNotDoubled` gives `NeverDoubled`; `DeferredPromises`
gives `ReplacedNeverFires`, `OnePerGroup` and `NeverEarly`. `EveryRequestAccounted`
is `NothingVanishes`: with one daemon there is at most one request in hand, so that
a crash between the two commits loses at most that one and is one fault.

**`SchedulerProofs`.** `TypeCorrectness`, `NoSlotPassedOver` and `InOrder` hold for
every retention. `OncePerSlot` has the hypothesis `Covered`: every schedule has an
occurrence within each stretch of the retention's length. Its invariant `KeyInv`: an
emitted slot has its row in the table for as long as it is the latest, because a row
old enough to be deleted belongs, by `Covered`, to a slot that is not. The run
`MCSchedulerSparse` shows that the hypothesis is needed.

**`PolicyLimitsProofs`.** `RateLimitHeld` is about `last_fires`, which is in memory,
and the fires that really happened: `RateInv` says that `last_fires` holds exactly
the times of the last ones, those of the policy object in memory, and that the
fires before are of earlier objects. The fires of a generation in the window are then
what `check_rate_limit` counts, `AdmitInv` carries its result over the actions to
`record_fire`, and a lemma on cardinalities adds the one fire. `MaxFiresHeld` rests
on the file: `VersionInv` says that a copy in memory with the version of the file is
enabled exactly if the file is, and `LimitInv` that as long as the file is enabled
the log counts fewer than `MaxFires` events none of whose fires failed. A fire of an
up-to-date copy therefore adds at most the last one. `MaxFires > 0` is assumed, as
`policy_validator.py` demands: with 0 the code would fire once.
`SwitchedOffFallsSilent` is not inductive either: `SwitchInv` says that a copy which is
still enabled after the file went off was loaded no later than that, and that a cycle
never goes on with a load older than the interval; `VersionInv` says that the load
which comes then does not mistake the file for an unchanged one.

**`ActionRunProofs`.** `RuleIsSettled` is `SettledWhenProcessed` for any rule. `StageInv`
says how far each action has come: those before `act` are done with (all rows, the
sub-actions of the outcome), those after it are untouched, and `act` itself is being
tried (one "retry" row for each attempt that is over) or is calling its
sub-actions (those called are the first ones of its list). `PhaseInv` relates
the phase to `details`. `GuardKeepsFromRepeating`: `PlaceInv` says that an event
inserted from a place of the rule is in the window as long as nothing leaves it,
and `FreshInv` that, if the guard on its kind has passed in this delivery, it was
inserted in this delivery, at a place already left behind.

**`DaemonProofs`**, first part: `Singleton`. `OneServes` is not inductive: it needs to
know where a second daemon can be. The invariant says that the lock of an inode is
held by one process, that everyone past `FlockSucceeds` holds the lock of the file
it opened, that without a takeover there is only one such file, and that with `/proc`
whoever is past `ListProc` has everybody else who was alive then on its list until he
is dead, so that of two only the later one gets on. `HonestPidFile` adds that before
any takeover only the holder of the lock writes the file. With `OneDaemon` the
hypothesis of `DeferredProofs` is what the daemon ensures, on a system with `/proc`.

Second part: `Health`, whose names are chosen apart from those of `Singleton` so that
one module can extend both. `RecoveryAfterThreshold`: a recovery resets
`consecutive` but not the history `busyRun`, so that `consecutive <= busyRun` up to
the threshold, and a multiple of the threshold is not below it. `StallsAreReported`:
a stall that is real when the health file is written is one the daemon sees.
`SightInv` says why. The connection of a daemon that was not harmed is closed only
while it is down. If its transaction is open there is a row waiting (the one whose
write failed), so that the snapshot the next read pins has a row too, however stale
it becomes. And the time the daemon goes by, of its last success with events, is not
later than the last time an event was really completed: a batch that ends without
an error has completed one, if it had any.

**`PolicyGraphProofs`.** The invariant of the search: the path is a path of the graph
without repetition, and a node that has returned has only neighbours that returned
before it (a smaller `rank`), unless a cycle was found. `Completeness`: if none was
found, a set of nodes that each have a neighbour in the set would have a member of
least `rank`, whose neighbour has a smaller one. `Soundness`: the slice of the path
that starts at the node met again runs along edges. `ChainsEnd`: along a chain of
honest policies the rank falls.

**`CompileProofs`.** The invariant follows a text on its way. `OwnInv`: as long as
nobody opened a temporary file in use, there is one writer at a time, the file at
the temporary path is his, and it is empty until he has written the whole of his
buffer, so that a rename puts a whole file at the output path (`FileIsWhole`).
`ReadInv`: the version a compiler has read so far has no error that the validators it
has called look for, which is void if they read different ones (`Mixed`). `CheckInv`:
as long as no edit came in between, the version that it hashes and copies is that
one; what is in a buffer, and so what is at the output path, is checked and has the
right hash, or is disabled (`LoadedIsChecked`).

### Only model-checked

The four liveness properties (`EveryEventServed`, `EveryRequestSettled`,
`LatestSlotEmitted`, `ServedUnlessHarmed`): liveness under fairness and enabledness are
beyond the proof system. The properties of the three runs that find a disagreement
are false.

## 5. Not modelled, and the plan

Next, in this order:

1. Proofs: the composition of `Singleton` and `Deferred`, so that the single daemon
   that `DeferredProofs` assumes is a consequence and not a hypothesis.
2. The daemon's disabling of a policy overwriting a newer compile: `Compile` has it
   (`ReadPolicy`, then `Rename` by a compiler, then by the daemon); no property names
   it, as nothing in the repository says which of the two shall win.

What the models show beside the properties: recoveries that succeed are counted as
attempts for ever (`hex_eventd.py` 971), so that the daemon gives up although none
failed; a redelivered event is in the log when `max_fires` is computed and counts
twice (580); a batch that is cut short counts as processed, so that a poison event
raises no stall alarm (964, 1017); a hanging daemon is judged healthy for ever, by the
age it computed when it last wrote its file (`hex_healthcheck.py` 126); compiling an
unchanged source enables a policy again that the daemon has disabled
(`hex_events_cli.py` 1246, the manifest is lost with the comments). They are
listed as hazards.

Not modelled, and why: the schema checks, `deadcode.py`, `contract_validator.py`,
`producer_check.py` and the event catalog it reads (comparisons of what is written in the
files; in `Compile` each is a validator that passes a version or not); the reports of the command line, `audit-policies.py` and `hex-lineage.py` (they read
and print); `get_observed_events` and `compare_graphs` (likewise); `watchlist-check.py`,
`heartbeat-assess.py` and `update-landings-from-boi.sh` (one-shot jobs of one
installation); the BOI scripts (they drive a program that is not in the repository);
`check-chain-gate.sh` (one read-modify-write, listed as a hazard).

Left out for good: parsing and rendering of YAML and templates, the effects of
shell, notify, dagu and file actions, log formatting, reports, installation.
`hex-watchdog.sh` only probes and alerts. The deprecated `process_event` is
not called by the daemon.

## 6. Running

    tlc -workers 2 -config MCEventLoop.cfg MCEventLoop
    tlapm EventLoopProofs.tla

`PROJECT.json` names the module of each configuration; a run takes up to a
minute or two, the proofs a few minutes.

---------------------------- MODULE PolicyLimits ----------------------------
(***************************************************************************)
(* How often one policy may fire: the rate limit kept in memory            *)
(* (policy.py), max_fires and the rule's ttl kept in the evaluation log    *)
(* (hex_eventd.py, db.py), the policy file that the daemon itself disables *)
(* or deletes when a limit is reached, and the cached copy of the policy   *)
(* it goes on using until the next hot reload.                             *)
(*                                                                         *)
(* The policy has one rule and every event here matches it.  The other     *)
(* policies only matter because an edit to any file reloads all of them.   *)
(* Between any two commits or file operations the daemon may die.  Nobody  *)
(* turns the policy on again once it is off.                               *)
(*                                                                         *)
(* Events are numbered in the order of their insertion.  SQLite may give   *)
(* the id of a deleted event again (EventLoop), but by then the janitor    *)
(* has deleted the log rows of the old one too: the numbers tell apart     *)
(* what no query can confuse.                                              *)
(***************************************************************************)
EXTENDS Integers, Sequences, FiniteSets

CONSTANTS
    RateMax, Window,     \* rate_limit: RateMax fires in Window
    MaxFires,            \* max_fires of the policy
    Ttl,                 \* ttl of the rule
    AfterLimits,         \* the values after_limit may have: "disable", "delete"
    ReloadInterval,      \* the file is looked at after more than this (10 s)
    Retention,           \* age at which the janitor deletes a row (7 days)
    MaxTime,             \* bound: the clock
    MaxEvents,           \* bound: events published
    MaxEdits,            \* bound: edits of policy files by hand
    MaxFaults            \* bound: crashes and failed log writes

ASSUME ParametersAssumption ==
    /\ \A n \in {RateMax, Window, MaxFires, Ttl, ReloadInterval, Retention,
                 MaxTime, MaxEvents, MaxEdits, MaxFaults} : n \in Nat
    /\ MaxFires > 0   \* policy_validator.py refuses any other
    /\ AfterLimits \subseteq {"disable", "delete"}

VARIABLES
    now,                 \* the clock
    born,                \* creation time of each event; the id is the index
    unprocessed,         \* events with processed_at IS NULL
    evalLog,             \* rows with action_taken = 1: [event, at]
    file,                \* the policy file: enabled, disabled or deleted
    afterLimit,          \* after_limit of the policy
    version,             \* stands for the mtimes of all the policy files
    offSince,            \* history: when the policy file stopped being enabled
    pc,                  \* the daemon: down, idle, poll, batch, acting, limits, log, mark
    cached,              \* the version _policy_list_cache was loaded from
    lastLoad,            \* last_recipe_load
    loaded,              \* the policy is among the cached ones
    lastFires,           \* its last_fires
    generation,          \* history: number of the policy object in memory
    batch, cur, nowTs,   \* the poll, the event in progress, when it was started
    cycleAt,             \* when this turn of the main loop began
    edits, faults,
    fires                \* history: the fires, oldest first: [event, at, gen, stale, ok]

Never == -1              \* before the first load, or still enabled

disk == <<born, unprocessed, evalLog, file, version, offSince>>
policy == <<afterLimit, cached, lastLoad, loaded, lastFires, generation>>
local == <<batch, cur, nowTs, cycleAt>>
vars == <<now, disk, pc, policy, local, edits, faults, fires>>

Events == 1 .. Len(born)

TypeOK ==
    /\ now \in 0 .. MaxTime
    /\ born \in Seq(Nat) /\ unprocessed \subseteq Events
    /\ evalLog \subseteq [event : Events, at : Nat]
    /\ file \in {"enabled", "disabled", "deleted"} /\ afterLimit \in AfterLimits
    /\ version \in Nat /\ cached \in Nat \cup {Never} /\ lastLoad \in Nat \cup {Never}
    /\ pc \in {"down", "idle", "poll", "batch", "acting", "limits", "log", "mark"}
    /\ loaded \in BOOLEAN /\ lastFires \in Seq(Nat) /\ generation \in Nat
    /\ offSince \in Nat \cup {Never} /\ cycleAt \in Nat
    /\ batch \subseteq Events /\ cur \in Nat /\ nowTs \in Nat
    /\ edits \in Nat /\ faults \in Nat
    /\ fires \in Seq([event : Events, at : Nat, gen : Nat,
                      stale : BOOLEAN, ok : BOOLEAN])

Init ==
    /\ now = 0 /\ born = <<>> /\ unprocessed = {} /\ evalLog = {}
    /\ file = "enabled" /\ version = 0 /\ afterLimit \in AfterLimits
    /\ pc = "down"
    /\ cached = Never /\ lastLoad = Never /\ loaded = FALSE
    /\ lastFires = <<>> /\ generation = 0
    /\ batch = {} /\ cur = 0 /\ nowTs = 0 /\ cycleAt = 0 /\ offSince = Never
    /\ edits = 0 /\ faults = 0 /\ fires = <<>>

-----------------------------------------------------------------------------
(* What the daemon reads off its state                                     *)

\* check_rate_limit: the fires of the object in memory, since the cutoff.
Recent == {i \in 1 .. Len(lastFires) : lastFires[i] >= now - Window}
\* Mutant of RateAdmits: one fire too many.
RateAdmitsOneMore == Cardinality(Recent) <= RateMax

RateAdmits == Cardinality(Recent) < RateMax

\* _check_rule_ttl: the clock starts at the oldest row still in the log.
Expired == \E r \in evalLog : now - r.at > Ttl

\* count_policy_fires: distinct events.
Fired == {r.event : r \in evalLog}

-----------------------------------------------------------------------------
(* The policy file                                                         *)

WriteFile(f) ==
    /\ file' = f /\ version' = version + 1
    /\ offSince' = IF file = "enabled" THEN now ELSE offSince

RemoveFile ==
    IF file = "deleted" THEN UNCHANGED <<file, version, offSince>> ELSE WriteFile("deleted")

\* _disable_policy_file rewrites the file, whether it was enabled or not.
DisableFile ==
    IF file = "deleted" THEN UNCHANGED <<file, version, offSince>> ELSE WriteFile("disabled")

\* Somebody sets enabled: false in the policy file, or removes it.
SwitchOff ==
    /\ file = "enabled" /\ edits < MaxEdits /\ edits' = edits + 1
    /\ DisableFile \/ RemoveFile
    /\ UNCHANGED <<now, born, unprocessed, evalLog, pc, policy, local, faults, fires>>

\* Somebody edits, adds or removes another policy file.
EditOther ==
    /\ edits < MaxEdits /\ edits' = edits + 1
    /\ version' = version + 1
    /\ UNCHANGED <<now, born, unprocessed, evalLog, file, offSince,
                   pc, policy, local, faults, fires>>

-----------------------------------------------------------------------------
\* Mutant of Publish: the id handed out is the last one again.
PublishLastId ==
    /\ Len(born) < MaxEvents
    /\ born' = Append(born, now)
    /\ unprocessed' = unprocessed \cup {Len(born)}
    /\ UNCHANGED <<now, evalLog, file, version, offSince, pc, policy, local,
                   edits, faults, fires>>

Publish ==
    /\ Len(born) < MaxEvents
    /\ born' = Append(born, now)
    /\ unprocessed' = unprocessed \cup {Len(born) + 1}
    /\ UNCHANGED <<now, evalLog, file, version, offSince, pc, policy, local,
                   edits, faults, fires>>

Tick ==
    /\ now < MaxTime /\ now' = now + 1
    /\ UNCHANGED <<disk, pc, policy, local, edits, faults, fires>>

\* _load_policies_validated: nothing is read when no mtime changed;
\* otherwise every policy is built anew, with an empty last_fires.
LoadPolicies ==
    IF version = cached
    THEN UNCHANGED <<cached, loaded, lastFires, generation>>
    ELSE /\ cached' = version
         /\ loaded' = (file = "enabled")
         /\ lastFires' = <<>>
         /\ generation' = generation + 1

\* Mutant of BeginCycle: the time of the last load is set in every cycle.
BeginCycleRestarts ==
    /\ pc = "idle"
    /\ IF lastLoad = Never \/ now - lastLoad > ReloadInterval
       THEN LoadPolicies
       ELSE UNCHANGED <<cached, loaded, lastFires, generation>>
    /\ lastLoad' = now /\ UNCHANGED afterLimit
    /\ cycleAt' = now
    /\ pc' = "poll"
    /\ UNCHANGED <<now, disk, batch, cur, nowTs, edits, faults, fires>>

\* The top of the loop: the hot reload, when it is due.
BeginCycle ==
    /\ pc = "idle"
    /\ IF lastLoad = Never \/ now - lastLoad > ReloadInterval
       THEN LoadPolicies /\ lastLoad' = now /\ UNCHANGED afterLimit
       ELSE UNCHANGED policy
    /\ cycleAt' = now
    /\ pc' = "poll"
    /\ UNCHANGED <<now, disk, batch, cur, nowTs, edits, faults, fires>>

Poll ==
    /\ pc = "poll"
    /\ batch' = unprocessed /\ pc' = "batch"
    /\ UNCHANGED <<now, disk, policy, cur, nowTs, cycleAt, edits, faults, fires>>

EndBatch ==
    /\ pc = "batch" /\ batch = {}
    /\ pc' = "idle"
    /\ UNCHANGED <<now, disk, policy, local, edits, faults, fires>>

IsNext(e) == pc = "batch" /\ e \in batch /\ \A f \in batch : e <= f

\* An event that the policy does not act on: it is not loaded, its rate limit
\* suppresses it, or its conditions fail.
PassBy(e) ==
    /\ IsNext(e)
    /\ batch' = batch \ {e}
    /\ unprocessed' = unprocessed \ {e}
    /\ UNCHANGED <<now, born, evalLog, file, version, offSince, pc, policy, cur,
                   nowTs, cycleAt, edits, faults, fires>>

NotLoaded(e) == ~loaded /\ PassBy(e)
Suppress(e) == loaded /\ ~RateAdmits /\ PassBy(e)
Reject(e) == loaded /\ RateAdmits /\ ~Expired /\ PassBy(e)

\* The ttl has expired: the rule is skipped, and with after_limit: delete the
\* policy file goes.
Expire(e) ==
    /\ loaded /\ RateAdmits /\ Expired /\ IsNext(e)
    /\ IF afterLimit = "delete" THEN RemoveFile ELSE UNCHANGED <<file, version, offSince>>
    /\ batch' = batch \ {e}
    /\ cur' = e /\ nowTs' = now
    /\ pc' = "mark"
    /\ UNCHANGED <<now, born, unprocessed, evalLog, policy, cycleAt, edits, faults, fires>>

\* The rate limit and the ttl admit the event and its conditions hold.
Admit(e) ==
    /\ loaded /\ RateAdmits /\ ~Expired /\ IsNext(e)
    /\ batch' = batch \ {e}
    /\ cur' = e /\ nowTs' = now
    /\ pc' = "acting"
    /\ UNCHANGED <<now, disk, policy, cycleAt, edits, faults, fires>>

\* The actions have run, all with success or not; record_fire.
Act(ok) ==
    /\ pc = "acting"
    /\ fires' = Append(fires, [event |-> cur, at |-> now,
                               gen |-> generation, stale |-> version # cached, ok |-> ok])
    /\ lastFires' = Append(lastFires, now)
    /\ pc' = IF ok THEN "limits" ELSE "log"
    /\ UNCHANGED <<now, disk, afterLimit, cached, lastLoad, loaded, generation, local,
                   edits, faults>>

\* Mutant of HandleLimits: the current fire is not counted.
HandleLimitsLate ==
    /\ pc = "limits"
    /\ IF Cardinality(Fired) >= MaxFires
       THEN IF afterLimit = "delete" THEN RemoveFile ELSE DisableFile
       ELSE UNCHANGED <<file, version, offSince>>
    /\ pc' = "log"
    /\ UNCHANGED <<now, born, unprocessed, evalLog, policy, local, edits, faults, fires>>

\* _handle_policy_limits: the current fire is not in the log yet.
HandleLimits ==
    /\ pc = "limits"
    /\ IF Cardinality(Fired) + 1 >= MaxFires
       THEN IF afterLimit = "delete" THEN RemoveFile ELSE DisableFile
       ELSE UNCHANGED <<file, version, offSince>>
    /\ pc' = "log"
    /\ UNCHANGED <<now, born, unprocessed, evalLog, policy, local, edits, faults, fires>>

LogEvals ==
    /\ pc = "log"
    /\ evalLog' = evalLog \cup {[event |-> cur, at |-> nowTs]}
    /\ pc' = "mark"
    /\ UNCHANGED <<now, born, unprocessed, file, version, offSince, policy, local,
                   edits, faults, fires>>

\* The write fails, which is only logged.
LogEvalsFails ==
    /\ pc = "log" /\ faults < MaxFaults /\ faults' = faults + 1
    /\ pc' = "mark"
    /\ UNCHANGED <<now, disk, policy, local, edits, fires>>

Mark ==
    /\ pc = "mark"
    /\ unprocessed' = unprocessed \ {cur}
    /\ cur' = 0 /\ nowTs' = 0
    /\ pc' = "batch"
    /\ UNCHANGED <<now, born, evalLog, file, version, offSince, policy, batch, cycleAt,
                   edits, faults, fires>>

Old(e) == born[e] + Retention < now

Janitor ==
    /\ pc = "idle"
    /\ \E e \in unprocessed \cup Fired : Old(e)
    /\ unprocessed' = {e \in unprocessed : ~Old(e)}
    /\ evalLog' = {r \in evalLog : ~Old(r.event)}
    /\ UNCHANGED <<now, born, file, version, offSince, pc, policy, local,
                   edits, faults, fires>>

Crash ==
    /\ pc # "down" /\ faults < MaxFaults /\ faults' = faults + 1
    /\ pc' = "down"
    /\ cached' = Never /\ lastLoad' = Never /\ loaded' = FALSE /\ lastFires' = <<>>
    /\ batch' = {} /\ cur' = 0 /\ nowTs' = 0 /\ cycleAt' = 0
    /\ UNCHANGED <<now, disk, afterLimit, generation, edits, fires>>

Restart ==
    /\ pc = "down" /\ pc' = "idle"
    /\ UNCHANGED <<now, disk, policy, local, edits, faults, fires>>

Daemon ==
    \/ BeginCycle \/ Poll \/ EndBatch
    \/ \E e \in batch :
           NotLoaded(e) \/ Suppress(e) \/ Reject(e) \/ Expire(e) \/ Admit(e)
    \/ \E ok \in BOOLEAN : Act(ok)
    \/ HandleLimits \/ LogEvals \/ Mark

Next ==
    \/ Daemon \/ Restart
    \/ Publish \/ SwitchOff \/ EditOther \/ Tick \/ Janitor
    \/ LogEvalsFails \/ Crash

Spec == Init /\ [][Next]_vars

-----------------------------------------------------------------------------
(* Properties                                                              *)

\* The rate limit holds for one policy object: between two reloads, no window
\* that ends with a fire holds more than RateMax fires, although the fires
\* are recorded only after the actions and the check came before them.
RateHeldByGeneration ==
    \A i \in 1 .. Len(fires) :
        Cardinality({j \in 1 .. i : /\ fires[j].gen = fires[i].gen
                                    /\ fires[j].at >= fires[i].at - Window}) <= RateMax

\* A fire counts when all the actions succeeded, at every delivery of the event.
FiredOn(n) == {fires[i].event : i \in 1 .. n}
Succeeded(n) == FiredOn(n) \ {fires[i].event : i \in {j \in 1 .. n : ~fires[j].ok}}

\* policy.py:67, "fire at most N times, then auto-disable": so it is of a copy
\* that is up to date, as long as the log still counts every event that fired.
MaxFiresHeldWhileLogged ==
    [][(Len(fires') > Len(fires) /\ ~fires'[Len(fires')].stale
           /\ FiredOn(Len(fires)) \ {cur} \subseteq Fired)
       => Cardinality(Succeeded(Len(fires))') <= MaxFires]_vars

\* README.md:79, "the daemon hot-reloads them every 10 seconds": a policy that
\* was switched off, by hand or by a limit, does not act on an event in a cycle
\* that began more than the reload interval later, although the daemon goes on
\* with its cached copy and drops it only when a version has changed.
SilentOnceReloaded ==
    pc = "acting" /\ offSince # Never => cycleAt - offSince <= ReloadInterval
=============================================================================

------------------------------ MODULE Scheduler ------------------------------
(***************************************************************************)
(* The scheduler adapter (adapters/scheduler.py): timer events on cron     *)
(* schedules.  Every cycle of the daemon looks up the latest occurrence    *)
(* (slot) of each schedule and inserts an event for it unless a row with   *)
(* that dedup_key is in the events table; a starting daemon does the same  *)
(* once, as a catch-up.  The rows that carry the keys are the ordinary     *)
(* event rows, which the janitor deletes when they are old.                *)
(*                                                                         *)
(* One step per schedule of a tick: the inserts commit one by one, each    *)
(* can fail alone, and the clock goes on while the tick uses the time it   *)
(* was given.                                                              *)
(***************************************************************************)
EXTENDS Naturals

CONSTANTS
    Schedules,           \* the entries of scheduler.yaml, one per event type
    LastTick(_, _),      \* croniter: the latest occurrence of a schedule at a time
    Retention,           \* age at which the janitor deletes a row
    MaxTime,             \* bound: the clock
    MaxFaults            \* bound: crashes, failed inserts, unreadable configs

ASSUME BoundsAssumption ==
    Retention \in Nat /\ MaxTime \in Nat /\ MaxFaults \in Nat

\* What is used of croniter: the occurrence it returns is not in the future,
\* and there is none between it and the time asked for.
ASSUME CronAssumption ==
    \A s \in Schedules, t \in 0 .. MaxTime :
        /\ LastTick(s, t) \in 0 .. t
        /\ \A u \in t .. MaxTime :
               /\ LastTick(s, t) <= LastTick(s, u)
               /\ LastTick(s, u) <= t => LastTick(s, u) = LastTick(s, t)

VARIABLES
    now,                 \* the clock
    table,               \* timer rows of events: [sched, slot, at, done]
    loaded,              \* schedules the adapter has in memory
    pc,                  \* the daemon: down, catchup, idle, tick
    todo,                \* schedules this pass has not looked at
    tickNow,             \* the time the pass was given
    failed,              \* schedules whose insert failed in this pass
    faults,
    emitted,             \* history: the slots emitted, <<schedule, slot>>
    again                \* history: the slots emitted more than once

vars == <<now, table, loaded, pc, todo, tickNow, failed, faults, emitted, again>>

Time == 0 .. MaxTime
Rows == [sched : Schedules, slot : Time, at : Time, done : BOOLEAN]
InPass == pc \in {"catchup", "tick"}

TypeOK ==
    /\ now \in Time /\ tickNow \in Time
    /\ table \subseteq Rows
    /\ loaded \subseteq Schedules /\ todo \subseteq Schedules /\ failed \subseteq Schedules
    /\ pc \in {"down", "catchup", "idle", "tick"}
    /\ faults \in Nat
    /\ emitted \subseteq Schedules \X Time /\ again \subseteq emitted

Init ==
    /\ now = 0 /\ table = {} /\ loaded = {}
    /\ pc = "down" /\ todo = {} /\ tickNow = 0 /\ failed = {} /\ faults = 0
    /\ emitted = {} /\ again = {}

Fault == faults < MaxFaults /\ faults' = faults + 1

-----------------------------------------------------------------------------
\* Mutant of BeginPass: the catch-up starts from the epoch.
BeginPassFromEpoch(kind, schedules) ==
    /\ pc' = kind /\ todo' = schedules /\ failed' = {}
    /\ tickNow' = IF kind = "catchup" THEN 0 ELSE now
    /\ UNCHANGED <<now, table, emitted, again>>

BeginPass(kind, schedules) ==
    /\ pc' = kind /\ todo' = schedules /\ tickNow' = now /\ failed' = {}
    /\ UNCHANGED <<now, table, emitted, again>>

\* The daemon starts: the adapter reads its configuration and catches up.
Start ==
    /\ pc = "down"
    /\ loaded' = Schedules
    /\ BeginPass("catchup", Schedules)
    /\ UNCHANGED faults

\* _load fails while the file is being written: the schedules are empty.
StartUnreadable ==
    /\ pc = "down" /\ Fault
    /\ loaded' = {}
    /\ BeginPass("catchup", {})

Tick ==
    /\ pc = "idle"
    /\ BeginPass("tick", loaded)
    /\ UNCHANGED <<loaded, faults>>

\* Mutant of Reload: the configuration is never read again.
ReloadNothing == pc = "idle" /\ UNCHANGED vars

Reload ==
    /\ pc = "idle" /\ loaded' = Schedules
    /\ UNCHANGED <<now, table, pc, todo, tickNow, failed, faults, emitted, again>>

ReloadUnreadable ==
    /\ pc = "idle" /\ Fault /\ loaded' = {}
    /\ UNCHANGED <<now, table, pc, todo, tickNow, failed, emitted, again>>

\* Mutant of KeyExists: only processed rows count, as in insert_event.
KeyExistsProcessed(s, slot) == \E r \in table : r.sched = s /\ r.slot = slot /\ r.done

\* Mutant of KeyExists: the key does not hold the time.
KeyExistsAnySlot(s, slot) == \E r \in table : r.sched = s

\* _dedup_key_exists: processed or not.
KeyExists(s, slot) == \E r \in table : r.sched = s /\ r.slot = slot

SkipSlot(s) ==
    /\ InPass /\ KeyExists(s, LastTick(s, tickNow))
    /\ todo' = todo \ {s}
    /\ UNCHANGED <<now, table, loaded, pc, tickNow, failed, faults, emitted, again>>

\* Mutant of EmitSlot: the next occurrence instead of the last.
EmitNextSlot(s) ==
    LET slot == LastTick(s, tickNow) + 1 IN
    /\ InPass /\ ~KeyExists(s, slot)
    /\ table' = table \cup {[sched |-> s, slot |-> slot, at |-> now, done |-> FALSE]}
    /\ emitted' = emitted \cup {<<s, slot>>}
    /\ again' = again \cup (emitted \cap {<<s, slot>>})
    /\ todo' = todo \ {s}
    /\ UNCHANGED <<now, loaded, pc, tickNow, failed, faults>>

\* insert_event with the dedup key; its own check of the processed rows adds
\* nothing to KeyExists.
EmitSlot(s) ==
    LET slot == LastTick(s, tickNow) IN
    /\ InPass /\ ~KeyExists(s, slot)
    /\ table' = table \cup {[sched |-> s, slot |-> slot, at |-> now, done |-> FALSE]}
    /\ emitted' = emitted \cup {<<s, slot>>}
    /\ again' = again \cup (emitted \cap {<<s, slot>>})
    /\ todo' = todo \ {s}
    /\ UNCHANGED <<now, loaded, pc, tickNow, failed, faults>>

\* The insert raises ("database is locked"): logged, and the pass goes on.
\* (Health follows what that does to the connection.)
InsertFails(s) ==
    /\ InPass /\ ~KeyExists(s, LastTick(s, tickNow)) /\ Fault
    /\ failed' = failed \cup {s}
    /\ todo' = todo \ {s}
    /\ UNCHANGED <<now, table, loaded, pc, tickNow, emitted, again>>

EndPass ==
    /\ InPass /\ todo = {}
    /\ pc' = "idle" /\ tickNow' = 0 /\ failed' = {}
    /\ UNCHANGED <<now, table, loaded, todo, faults, emitted, again>>

\* The event loop takes the waiting rows, timer events among them, and marks
\* them processed (EventLoop has the steps).
Process ==
    /\ pc = "idle" /\ \E r \in table : ~r.done
    /\ table' = {[r EXCEPT !.done = TRUE] : r \in table}
    /\ UNCHANGED <<now, loaded, pc, todo, tickNow, failed, faults, emitted, again>>

Old(r) == r.at + Retention < now

Janitor ==
    /\ pc = "idle" /\ \E r \in table : Old(r)
    /\ table' = {r \in table : ~Old(r)}
    /\ UNCHANGED <<now, loaded, pc, todo, tickNow, failed, faults, emitted, again>>

Crash ==
    /\ pc # "down" /\ Fault
    /\ pc' = "down" /\ loaded' = {} /\ todo' = {} /\ tickNow' = 0 /\ failed' = {}
    /\ UNCHANGED <<now, table, emitted, again>>

Clock ==
    /\ now < MaxTime
    /\ now' = now + 1
    /\ UNCHANGED <<table, loaded, pc, todo, tickNow, failed, faults, emitted, again>>

Pass ==
    \/ Start \/ Tick \/ EndPass
    \/ \E s \in todo : SkipSlot(s) \/ EmitSlot(s)

Next ==
    \/ Pass \/ Reload \/ Process \/ Janitor \/ Clock
    \/ StartUnreadable \/ ReloadUnreadable \/ Crash
    \/ \E s \in todo : InsertFails(s)

Spec == Init /\ [][Next]_vars

\* The loop ticks and reloads for ever, launchd restarts it, time goes on.
\* The reload is enabled again and again between two passes, never for good,
\* and the loop does it every minute: strong fairness.
FairSpec ==
    /\ Spec /\ WF_vars(Clock) /\ WF_vars(Start \/ EndPass)
    /\ WF_vars(\E s \in todo : SkipSlot(s) \/ EmitSlot(s))
    /\ WF_vars(Tick) /\ SF_vars(Reload /\ loaded # Schedules)

-----------------------------------------------------------------------------
(* Properties                                                              *)

\* tick: "each cron window fires exactly once regardless of how often the
\* daemon loops".  At most once: no slot of a schedule is emitted twice, in
\* one run of the daemon, by the catch-up of the next, or after the janitor.
AtMostOncePerSlot == again = {}

\* ... and at least once: a pass that has looked at a schedule leaves its
\* slot emitted, by this pass or an earlier one, unless the insert failed.
PassCoversSlots ==
    InPass => \A s \in loaded \ (todo \cup failed) :
                  <<s, LastTick(s, tickNow)>> \in emitted

\* The slots of a schedule are emitted in the order of time, also across a
\* restart: a catch-up never goes back to a slot older than one emitted.
SlotsInOrder ==
    [][\A e \in emitted' \ emitted : \A f \in emitted :
           f[1] = e[1] => f[2] < e[2]]_vars

\* When the clock stands still, the latest slot of every schedule has been
\* emitted in the end, although the daemon crashed or the configuration could
\* not be read on the way.  This is said of runs in which no insert fails:
\* Health shows what a swallowed lock error does to the connection.
LatestSlotEmitted ==
    [](failed = {}) => \A s \in Schedules : <>(<<s, LastTick(s, MaxTime)>> \in emitted)
=============================================================================

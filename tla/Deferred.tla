------------------------------ MODULE Deferred ------------------------------
(***************************************************************************)
(* Delayed emits: the emit action with a delay writes deferred_events      *)
(* (actions/emit.py, EventsDB.insert_deferred), and every cycle of the     *)
(* daemon drains the rows that are due into the events table               *)
(* (drain_deferred), deleting each row before it inserts the event.        *)
(*                                                                         *)
(* One step per commit.  A daemon may die, or find the database locked,    *)
(* between any two of them.  The module is parameterised by the set of     *)
(* running daemons: the singleton lock is meant to keep it a singleton.    *)
(***************************************************************************)
EXTENDS Naturals, Sequences, FiniteSets

CONSTANTS
    Daemons,             \* the processes that run the event loop on one database
    Groups,              \* cancel groups
    NoGroup,             \* an emit without cancel_group
    Delays,              \* the delays policies ask for; 0: no delay, or "0s"
    MaxRequests,         \* bound: emit actions run
    MaxTime,             \* bound: the clock
    MaxFaults            \* bound: crashes and locked-database errors

ASSUME ParametersAssumption ==
    /\ NoGroup \notin Groups
    /\ Delays \subseteq Nat
    /\ MaxRequests \in Nat /\ MaxTime \in Nat /\ MaxFaults \in Nat

VARIABLES
    now,                 \* the clock
    deferred,            \* deferred_events
    events,              \* events inserted, oldest first: [req, fire, at]
    pc,                  \* of each daemon: down, idle, drain, promote
    due,                 \* of each daemon: rows read by get_due_deferred, still to do
    hand,                \* of each daemon: the row deleted and not yet inserted
    requests,            \* emit actions run so far; each request has its number
    faults,
    replaced,            \* history: requests deleted by a later one of their group
    cancelled,           \* history: requests pending when an immediate emit named their group
    lost                 \* history: requests deleted whose event was never inserted

history == <<replaced, cancelled, lost>>
vars == <<now, deferred, events, pc, due, hand, requests, faults, history>>

\* req is the number of the emit action that made the row; id is the rowid,
\* which SQLite may hand out again once the row is gone.
Rows == [id : Nat, req : Nat, fire : Nat, group : Groups \cup {NoGroup}]
Fired == [req : Nat, fire : Nat, at : Nat]

TypeOK ==
    /\ now \in Nat
    /\ deferred \subseteq Rows
    /\ events \in Seq(Fired)
    /\ pc \in [Daemons -> {"down", "idle", "drain", "promote"}]
    /\ due \in [Daemons -> SUBSET Rows]
    /\ hand \in [Daemons -> Rows \cup {NoGroup}]
    /\ \A d \in Daemons : pc[d] = "promote" => hand[d] \in Rows
    /\ requests \in Nat /\ faults \in Nat
    /\ replaced \subseteq Nat /\ cancelled \subseteq Nat /\ lost \subseteq Nat

Init ==
    /\ now = 0 /\ deferred = {} /\ events = <<>>
    /\ pc = [d \in Daemons |-> "down"]
    /\ due = [d \in Daemons |-> {}]
    /\ hand = [d \in Daemons |-> NoGroup]
    /\ requests = 0 /\ faults = 0
    /\ replaced = {} /\ cancelled = {} /\ lost = {}

-----------------------------------------------------------------------------
OfGroup(g) == IF g = NoGroup THEN {} ELSE {r \in deferred : r.group = g}

\* Mutant of IsNewRowId: ids are not unique in the table.
IsFirstRowId(id, table) == id = 1

\* INTEGER PRIMARY KEY: one more than the largest rowid in the table.
IsNewRowId(id, table) ==
    /\ \A r \in table : r.id < id
    /\ id = 1 \/ \E r \in table : r.id + 1 = id

\* Mutant of EmitDeferred: the group's earlier rows stay.
EmitAnother(d, g) ==
    /\ pc[d] = "idle" /\ requests < MaxRequests
    /\ \E delay \in Delays \ {0}, id \in 1 .. MaxRequests :
           /\ now + delay <= MaxTime
           /\ IsNewRowId(id, deferred)
           /\ deferred' = deferred \cup {[id |-> id, req |-> requests + 1,
                                          fire |-> now + delay, group |-> g]}
    /\ requests' = requests + 1
    /\ replaced' = replaced \cup {r.req : r \in OfGroup(g)}
    /\ UNCHANGED <<now, events, pc, due, hand, faults, cancelled, lost>>

\* emit with a delay: replace the group's rows and insert, in one commit.
EmitDeferred(d, g) ==
    /\ pc[d] = "idle" /\ requests < MaxRequests
    /\ \E delay \in Delays \ {0}, id \in 1 .. MaxRequests :
           LET kept == deferred \ OfGroup(g) IN
           /\ now + delay <= MaxTime
           /\ IsNewRowId(id, kept)
           /\ deferred' = kept \cup {[id |-> id, req |-> requests + 1,
                                      fire |-> now + delay, group |-> g]}
    /\ requests' = requests + 1
    /\ replaced' = replaced \cup {r.req : r \in OfGroup(g)}
    /\ UNCHANGED <<now, events, pc, due, hand, faults, cancelled, lost>>

\* emit without a delay: the event is inserted, cancel_group is not looked at.
EmitNow(d, g) ==
    /\ pc[d] = "idle" /\ requests < MaxRequests /\ 0 \in Delays
    /\ events' = Append(events, [req |-> requests + 1, fire |-> now, at |-> now])
    /\ requests' = requests + 1
    /\ cancelled' = cancelled \cup {r.req : r \in OfGroup(g)}
    /\ UNCHANGED <<now, deferred, pc, due, hand, faults, replaced, lost>>

\* get_due_deferred: a snapshot of the rows whose time has come.
BeginDrain(d) ==
    /\ pc[d] = "idle"
    /\ \E r \in deferred : r.fire <= now
    /\ due' = [due EXCEPT ![d] = {r \in deferred : r.fire <= now}]
    /\ pc' = [pc EXCEPT ![d] = "drain"]
    /\ UNCHANGED <<now, deferred, events, hand, requests, faults, history>>

Before(r, s) == r.fire < s.fire \/ (r.fire = s.fire /\ r.id <= s.id)
IsFirst(r, d) == r \in due[d] /\ \A s \in due[d] : Before(r, s)

\* Mutant of DeleteDeferred: the deletion is never committed.
DeleteUncommitted(d, r) ==
    /\ pc[d] = "drain" /\ IsFirst(r, d)
    /\ due' = [due EXCEPT ![d] = @ \ {r}]
    /\ hand' = [hand EXCEPT ![d] = r]
    /\ pc' = [pc EXCEPT ![d] = "promote"]
    /\ UNCHANGED <<now, deferred, events, requests, faults, history>>

\* Mutant of DeleteDeferred: the row is not kept for the insert.
DeleteAndForget(d, r) ==
    /\ pc[d] = "drain" /\ IsFirst(r, d)
    /\ deferred' = {s \in deferred : s.id # r.id}
    /\ due' = [due EXCEPT ![d] = @ \ {r}]
    /\ pc' = [pc EXCEPT ![d] = "promote"]
    /\ UNCHANGED <<now, events, hand, requests, faults, history>>

\* delete_deferred, by rowid, committed.
DeleteDeferred(d, r) ==
    /\ pc[d] = "drain" /\ IsFirst(r, d)
    /\ deferred' = {s \in deferred : s.id # r.id}
    /\ due' = [due EXCEPT ![d] = @ \ {r}]
    /\ hand' = [hand EXCEPT ![d] = r]
    /\ pc' = [pc EXCEPT ![d] = "promote"]
    /\ UNCHANGED <<now, events, requests, faults, history>>

\* insert_event, committed.
Promote(d) ==
    /\ pc[d] = "promote"
    /\ events' = Append(events, [req |-> hand[d].req, fire |-> hand[d].fire, at |-> now])
    /\ hand' = [hand EXCEPT ![d] = NoGroup]
    /\ pc' = [pc EXCEPT ![d] = "drain"]
    /\ UNCHANGED <<now, deferred, due, requests, faults, history>>

\* Mutant of EndDrain: the loop over the due rows does not end.
EndNoDrain(d) == pc[d] = "drain" /\ due[d] = {} /\ UNCHANGED vars

EndDrain(d) ==
    /\ pc[d] = "drain" /\ due[d] = {}
    /\ pc' = [pc EXCEPT ![d] = "idle"]
    /\ UNCHANGED <<now, deferred, events, due, hand, requests, faults, history>>

\* The drain stops where it is: a row already deleted is gone.
Forget(d) ==
    /\ due' = [due EXCEPT ![d] = {}]
    /\ hand' = [hand EXCEPT ![d] = NoGroup]
    /\ lost' = IF pc[d] = "promote" THEN lost \cup {hand[d].req} ELSE lost
    /\ UNCHANGED <<replaced, cancelled>>

\* "database is locked" at the delete or at the insert: drain_deferred raises
\* and the cycle goes on without it.
Locked(d) ==
    /\ pc[d] = "promote" \/ (pc[d] = "drain" /\ due[d] # {})
    /\ faults < MaxFaults /\ faults' = faults + 1
    /\ pc' = [pc EXCEPT ![d] = "idle"]
    /\ Forget(d)
    /\ UNCHANGED <<now, deferred, events, requests>>

Crash(d) ==
    /\ pc[d] # "down"
    /\ faults < MaxFaults /\ faults' = faults + 1
    /\ pc' = [pc EXCEPT ![d] = "down"]
    /\ Forget(d)
    /\ UNCHANGED <<now, deferred, events, requests>>

Restart(d) ==
    /\ pc[d] = "down"
    /\ pc' = [pc EXCEPT ![d] = "idle"]
    /\ UNCHANGED <<now, deferred, events, due, hand, requests, faults, history>>

Tick ==
    /\ now < MaxTime
    /\ now' = now + 1
    /\ UNCHANGED <<deferred, events, pc, due, hand, requests, faults, history>>

Drain(d) ==
    \/ BeginDrain(d) \/ \E r \in due[d] : DeleteDeferred(d, r)
    \/ Promote(d) \/ EndDrain(d)

Emit(d) == \E g \in Groups \cup {NoGroup} : EmitDeferred(d, g) \/ EmitNow(d, g)

Next ==
    \/ Tick
    \/ \E d \in Daemons :
           Drain(d) \/ Emit(d) \/ Locked(d) \/ Crash(d) \/ Restart(d)

Spec == Init /\ [][Next]_vars

\* Time passes, the daemon drains once a cycle and launchd restarts it.
FairSpec ==
    /\ Spec /\ WF_vars(Tick)
    /\ \A d \in Daemons : WF_vars(Drain(d)) /\ WF_vars(Restart(d))

-----------------------------------------------------------------------------
(* Properties                                                              *)

\* One emit action makes at most one event: deleting the row before the
\* insert can lose the event, never double it ("lost > doubled").
NeverDoubled ==
    \A i, j \in 1 .. Len(events) : events[i].req = events[j].req => i = j

\* Last write wins: a request whose row a later request of its cancel group
\* replaced never becomes an event, not even when the drain had begun.
ReplacedNeverFires == \A i \in 1 .. Len(events) : events[i].req \notin replaced

\* A cancel group never has two rows waiting.
OnePerGroup ==
    \A r, s \in deferred : r.group = s.group /\ r.group # NoGroup => r = s

\* No request disappears unaccounted for: every one made is waiting, in the
\* daemon's hand, an event, replaced or lost, and only faults lose them, at
\* most one each.
Waiting == {r.req : r \in deferred}
InHand == {hand[d].req : d \in {e \in Daemons : pc[e] = "promote"}}
HaveFired == {events[i].req : i \in 1 .. Len(events)}
NothingVanishes ==
    /\ 1 .. requests = Waiting \cup InHand \cup HaveFired \cup replaced \cup lost
    /\ Cardinality(lost) <= faults
    /\ lost \cap HaveFired = {}

\* A deferred event is never early, however the drain was interrupted.
NeverEarly == \A i \in 1 .. Len(events) : events[i].at >= events[i].fire

\* README: an emit that names a cancel group cancels the group's pending
\* deferred events.
CancelledNeverFires == \A i \in 1 .. Len(events) : events[i].req \notin cancelled

\* Every request is settled in the end: it fires, is replaced, or is lost to
\* a fault; none waits for ever in the table.
EveryRequestSettled ==
    \A n \in 1 .. MaxRequests : n \in Waiting ~> n \in HaveFired \cup replaced \cup lost
=============================================================================

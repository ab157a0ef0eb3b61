----------------------------- MODULE EventQueue -----------------------------
(***************************************************************************)
(* What the event bus promises its clients, whatever the daemon does to    *)
(* keep the promise: a new event comes after every event in the table, the *)
(* oldest pending event is the only one that can be completed, what was    *)
(* completed does not become pending again while its row exists, and no    *)
(* row ever changes its type.  Rows of any age may be deleted, pending or  *)
(* not.  That ids are consecutive, or that the id of a deleted event is    *)
(* never given to another one, is not promised.                            *)
(*                                                                         *)
(* EventLoop, the detailed model of the daemon, implements this module.    *)
(***************************************************************************)
EXTENDS Naturals

CONSTANT Kinds           \* event types

VARIABLES
    events,              \* the rows of the table: type of each id
    pending              \* ids of the events not yet completed

queueVars == <<events, pending>>

QueueInit == DOMAIN events = {} /\ pending = {}

\* An event is published: it waits behind all the others.
Enqueue(i, k) ==
    /\ \A j \in DOMAIN events : j < i
    /\ events' = [j \in DOMAIN events \cup {i} |-> IF j = i THEN k ELSE events[j]]
    /\ pending' = pending \cup {i}

\* The oldest pending event is completed.
Complete(i) ==
    /\ i \in pending
    /\ \A j \in pending : i <= j
    /\ pending' = pending \ {i}
    /\ UNCHANGED events

\* Rows are deleted, completed or not; their ids may come again.
Expire(gone) ==
    /\ events' = [j \in DOMAIN events \ gone |-> events[j]]
    /\ pending' = pending \ gone

QueueNext ==
    \/ \E i \in pending' \ pending, k \in Kinds : Enqueue(i, k)
    \/ \E i \in pending : Complete(i)
    \/ \E gone \in SUBSET DOMAIN events : Expire(gone)

QueueSpec == QueueInit /\ [][QueueNext]_queueVars
=============================================================================

----------------------------- MODULE PolicyGraph -----------------------------
(***************************************************************************)
(* The event graph of a set of policies: what validator.py declares it to  *)
(* be, the depth-first search for its cycles, and beside it the chains of  *)
(* events the daemon really produces with these policies.                  *)
(*                                                                         *)
(* An event type is a value, a trigger is a text: an event type or a glob. *)
(* The static graph compares texts, the daemon matches events.             *)
(***************************************************************************)
EXTENDS Integers, Sequences, FiniteSets

CONSTANTS
    Event,               \* event types
    Text,                \* event types and globs
    Matched,             \* the events each text matches (fnmatch)
    Corpora,             \* the sets of policies to look at
    Scheduled            \* events of the scheduler adapter

Policy ==
    [trigger : Text, plain : SUBSET Event, sub : SUBSET Event,
     provides : SUBSET Event, requires : SUBSET Text, old : BOOLEAN, enabled : BOOLEAN]

ASSUME GraphAssumption ==
    /\ Event \subseteq Text /\ Scheduled \subseteq Event
    /\ Matched \in [Text -> SUBSET Event]
    /\ \A e \in Event : Matched[e] = {e}
    /\ Corpora \subseteq SUBSET Policy

VARIABLES
    corpus,              \* the policy files
    pc,                  \* dfs, valid, invalid
    visited,             \* visited
    path,                \* path; rec_stack is the set of its nodes
    todo,                \* neighbours of each node the loop has still to look at
    cycles,              \* cycles
    rank, returned,      \* history: the order in which the calls of dfs return
    chain                \* the events of a chain of policies at run time

search == <<visited, path, todo, cycles, rank, returned>>
vars == <<corpus, pc, search, chain>>

-----------------------------------------------------------------------------
(* The policies                                                            *)

\* load_policies: files that are not disabled, at the top and in the directories
\* of workflows.
Loaded == {p \in corpus : p.enabled}

\* _infer_provides_requires for the old format, the declaration for the new.
Provides(p) == IF p.old THEN p.plain ELSE p.provides
DeclaredRequires(p) == IF p.old THEN {p.trigger} ELSE p.requires

\* build_static_graph: the triggers, if nothing is declared.
Requires(p) == IF DeclaredRequires(p) = {} THEN {p.trigger} ELSE DeclaredRequires(p)

Edges == UNION {Requires(p) \X Provides(p) : p \in Loaded}
Provided == Scheduled \cup UNION {Provides(p) : p \in Loaded}
Required == UNION {Requires(p) : p \in Loaded}
Unsatisfied == Required \ Provided

Nodes == {edge[1] : edge \in Edges} \cup {edge[2] : edge \in Edges}
Neighbours(n) == {m \in Text : <<n, m>> \in Edges}

\* What the daemon emits: emit actions and the sub-actions of an action.
Emits(p) == p.plain \cup p.sub

Init ==
    /\ corpus \in Corpora
    /\ pc = "dfs" /\ visited = {} /\ path = <<>> /\ todo = [n \in Text |-> {}]
    /\ cycles = {} /\ rank = [n \in Text |-> 0] /\ returned = 0
    /\ chain = <<>>

-----------------------------------------------------------------------------
(* _detect_cycles: the order of the nodes and of the neighbours is that of *)
(* a Python set.                                                           *)

OnPath == {path[i] : i \in 1 .. Len(path)}
Top == path[Len(path)]

Enter(n) ==
    /\ visited' = visited \cup {n}
    /\ path' = Append(path, n)

CallRoot(n) ==
    /\ pc = "dfs" /\ path = <<>> /\ n \in Nodes \ visited
    /\ Enter(n) /\ todo' = [todo EXCEPT ![n] = Neighbours(n)]
    /\ UNCHANGED <<corpus, pc, cycles, rank, returned, chain>>

\* Mutant of CallNeighbour: a node that was seen before is entered again.
CallAnyNeighbour(m) ==
    /\ pc = "dfs" /\ path # <<>> /\ m \in todo[Top]
    /\ Enter(m) /\ todo' = [todo EXCEPT ![Top] = @ \ {m}, ![m] = Neighbours(m)]
    /\ UNCHANGED <<corpus, pc, cycles, rank, returned, chain>>

CallNeighbour(m) ==
    /\ pc = "dfs" /\ path # <<>> /\ m \in todo[Top] \ visited
    /\ Enter(m) /\ todo' = [todo EXCEPT ![Top] = @ \ {m}, ![m] = Neighbours(m)]
    /\ UNCHANGED <<corpus, pc, cycles, rank, returned, chain>>

\* Mutant of LoopFrom: the whole path.
LoopFromRoot(m) == Append(path, m)

LoopFrom(m) ==
    LET start == CHOOSE i \in 1 .. Len(path) : path[i] = m
    IN  Append(SubSeq(path, start, Len(path)), m)

BackEdge(m) ==
    /\ pc = "dfs" /\ path # <<>> /\ m \in todo[Top] \cap OnPath
    /\ cycles' = cycles \cup {LoopFrom(m)}
    /\ todo' = [todo EXCEPT ![Top] = @ \ {m}]
    /\ UNCHANGED <<corpus, pc, visited, path, rank, returned, chain>>

\* Mutant of SeenBefore: a node on the path is taken for one that is finished.
SeenBeforeAnywhere(m) ==
    /\ pc = "dfs" /\ path # <<>> /\ m \in todo[Top] \cap visited
    /\ todo' = [todo EXCEPT ![Top] = @ \ {m}]
    /\ UNCHANGED <<corpus, pc, visited, path, cycles, rank, returned, chain>>

SeenBefore(m) ==
    /\ pc = "dfs" /\ path # <<>> /\ m \in (todo[Top] \cap visited) \ OnPath
    /\ todo' = [todo EXCEPT ![Top] = @ \ {m}]
    /\ UNCHANGED <<corpus, pc, visited, path, cycles, rank, returned, chain>>

Return ==
    /\ pc = "dfs" /\ path # <<>> /\ todo[Top] = {}
    /\ returned' = returned + 1 /\ rank' = [rank EXCEPT ![Top] = returned']
    /\ path' = SubSeq(path, 1, Len(path) - 1)
    /\ UNCHANGED <<corpus, pc, visited, todo, cycles, chain>>

\* Mutant of Validate: a cycle is a warning.
ValidateSatisfied ==
    /\ pc = "dfs" /\ path = <<>> /\ Nodes \subseteq visited
    /\ pc' = IF Unsatisfied = {} THEN "valid" ELSE "invalid"
    /\ UNCHANGED <<corpus, search, chain>>

\* validate_graph: valid if nothing is unsatisfied and there is no cycle.
Validate ==
    /\ pc = "dfs" /\ path = <<>> /\ Nodes \subseteq visited
    /\ pc' = IF Unsatisfied = {} /\ cycles = {} THEN "valid" ELSE "invalid"
    /\ UNCHANGED <<corpus, search, chain>>

-----------------------------------------------------------------------------
(* The policies at run time                                                *)

\* Anybody may publish anything; each policy that matches may answer.
Publish(e) ==
    /\ pc # "dfs" /\ chain = <<>>
    /\ chain' = <<e>>
    /\ UNCHANGED <<corpus, pc, search>>

\* The bound: one event more than there are types shows a repetition.
Answer(p, e) ==
    /\ chain # <<>> /\ Len(chain) <= Cardinality(Event)
    /\ p \in Loaded /\ chain[Len(chain)] \in Matched[p.trigger] /\ e \in Emits(p)
    /\ chain' = Append(chain, e)
    /\ UNCHANGED <<corpus, pc, search>>

Search ==
    \/ \E n \in Text : CallRoot(n) \/ CallNeighbour(n) \/ BackEdge(n) \/ SeenBefore(n)
    \/ Return \/ Validate

Next ==
    \/ Search
    \/ \E e \in Event : Publish(e)
    \/ \E p \in corpus, e \in Event : Answer(p, e)

Spec == Init /\ [][Next]_vars

-----------------------------------------------------------------------------
(* Properties                                                              *)

\* Types; the search never enters a node twice.
TypeOK ==
    /\ corpus \subseteq Policy /\ pc \in {"dfs", "valid", "invalid"}
    /\ visited \subseteq Nodes /\ path \in Seq(visited)
    /\ \A i, j \in 1 .. Len(path) : path[i] = path[j] => i = j
    /\ todo \in [Text -> SUBSET Nodes] /\ cycles \subseteq Seq(Nodes)
    /\ returned \in Nat /\ rank \in [Text -> 0 .. returned]
    /\ chain \in Seq(Event)

\* Every reported cycle is one: it runs along edges, back to where it began
\* (the slice of the path that starts at the node met again).
CyclesReal ==
    \A c \in cycles :
        /\ Len(c) > 1 /\ c[1] = c[Len(c)]
        /\ \A i \in 1 .. Len(c) - 1 : <<c[i], c[i + 1]>> \in Edges

\* The reference: a set of nodes each of which has a neighbour in the set.
Cyclic == \E S \in SUBSET Nodes : S # {} /\ \A n \in S : Neighbours(n) \cap S # {}

\* In whatever order the nodes and neighbours come, the search reports a cycle
\* exactly if there is one, although it looks at no node twice.
NoCycleMissed == pc # "dfs" => (Cyclic <=> cycles # {})

\* What the declarations promise: nothing is emitted that is not declared, and
\* whatever a trigger matches is what the policy is said to require.
Honest ==
    \A p \in Loaded : Emits(p) \subseteq Provides(p) /\ Matched[p.trigger] \subseteq Requires(p)

\* If the policies are honest and validate_graph finds the graph valid, no chain
\* of events that the daemon runs through returns to an event type: policies
\* cannot feed each other for ever.
ValidatedChainsEnd ==
    pc = "valid" /\ Honest =>
        \A i, j \in 1 .. Len(chain) : chain[i] = chain[j] => i = j
=============================================================================

---------------------------- MODULE MCPolicyGraph ----------------------------
(***************************************************************************)
(* The instance of PolicyGraph for TLC: policies of one trigger and        *)
(* one emitted event each, in every style in which a file can say so.      *)
(* "star" is a glob that matches two events.                               *)
(***************************************************************************)
EXTENDS PolicyGraph

MCEvent == {"a", "b", "c"}
MCText == MCEvent \cup {"star"}
MCMatched == [t \in MCText |-> IF t = "star" THEN {"a", "b"} ELSE {t}]

Written(trigger, plain, sub, provides) ==
    [trigger |-> trigger, plain |-> plain, sub |-> sub, provides |-> provides,
     requires |-> {}, old |-> FALSE, enabled |-> TRUE]

\* An emit action, declared or not; a sub-action; an event declared and never
\* emitted; a glob with its events declared; an old recipe, plain or with a
\* sub-action; a disabled file.
Styles(t, e) ==
    LET declared == Written(t, {e}, {}, {e}) IN
    {declared,
     Written(t, {e}, {}, {}),
     Written(t, {}, {e}, {}),
     Written(t, {}, {}, {e}),
     [declared EXCEPT !.requires = MCMatched[t]],
     [declared EXCEPT !.old = TRUE, !.provides = {}],
     [declared EXCEPT !.old = TRUE, !.provides = {}, !.plain = {}, !.sub = {e}],
     [declared EXCEPT !.enabled = FALSE]}

\* Pairs in every style; and every graph over the three events, written with
\* one declared policy per edge.
Shapes == UNION {Styles(t, e) : t \in MCText, e \in MCEvent}
Declared == {Written(t, {e}, {}, {e}) : t \in MCEvent, e \in MCEvent}
MCCorpora == {{p, q} : p \in Shapes, q \in Shapes} \cup SUBSET Declared
=============================================================================
